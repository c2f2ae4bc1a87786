SPECIFICATION WSpec
CONSTANTS
    Serials = {0, 1}
    Strings <- MCStrings
    Tokens = {0, 1}
    Specs <- MCSpecs
    Lists <- MCLists
    Unset = Unset
    Refused = Refused
    Always = Always
INVARIANTS
    RoundTrip
    NoTokenMadeUp
CHECK_DEADLOCK FALSE
