SPECIFICATION Spec
CONSTANTS
    Values <- MCValues
    Filldown <- MCFilldown
    Required <- MCRequired
    List <- MCList
    Fillup <- MCFillup
    Key <- MCKey
    Kind <- MCKind
    Text <- MCText
    Absent = "none"
    EndOfInput <- MCEnd
    Templates <- MCTemplates
    Inputs <- MCInputs
    Presets <- MCPresets
CHECK_DEADLOCK FALSE
INVARIANTS
    FilldownMirrors
    RecordsComplete
    RecordsTellTheText
PROPERTIES
    RecordsStay
