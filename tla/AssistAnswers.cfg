SPECIFICATION AnswersSpec
CONSTANTS
    Lowered <- MCLowered
    Kebabed <- MCKebabed
    Floats <- MCFloats
    Separators <- MCSeparators
    Days <- MCDays
    Texts <- MCTexts
    CurrentKeys <- MCCurrentKeys
    Institutions <- MCInstitutions
    Years <- MCYears
    Searches <- MCSearches
    Sections <- MCSections
    Partners <- MCPartners
    Agreements <- MCAgreements
    Reads <- MCReads
    Snapshots <- MCSnapshots
    Asks <- MCAsks
    FlagSets <- MCFlagSets
    RecordList <- AssistRecordList
    CourseRecords <- AdvisorCourseRecords
    NameTerms <- AssistNameTerms
    NumericValues <- AssistNumericValues
    Expanded <- ExpandAgreementJSONStrings
    Diff <- DiffJSONTrees
    AnswerOutput <- PrintedAnswer
    ReadOutput <- PrintedRead
INVARIANTS
    DiffRebuilds
    ResolutionIgnoresOrder
    AnswerSurvives
