SPECIFICATION Spec
CONSTANTS
  Formats <- MCFormats
  Texts <- MCTexts
  Calls <- MCCalls
  HardMaxBytes = 8
  Additions <- MCAdditions
  MaxForeign = 1
  ValidIds <- MCValidIds
  Canonical <- MCCanonical
  NameOrder <- MCNameOrder
  Usize = 64
  Caps <- MCCaps
  DefaultLimits <- MCDefaultLimits
  DefaultDeny <- MCDefaultDeny
  MaxPatterns = 3
  MaxPatternBytes = 9
  Files <- MCFiles
  Requests <- MCRequests
  Slack = 1
  MaxRegexLine = 3
  MaxRedacted = 6
  Replacement <- MCReplacement
  MaxWorkingSet = 14
  Permitted = {"read", "full", "grep", "edit", "patch"}
  Probes <- MCProbes
INVARIANTS
    TextFaithful
    PolicySound
