\* Three field names, one of them with a dot, documents that nest once, any
\* layer absent; texts over eight characters.
SPECIFICATION Spec
CONSTANTS
  Keys <- MCKeys
  Depth = 1
  Documents <- MCDocuments
  Chars <- MCChars
  LoneTexts <- MCLoneTexts
  WeakTexts <- MCWeakTexts
  StrongTexts <- MCStrongTexts
INVARIANTS RootIsOverlay LeavesKeepTheirSource EntrySourceSurvives ReadersAgree RenderReadsBack
