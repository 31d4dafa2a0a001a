SPECIFICATION Spec
CONSTANTS
  wrong = wrong
  Unset = Unset
  Null = Null
  Unreadable = Unreadable
  MaxEdits = 1
  Texts = {"none", "0.0.0.0", "development", "", "example.com"}
  Providers = {"openai", "ollama"}
  Subjects <- MCSubjects
  Candidates <- MCCandidates
  Documents <- MCDocuments
INVARIANTS
  TypeOK
PROPERTIES
  LoadedIsSound
