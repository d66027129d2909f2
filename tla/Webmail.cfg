SPECIFICATION Spec
CONSTANTS
  None = None
  Messages = {m1}
  SizeNamed = {}
  Workers = {w1, w2}
  Kinds = {"get", "attachment", "mark", "move", "remove", "list", "count"}
  Recipients = {"r1", "r2"}
  Targets = 3
  MaxLost = 2
  Text = {"", "text/plain", "text/html", "application/octet-stream", "image/png", "multipart/mixed",
          "multipart/alternative", "quoted-printable", "base64", "attachment", "att", "part", "a", "t", "h", "d1"}
  MaxNesting = 1
  Multiparts = {"multipart/mixed", "multipart/alternative"}
  MaxSnippet = 2
  DefaultLimit = 2
  MaxLimit = 3
SYMMETRY Symmetry
INVARIANTS
  NothingLost
  FailsForCause
  ListingsAreTrue
  SubmissionIsExplained
  ContentComesBack
PROPERTY
  ImplementsFolders
