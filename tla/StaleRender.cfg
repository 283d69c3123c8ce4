\* One edit of one text beside the session.
CONSTANTS
  Width <- SomeWidth
  Texts <- OneText
  News <- SomeNews
  MaxEdits <- OneEdit
  Newline = "nl"
  Return = "cr"
  Names = {"f"}
  LastRevision = 2
  Document = "f"
  Typed <- TypedTexts
  OnDisk <- DiskText
  Encoding = "utf-16"
  MaxVersion = 3
SPECIFICATION EditorSpec
INVARIANT StaleNeverShown
CHECK_DEADLOCK FALSE
