SPECIFICATION FairSystem
CONSTANTS
  Me = "me"
  Kind <- Kinds
  LinkedInThread = {"la", "lb"}
  MailThread = {"mail"}
  Contact = {"alice", "bob"}
  Named = {"bob"}
  Hidden = {}
  MaxPages = 2
  MaxPerDay = 1
  MaxSent = 3
  MaxGlitches = 1
INVARIANTS TypeOK ListedHasText
PROPERTIES StoreSpec ArrivalHidesOnlyAutomated ReadMeansShown EventuallyShown
