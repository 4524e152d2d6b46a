SPECIFICATION Spec
CONSTANTS
  Texts = {t1}
  Blank = Blank
  None = None
  Roles = {"operator", "viewer"}
  MaxClicks = 2
  MaxChanges = 2
  MaxFailures = 1
INVARIANT GeneratedDraftShown
