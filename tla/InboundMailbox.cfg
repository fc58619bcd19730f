CONSTANTS
    p1 = p1
    p2 = p2
    None = None
    Mails = {1, 2}
    Kinds <- MCKinds
    Polls = {p1, p2}
    Top = 1
    MaxAttempts = 2
    RequireDmarc = TRUE
    NotifyOwner = {"email"}
    ReplyToSender = TRUE
    Faults = {"crash", "database", "database_down", "graph", "overrun"}
    MaxFaults = 1
    Changes = {"mode", "active", "date", "slot"}
    MaxChanges = 1
SPECIFICATION FairSpec
INVARIANTS OneNotificationPerMail ReadIsAccounted AnswersLimited OverlapNeedsOverrun
PROPERTY MailsAreRead
