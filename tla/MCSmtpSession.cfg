\* Two messages, repeated commands, STARTTLS and failed authentications; and
\* operators who change the account, its grants and the mailboxes.
CONSTANTS
    b1 = b1
    b2 = b2
    alias = alias
    Mailboxes = {b1, b2}
    Others = {alias}
    NoAddress = NoAddress
    AccountRows <- MCRows
    LinkSets <- MCLinks
    AllowLists <- MCAllow
    MailboxOrder <- MCOrder
    Configs <- MCConfigs
    MaxAuthFailures = 2
    MaxRecipients = 2
    MaxChanges = 2
    MaxMails = 2
    MaxMessages = 2
SPECIFICATION Spec
CONSTRAINT Explored
INVARIANTS NothingInTheClear OwnRecipientsOnly GuessesBounded AcceptedIsQueued SentAsGranted
