---- MODULE Services ----
(***************************************************************************)
(* The components of the web application that share nothing but the        *)
(* threads, in one specification: "focus" is the component of a behaviour, *)
(* chosen at the start, and x1 to x6 are its variables, in the order of    *)
(* its module; those that it does not have stay None.                      *)
(***************************************************************************)
EXTENDS Integers, FiniteSets, Sequences

CONSTANTS
  Threads, None,
  MaxRequests,          \* focus -> bound on its requests
  MaxTime,              \* focus -> bound on its clock
  Accounts, Identities, \* sign-in
  Legacy,               \* identity -> its imported account, or None
  Username,             \* identity -> the account of its name
  Students, Numbers,    \* enrolment
  Lectures,             \* assistants
  NCases,               \* focus on files -> pairs of an upload
  NEvents,              \* events of a chat's answer
  Capacity, DefaultCapacity, \* throttle
  TTL,                  \* options
  Users, Contests, Home, Whole, Answers, Typings, Beginnings, Requested,
  Weights, Scales,      \* export
  Roll                  \* pages: the students in the order of their names

Focuses == {"accounts", "sign-in", "enrolment", "assistants", "attendance", "board",
            "files", "sharing", "keys", "chat", "throttle", "options", "export",
            "pages", "questions"}

ASSUME BoundAssumption == MaxRequests \in [Focuses -> Nat]
\* The mark of what is missing is no value.
ASSUME NoneAssumption ==
  /\ None \notin Nat \cup {"author", "teacher"}
  /\ None \notin Identities \cup Accounts \cup Students \cup Numbers
\* The default of a bucket is no more than it may hold (options.py: 10 of 20).
ASSUME CapacityAssumption == Capacity \in Nat /\ DefaultCapacity \in 0..Capacity
ASSUME TTLAssumption == TTL \in Nat
\* An archive without cases is refused.
ASSUME CasesAssumption == NCases \in [{"files", "sharing"} -> Nat \ {0}]
\* An answer of the gateway is not empty: one without text is not stored.
ASSUME AnswerAssumption == NEvents \in Nat \ {0}
\* An identity may have an imported account, and has a name.
ASSUME IdentityAssumption ==
  /\ Legacy \in [Identities -> Accounts \cup {None}]
  /\ Username \in [Identities -> Accounts]
\* A problem has a whole score, the model answers with scores or with nothing,
\* and a weight or a scale is a number; there are finitely many rows.
ASSUME ExportAssumption ==
  /\ IsFiniteSet(DOMAIN Home) /\ IsFiniteSet(Contests)
  /\ Beginnings \subseteq SUBSET DOMAIN Home
  /\ Whole \in [DOMAIN Home -> Nat]
  /\ Answers \subseteq {None} \cup [{"correctness", "algorithm", "readability",
                                    "problem_understanding"} -> Int]
  /\ Weights \in [DOMAIN Weights -> Int] /\ Scales \in [DOMAIN Scales -> Int]
\* The roll is a sequence of students.
ASSUME RollAssumption == Roll \in Seq({Roll[i] : i \in DOMAIN Roll})

VARIABLES focus, job, requests, overlapped, x1, x2, x3, x4, x5, x6

vars == <<focus, job, requests, overlapped, x1, x2, x3, x4, x5, x6>>

A == INSTANCE Accounts WITH
       MaxRequests <- MaxRequests["accounts"],
       row <- x1, shown <- x2, issued <- x3
S == INSTANCE SignIn WITH
       MaxRequests <- MaxRequests["sign-in"],
       account <- x1, cookie <- x2, reached <- x3, requireTfa <- x4,
       lost <- x5, unsynced <- x6
E == INSTANCE Enrolment WITH
       MaxRequests <- MaxRequests["enrolment"],
       number <- x1, signups <- x2, outside <- x3
T == INSTANCE Assistants WITH
       MaxRequests <- MaxRequests["assistants"],
       assists <- x1, role <- x2, outside <- x3
D == INSTANCE Attendance WITH
       MaxRequests <- MaxRequests["attendance"], rows <- x1, ended <- x2
B == INSTANCE RankBoard WITH
       MaxRequests <- MaxRequests["board"],
       contest <- x1, ranks <- x2, cache <- x3
P(size) == INSTANCE ProblemFiles WITH
       MaxRequests <- MaxRequests[size], NCases <- NCases[size],
       problems <- x1, dirs <- x2, known <- x3, orphans <- x4,
       interrupted <- x5, retried <- x6
K == INSTANCE LlmKeys WITH
       MaxRequests <- MaxRequests["keys"], key <- x1, past <- x2
C == INSTANCE LlmChat WITH
       MaxRequests <- MaxRequests["chat"],
       open <- x1, messages <- x2, shown <- x3, cut <- x4, unstored <- x5
R == INSTANCE Throttle WITH
       MaxRequests <- MaxRequests["throttle"], MaxTime <- MaxTime["throttle"],
       stock <- x1, stamp <- x2, clock <- x3, granted <- x4, burst <- x5,
       unstamped <- x6
O == INSTANCE Options WITH
       MaxRequests <- MaxRequests["options"], MaxTime <- MaxTime["options"],
       replaced <- x1, cached <- x2, clock <- x3, own <- x4
X == INSTANCE Export WITH
       Threads <- {"web"}, MaxRequests <- MaxRequests["export"],
       ContestOf <- Home, typeOf <- x1, problems <- x2, roster <- x3,
       subs <- x4, evals <- x5, file <- x6
V == INSTANCE ScorePages WITH
       Threads <- {"web"}, MaxRequests <- MaxRequests["pages"],
       rows <- x1, problems <- x2, passed <- x3, attended <- x4, copied <- x5,
       unsure <- x6
Q == INSTANCE Questions WITH
       MaxRequests <- MaxRequests["questions"],
       question <- x1, comments <- x2, mixed <- x3

Init ==
  \/ focus = "accounts" /\ A!Init
       /\ x4 = None /\ x5 = None /\ x6 = None
  \/ focus = "sign-in" /\ S!Init
  \/ focus = "enrolment" /\ E!Init
       /\ x4 = None /\ x5 = None /\ x6 = None
  \/ focus = "assistants" /\ T!Init
       /\ x4 = None /\ x5 = None /\ x6 = None
  \/ focus = "attendance" /\ D!Init
       /\ x3 = None /\ x4 = None /\ x5 = None /\ x6 = None
  \/ focus = "board" /\ B!Init
       /\ x4 = None /\ x5 = None /\ x6 = None
  \/ focus = "files" /\ P("files")!Init
  \/ focus = "sharing" /\ P("sharing")!Init
  \/ focus = "keys" /\ K!Init
       /\ x3 = None /\ x4 = None /\ x5 = None /\ x6 = None
  \/ focus = "chat" /\ C!Init
       /\ x6 = None
  \/ focus = "throttle" /\ R!Init
  \/ focus = "options" /\ O!Init
       /\ x5 = None /\ x6 = None
  \/ focus = "export" /\ X!Init
  \/ focus = "pages" /\ V!Init
  \/ focus = "questions" /\ Q!Init
       /\ x4 = None /\ x5 = None /\ x6 = None

Next ==
  \/ focus = "accounts" /\ A!Next /\ UNCHANGED <<focus, x4, x5, x6>>
  \/ focus = "sign-in" /\ S!Next /\ UNCHANGED focus
  \/ focus = "enrolment" /\ E!Next /\ UNCHANGED <<focus, x4, x5, x6>>
  \/ focus = "assistants" /\ T!Next /\ UNCHANGED <<focus, x4, x5, x6>>
  \/ focus = "attendance" /\ D!Next /\ UNCHANGED <<focus, x3, x4, x5, x6>>
  \/ focus = "board" /\ B!Next /\ UNCHANGED <<focus, x4, x5, x6>>
  \/ focus = "files" /\ P("files")!Next /\ UNCHANGED focus
  \/ focus = "sharing" /\ P("sharing")!Next /\ UNCHANGED focus
  \/ focus = "keys" /\ K!Next /\ UNCHANGED <<focus, x3, x4, x5, x6>>
  \/ focus = "chat" /\ C!Next /\ UNCHANGED <<focus, x6>>
  \/ focus = "throttle" /\ R!Next /\ UNCHANGED focus
  \/ focus = "options" /\ O!Next /\ UNCHANGED <<focus, x5, x6>>
  \/ focus = "export" /\ X!Next /\ UNCHANGED focus
  \/ focus = "pages" /\ V!Next /\ UNCHANGED focus
  \/ focus = "questions" /\ Q!Next /\ UNCHANGED <<focus, x4, x5, x6>>

Spec == Init /\ [][Next]_vars

-----------------------------------------------------------------------------
\* Two factor authentication and the open API are never on without a usable key.
KeysUsable == focus = "accounts" => A!KeysUsable

\* An identity of the single sign-on is only ever signed in to one account.
OneAccountEach == focus = "sign-in" => S!OneAccountEach

\* The single sign-on asks every administrator for the second factor.
AdministratorsNeedTfa == focus = "sign-in" => S!AdministratorsNeedTfa

\* A student on the list of a lecture whose account exists is linked to it.
ListedIsLinked == focus = "enrolment" => E!ListedIsLinked

\* A user is a semi administrator exactly while assisting in a lecture.
RoleMatches == focus = "assistants" => T!RoleMatches

\* Who has left a contest early does not attend it again.
LeftStaysLeft == [][focus = "attendance" => D!LeftStaysLeftStep]_vars

\* A board that is not frozen shows the ranks there are.
BoardFresh == focus = "board" => B!BoardFresh

\* The test cases of a problem exist.
FilesExist ==
  /\ focus = "files" => P("files")!FilesExist
  /\ focus = "sharing" => P("sharing")!FilesExist

\* The info file of test cases names the files there are.
InfoDescribesFiles ==
  /\ focus = "files" => P("files")!InfoDescribesFiles
  /\ focus = "sharing" => P("sharing")!InfoDescribesFiles

\* No renaming loses a test case.
NoCaseLost ==
  /\ focus = "files" => P("files")!NoCaseLost
  /\ focus = "sharing" => P("sharing")!NoCaseLost

\* A key that was revoked or expired is never active again.
RevokedForGood == [][focus = "keys" => K!RevokedForGoodStep]_vars

\* The stored answer is what the browser was shown, but for characters cut.
StoredIsShown == focus = "chat" => C!StoredIsShown

\* The submissions of a user keep to the rate.
RateLimit == focus = "throttle" => R!RateLimit

\* No thread goes on with an old option for long.
StaleBound == focus = "options" => O!StaleBound

\* The sheets of an exported workbook agree.
SheetsAgree == focus = "export" => X!SheetsAgree

\* The pages about students' scores show each student their own.
PagesAreTrue == focus = "pages" => V!PagesAreTrue

\* An open question is pushed to the one whose turn it is.
TurnIsRight == focus = "questions" => Q!TurnIsRight
====
