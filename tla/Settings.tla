------------------------------ MODULE Settings ------------------------------
(***************************************************************************)
(* The settings page: the draft of the connection, the connection test     *)
(* with its late answers, the health badge, and the storage limit of the   *)
(* server that the saved connection names.                                 *)
(*                                                                         *)
(* The test compares a request number before it shows an answer; the       *)
(* storage limit has no such number, and its answer is handled by the      *)
(* callbacks of the latest render.  Limits are counted in thirds of a      *)
(* tenth of a GiB: the field shows tenths.                                 *)
(***************************************************************************)
EXTENDS Naturals, FiniteSets

CONSTANTS
    Conns,      \* connections: API base URL and token
    NoConn,     \* an empty API base URL
    Limits,     \* limits that servers have and users type
    OthersSave, \* other clients change limits
    Switches,   \* another connection may be saved while a limit is being saved
    MaxTests    \* bound on the connection tests and draft changes

ASSUME SettingsAssumption ==
    /\ NoConn \notin Conns
    /\ Limits \subseteq Nat \ {0}
    /\ OthersSave \in BOOLEAN /\ Switches \in BOOLEAN
    /\ MaxTests \in Nat

AnyConn == Conns \cup {NoConn}

VARIABLES
    settings,        \* the saved connection
    draft,           \* draftSettings
    testRequestRef,
    tests,           \* connection tests under way: number and connection
    manual,          \* manualHealthStates
    isTestingConnection,
    limit,           \* the limit of each server
    stats,           \* systemStatsQuery: the cached limit of each server, 0 unknown
    statsFetch,      \* the fetch of the stats of each server
    quota,           \* storageQuotaMutation
    storageLimitGiB, \* the limit field, 0 when empty
    touched          \* the user typed in it since it was last set

connection == <<settings, draft>>
testing == <<testRequestRef, tests, manual, isTestingConnection>>
storage == <<limit, stats, statsFetch, quota, storageLimitGiB, touched>>
settingsVars == <<connection, testing, storage>>

NoStates == [kind |-> "none", of |-> NoConn]
Checking == [kind |-> "checking", of |-> NoConn]
NoQuota == [phase |-> "idle", conn |-> NoConn, to |-> 0]
NoStatsFetch == [phase |-> "idle", answer |-> 0]
StatsSent == [phase |-> "sent", answer |-> 0]

-----------------------------------------------------------------------------
(* The connection                                                          *)

clearManualHealthStates ==
    /\ testRequestRef' = testRequestRef + 1
    /\ manual' = NoStates
    /\ isTestingConnection' = FALSE
    /\ UNCHANGED tests

updateDraftSettings_Mutant(c) ==
    /\ testRequestRef < MaxTests
    /\ draft' = c
    /\ UNCHANGED <<settings, testing, storage>>

updateDraftSettings(c) ==
    /\ testRequestRef < MaxTests
    /\ draft' = c
    /\ clearManualHealthStates
    /\ UNCHANGED <<settings, storage>>

\* The field shows tenths of a GiB.
bytesToGiBString(bytes) == 3 * ((bytes + 1) \div 3)

\* The effect on storageStats: it runs when they are another object than before.
StatsEffect(changed, new) ==
    IF changed /\ new # 0
    THEN storageLimitGiB' = bytesToGiBString(new) /\ touched' = FALSE
    ELSE UNCHANGED <<storageLimitGiB, touched>>

\* The stats of the new connection are fetched, cached or not; cached ones are
\* another object than those of the connection before.
ObserveStats(c) ==
    /\ statsFetch' = IF c # NoConn /\ statsFetch[c].phase = "idle"
                     THEN [statsFetch EXCEPT ![c] = StatsSent] ELSE statsFetch
    /\ StatsEffect(TRUE, IF c = NoConn THEN 0 ELSE stats[c])

handleSubmitSettings ==
    /\ testRequestRef < MaxTests
    /\ quota.phase # "idle" => Switches \/ draft = settings
    /\ settings' = draft
    /\ clearManualHealthStates
    /\ IF draft # settings THEN ObserveStats(draft)
       ELSE UNCHANGED <<statsFetch, storageLimitGiB, touched>>
    /\ UNCHANGED <<draft, limit, stats, quota>>

handleTestConnection ==
    /\ testRequestRef < MaxTests
    /\ ~isTestingConnection /\ draft # NoConn
    /\ testRequestRef' = testRequestRef + 1
    /\ tests' = tests \cup {[id |-> testRequestRef + 1, conn |-> draft]}
    /\ isTestingConnection' = TRUE
    /\ manual' = Checking
    /\ UNCHANGED <<connection, storage>>

\* An answer, good or bad, of a test that may no longer be the latest one;
\* try, catch and finally of handleTestConnection.
TestEnds(t) ==
    /\ t \in tests
    /\ tests' = tests \ {t}
    /\ IF t.id = testRequestRef
       THEN /\ manual' = [kind |-> "result", of |-> t.conn]
            /\ isTestingConnection' = FALSE
       ELSE UNCHANGED <<manual, isTestingConnection>>
    /\ UNCHANGED <<connection, testRequestRef, storage>>

-----------------------------------------------------------------------------
(* The storage limit                                                       *)

setStorageLimitGiB(v) ==
    /\ settings # NoConn /\ stats[settings] # 0
    /\ storageLimitGiB' = v
    /\ touched' = TRUE
    /\ UNCHANGED <<connection, testing, limit, stats, statsFetch, quota>>

\* An empty field, zero and what is no number are refused.
handleSaveStorageLimit ==
    /\ settings # NoConn /\ stats[settings] # 0
    /\ quota.phase = "idle"
    /\ storageLimitGiB > 0
    /\ quota' = [phase |-> "sent", conn |-> settings, to |-> storageLimitGiB]
    /\ UNCHANGED <<connection, testing, limit, stats, statsFetch, storageLimitGiB,
                   touched>>

ServerSavesLimit ==
    /\ quota.phase = "sent"
    /\ limit' = [limit EXCEPT ![quota.conn] = quota.to]
    /\ quota' = [quota EXCEPT !.phase = "applied"]
    /\ UNCHANGED <<connection, testing, stats, statsFetch, storageLimitGiB, touched>>

\* onSuccess of the latest render: the field is set from the answer, the stats
\* of the connection that is saved by now are fetched again and awaited; their
\* first fetch, if it is under way, is joined.
QuotaSucceeds ==
    /\ quota.phase = "applied"
    /\ storageLimitGiB' = bytesToGiBString(quota.to)
    /\ touched' = FALSE
    /\ IF settings = NoConn
       THEN quota' = NoQuota /\ UNCHANGED statsFetch
       ELSE /\ quota' = [quota EXCEPT !.phase = "awaiting", !.conn = settings]
            /\ statsFetch' = IF stats[settings] # 0 \/ statsFetch[settings].phase = "idle"
                             THEN [statsFetch EXCEPT ![settings] = StatsSent] ELSE statsFetch
    /\ UNCHANGED <<connection, testing, limit, stats>>

\* Refused, or the answer lost.
QuotaFails ==
    /\ quota.phase \in {"sent", "applied"}
    /\ quota' = NoQuota
    /\ UNCHANGED <<connection, testing, limit, stats, statsFetch, storageLimitGiB,
                   touched>>

OtherClientSavesLimit(c, v) ==
    /\ OthersSave
    /\ v # limit[c]
    /\ limit' = [limit EXCEPT ![c] = v]
    /\ UNCHANGED <<connection, testing, stats, statsFetch, quota, storageLimitGiB,
                   touched>>

-----------------------------------------------------------------------------
(* System statistics                                                       *)

ServerReports(c) ==
    /\ statsFetch[c].phase = "sent"
    /\ statsFetch' = [statsFetch EXCEPT ![c] = [phase |-> "answered", answer |-> limit[c]]]
    /\ UNCHANGED <<connection, testing, limit, stats, quota, storageLimitGiB, touched>>

Released(c) ==
    quota' = IF quota.phase = "awaiting" /\ quota.conn = c THEN NoQuota ELSE quota

\* The answer is another object if the limit changed or if anything else did, such
\* as the bytes in use.
StatsArrive(c) ==
    /\ statsFetch[c].phase = "answered"
    /\ stats' = [stats EXCEPT ![c] = statsFetch[c].answer]
    /\ statsFetch' = [statsFetch EXCEPT ![c] = NoStatsFetch]
    /\ Released(c)
    /\ \E changed \in {TRUE, stats[c] # statsFetch[c].answer} :
           StatsEffect(c = settings /\ changed, statsFetch[c].answer)
    /\ UNCHANGED <<connection, testing, limit>>

StatsFail(c) ==
    /\ statsFetch[c].phase # "idle"
    /\ statsFetch' = [statsFetch EXCEPT ![c] = NoStatsFetch]
    /\ Released(c)
    /\ UNCHANGED <<connection, testing, limit, stats, storageLimitGiB, touched>>

-----------------------------------------------------------------------------
SettingsInit ==
    /\ settings \in AnyConn
    /\ draft = settings
    /\ testRequestRef = 0
    /\ tests = {}
    /\ manual = NoStates
    /\ isTestingConnection = FALSE
    /\ limit \in [Conns -> Limits]
    /\ stats = [c \in Conns |-> 0]
    /\ statsFetch = [c \in Conns |-> IF c = settings THEN StatsSent ELSE NoStatsFetch]
    /\ quota = NoQuota
    /\ storageLimitGiB = 0
    /\ touched = FALSE

SettingsNext ==
    \/ \E c \in AnyConn : updateDraftSettings(c)
    \/ handleSubmitSettings
    \/ handleTestConnection
    \/ \E t \in tests : TestEnds(t)
    \/ \E v \in Limits \cup {0} : setStorageLimitGiB(v)
    \/ handleSaveStorageLimit
    \/ ServerSavesLimit
    \/ QuotaSucceeds
    \/ QuotaFails
    \/ \E c \in Conns : ServerReports(c) \/ StatsArrive(c) \/ StatsFail(c)
    \/ \E c \in Conns, v \in Limits : OtherClientSavesLimit(c, v)

SettingsSpec == SettingsInit /\ [][SettingsNext]_settingsVars

-----------------------------------------------------------------------------
(* Properties                                                              *)

\* Every variable has its type; request numbers are not reused, and the
\* latest one belongs to at most one test.
SettingsTypeOK ==
    /\ settings \in AnyConn /\ draft \in AnyConn
    /\ testRequestRef \in 0..MaxTests
    /\ \A t \in tests : t.id \in 1..testRequestRef /\ t.conn \in Conns
    /\ \A t, u \in tests : t.id = u.id => t = u
    /\ manual.kind \in {"none", "checking", "result"} /\ manual.of \in AnyConn
    /\ isTestingConnection \in BOOLEAN
    /\ limit \in [Conns -> Nat] /\ stats \in [Conns -> Nat]
    /\ \A c \in Conns : statsFetch[c].phase \in {"idle", "sent", "answered"}
    /\ quota.phase \in {"idle", "sent", "applied", "awaiting"}
    /\ storageLimitGiB \in Nat /\ touched \in BOOLEAN

\* A test result on the screen is one of the connection in the form, however
\* late the answers of earlier tests arrive and in whatever order.
TestOfDraft == manual.kind = "result" => manual.of = draft

\* The test button is disabled, and the badge says "checking", exactly while
\* the answer that will be shown is still to come.
TestingFlag ==
    /\ isTestingConnection <=> \E t \in tests : t.id = testRequestRef
    /\ isTestingConnection <=> manual.kind = "checking"

\* At rest, a limit field that the user did not touch holds the limit of the
\* server that is connected: saving it again would change nothing.  It holds while
\* no other client changes a limit (OthersSave = FALSE): one that takes back a limit
\* being saved here leaves the stats as they were cached, the effect does not run,
\* and the field keeps what its own save answered.
LimitShown ==
    /\ settings # NoConn /\ ~touched
    /\ quota.phase = "idle" /\ statsFetch[settings].phase = "idle"
    /\ stats[settings] = limit[settings]
    => storageLimitGiB = limit[settings]
=============================================================================
