------------------------- MODULE Management_proofs -------------------------
(***************************************************************************)
(* Proofs about the management pages, for any number of connections,       *)
(* sites, buckets and requests: the settings with their connection tests,  *)
(* the sites with their forms, the buckets with their pins.  Each page has *)
(* an invariant that says which request, answer or form a value belongs    *)
(* to; the properties are about values that outlive what they belong to.   *)
(***************************************************************************)
EXTENDS BucketPins, Sites, Settings, Filters_proofs, TLAPS

-----------------------------------------------------------------------------
(* Connection tests                                                        *)

\* Numbers of tests are numbers that were given out, each once; the test with
\* the latest number, if it is under way, is one of the draft, and is the one
\* that the badge and the button wait for.
TestsInv ==
    /\ testRequestRef \in Nat
    /\ \A t \in tests : t.id \in Nat /\ t.id <= testRequestRef
    /\ \A t \in tests : t.id = testRequestRef => t.conn = draft
    /\ \A t, u \in tests : t.id = u.id => t = u
    /\ TestOfDraft
    /\ TestingFlag

LEMMA TestsStep ==
    ASSUME TestsInv, [SettingsNext]_settingsVars
    PROVE  TestsInv'
<1> USE DEF TestsInv, TestOfDraft, TestingFlag
<1>1. ASSUME NEW c \in AnyConn, updateDraftSettings(c)
      PROVE  TestsInv'
  BY <1>1 DEF updateDraftSettings, clearManualHealthStates, NoStates
<1>2. CASE handleSubmitSettings
  BY <1>2 DEF handleSubmitSettings, clearManualHealthStates, NoStates
<1>3. CASE handleTestConnection
  <2>1. /\ testRequestRef' = testRequestRef + 1 /\ draft' = draft
        /\ tests' = tests \cup {[id |-> testRequestRef + 1, conn |-> draft]}
        /\ isTestingConnection' = TRUE /\ manual' = Checking
    BY <1>3 DEF handleTestConnection, connection
  <2> DEFINE new == [id |-> testRequestRef + 1, conn |-> draft]
  <2>2. new.id = testRequestRef' /\ new.id \in Nat /\ new.conn = draft'
    BY <2>1
  <2>3. \A t \in tests : t.id < testRequestRef'
    BY <2>1
  <2>4. tests' = tests \cup {new} /\ testRequestRef' \in Nat
    BY <2>1
  <2> HIDE DEF new
  <2>5. /\ \A t \in tests' : t.id \in Nat /\ t.id <= testRequestRef'
        /\ \A t \in tests' : t.id = testRequestRef' => t.conn = draft'
    BY <2>2, <2>3, <2>4
  <2>6. \A t, u \in tests' : t.id = u.id => t = u
    BY <2>2, <2>3, <2>4
  <2>7. TestOfDraft' /\ TestingFlag'
    BY <2>1, <2>2, <2>4 DEF Checking
  <2> QED BY <2>4, <2>5, <2>6, <2>7
<1>4. ASSUME NEW t \in tests, TestEnds(t)
      PROVE  TestsInv'
  <2>1. /\ tests' = tests \ {t} /\ draft' = draft /\ testRequestRef' = testRequestRef
    BY <1>4 DEF TestEnds, connection
  <2>2. CASE t.id = testRequestRef
    <3>1. manual' = [kind |-> "result", of |-> t.conn] /\ isTestingConnection' = FALSE
      BY <1>4, <2>2 DEF TestEnds
    <3> QED BY <2>1, <2>2, <3>1
  <2>3. CASE t.id # testRequestRef
    <3>1. UNCHANGED <<manual, isTestingConnection>>
      BY <1>4, <2>3 DEF TestEnds
    <3> QED BY <2>1, <2>3, <3>1
  <2> QED BY <2>2, <2>3
<1>5. CASE UNCHANGED <<connection, testing>>
  BY <1>5 DEF connection, testing
<1>6. SettingsNext => \/ \E c \in AnyConn : updateDraftSettings(c)
                      \/ handleSubmitSettings \/ handleTestConnection
                      \/ \E t \in tests : TestEnds(t)
                      \/ UNCHANGED <<connection, testing>>
  BY DEF SettingsNext, setStorageLimitGiB, handleSaveStorageLimit, ServerSavesLimit,
         QuotaSucceeds, QuotaFails, ServerReports, StatsArrive, StatsFail,
         OtherClientSavesLimit
<1> QED BY <1>1, <1>2, <1>3, <1>4, <1>5, <1>6 DEF settingsVars

\* The invariant of the connection tests (handleTestConnection).
THEOREM TestsInvariant == SettingsSpec => []TestsInv
<1>1. SettingsInit => TestsInv
  BY DEF SettingsInit, TestsInv, TestOfDraft, TestingFlag, NoStates
<1> QED BY <1>1, TestsStep, PTL DEF SettingsSpec

\* A test result on the screen is one of the connection in the form, and the
\* test button is disabled exactly while the answer that will be shown is still
\* to come, for any number of connections and of tests under way
\* (handleTestConnection).
THEOREM TestsOfDraft == SettingsSpec => [](TestOfDraft /\ TestingFlag)
<1>1. TestsInv => TestOfDraft /\ TestingFlag
  BY DEF TestsInv
<1> QED BY <1>1, TestsInvariant, PTL

-----------------------------------------------------------------------------
(* Types of the settings                                                   *)

StatsFetches == [phase : {"idle", "sent", "answered"}, answer : Nat]
LimitSaves == [phase : {"idle", "sent", "applied", "awaiting"}, conn : AnyConn, to : Nat]

ConnectionTypes ==
    /\ settings \in AnyConn /\ draft \in AnyConn
    /\ testRequestRef \in 0..MaxTests
    /\ \A t \in tests : t.id \in 1..testRequestRef /\ t.conn \in Conns
    /\ manual \in [kind : {"none", "checking", "result"}, of : AnyConn]
    /\ isTestingConnection \in BOOLEAN

StorageTypes ==
    /\ limit \in [Conns -> Nat] /\ stats \in [Conns -> Nat]
    /\ statsFetch \in [Conns -> StatsFetches]
    /\ quota \in LimitSaves
    /\ quota.phase # "idle" => quota.conn \in Conns
    /\ storageLimitGiB \in Nat /\ touched \in BOOLEAN

SettingsTypes == ConnectionTypes /\ StorageTypes

LEMMA NoneTypes ==
    /\ NoStatsFetch \in StatsFetches /\ StatsSent \in StatsFetches
    /\ NoQuota \in LimitSaves /\ NoQuota.phase = "idle"
    /\ \A l \in Nat : bytesToGiBString(l) \in Nat
  BY DEF NoStatsFetch, StatsSent, StatsFetches, NoQuota, LimitSaves, AnyConn, bytesToGiBString

LEMMA ConnectionStep ==
    ASSUME ConnectionTypes, [SettingsNext]_settingsVars
    PROVE  ConnectionTypes'
<1> USE DEF ConnectionTypes
<1>0. MaxTests \in Nat /\ NoConn \in AnyConn
  BY SettingsAssumption DEF AnyConn
<1>1. ASSUME clearManualHealthStates, settings' \in AnyConn, draft' \in AnyConn,
             testRequestRef < MaxTests
      PROVE  ConnectionTypes'
  <2>1. /\ testRequestRef' = testRequestRef + 1 /\ tests' = tests
        /\ manual' = [kind |-> "none", of |-> NoConn] /\ isTestingConnection' = FALSE
    BY <1>1 DEF clearManualHealthStates, NoStates
  <2>2. testRequestRef' \in 0..MaxTests /\ testRequestRef \in Nat
    BY <1>0, <1>1, <2>1
  <2>3. \A t \in tests' : t.id \in 1..testRequestRef' /\ t.conn \in Conns
    <3> SUFFICES ASSUME NEW t \in tests
                 PROVE  t.id \in 1..testRequestRef' /\ t.conn \in Conns
      BY <2>1
    <3>1. t.id \in 1..testRequestRef /\ t.conn \in Conns
      OBVIOUS
    <3> QED BY <2>1, <2>2, <3>1
  <2>4. manual' \in [kind : {"none", "checking", "result"}, of : AnyConn]
    BY <1>0, <2>1
  <2> QED BY <1>1, <2>1, <2>2, <2>3, <2>4
<1>2. ASSUME NEW c \in AnyConn, updateDraftSettings(c)
      PROVE  ConnectionTypes'
  BY <1>1, <1>2 DEF updateDraftSettings
<1>3. CASE handleSubmitSettings
  BY <1>1, <1>3 DEF handleSubmitSettings
<1>4. CASE handleTestConnection
  <2> DEFINE new == [id |-> testRequestRef + 1, conn |-> draft]
  <2>1. /\ testRequestRef < MaxTests /\ testRequestRef' = testRequestRef + 1
        /\ tests' = tests \cup {new} /\ draft \in Conns
        /\ isTestingConnection' = TRUE /\ manual' = Checking
        /\ UNCHANGED <<settings, draft>>
    BY <1>4 DEF handleTestConnection, connection, AnyConn
  <2>2. new.id = testRequestRef' /\ new.conn \in Conns
    BY <2>1
  <2> HIDE DEF new
  <2> QED BY <1>0, <2>1, <2>2 DEF Checking
<1>5. ASSUME NEW t \in tests, TestEnds(t)
      PROVE  ConnectionTypes'
  <2>1. tests' = tests \ {t} /\ UNCHANGED <<settings, draft, testRequestRef>>
    BY <1>5 DEF TestEnds, connection
  <2>2. \/ manual' = [kind |-> "result", of |-> t.conn] /\ isTestingConnection' = FALSE
        \/ UNCHANGED <<manual, isTestingConnection>>
    BY <1>5 DEF TestEnds
  <2>3. t.conn \in AnyConn
    BY DEF AnyConn
  <2>4. manual' \in [kind : {"none", "checking", "result"}, of : AnyConn]
    <3>1. manual' = [kind |-> "result", of |-> t.conn] \/ manual' = manual
      BY <2>2
    <3> QED BY <2>3, <3>1
  <2>5. isTestingConnection' \in BOOLEAN
    <3>1. isTestingConnection' = FALSE \/ isTestingConnection' = isTestingConnection
      BY <2>2
    <3> QED BY <3>1
  <2> QED BY <2>1, <2>4, <2>5
<1>6. CASE UNCHANGED <<connection, testing>>
  BY <1>6 DEF connection, testing
<1>7. SettingsNext => \/ \E c \in AnyConn : updateDraftSettings(c)
                      \/ handleSubmitSettings \/ handleTestConnection
                      \/ \E t \in tests : TestEnds(t)
                      \/ UNCHANGED <<connection, testing>>
  BY DEF SettingsNext, setStorageLimitGiB, handleSaveStorageLimit, ServerSavesLimit,
         QuotaSucceeds, QuotaFails, ServerReports, StatsArrive, StatsFail,
         OtherClientSavesLimit
<1> QED BY <1>2, <1>3, <1>4, <1>5, <1>6, <1>7 DEF settingsVars

LEMMA StorageStep ==
    ASSUME ConnectionTypes, StorageTypes, [SettingsNext]_settingsVars
    PROVE  StorageTypes'
<1> USE DEF StorageTypes
<1>0. settings \in AnyConn /\ draft \in AnyConn
  BY DEF ConnectionTypes
<1>1. CASE handleSubmitSettings
  <2>1. UNCHANGED <<limit, stats, quota>>
    BY <1>1 DEF handleSubmitSettings
  <2>2. CASE draft = settings
    <3>1. UNCHANGED <<statsFetch, storageLimitGiB, touched>>
      BY <1>1, <2>2 DEF handleSubmitSettings
    <3> QED BY <2>1, <3>1
  <2>3. CASE draft # settings
    <3>1. ObserveStats(draft)
      BY <1>1, <2>3 DEF handleSubmitSettings
    <3>2. statsFetch' \in [Conns -> StatsFetches]
      BY <1>0, <3>1, NoneTypes DEF ObserveStats, AnyConn
    <3>3. storageLimitGiB' \in Nat /\ touched' \in BOOLEAN
      BY <1>0, <3>1, NoneTypes DEF ObserveStats, StatsEffect, AnyConn
    <3> QED BY <2>1, <3>2, <3>3
  <2> QED BY <2>2, <2>3
<1>2. ASSUME NEW v \in Limits \cup {0}, setStorageLimitGiB(v)
      PROVE  StorageTypes'
  <2>1. v \in Nat
    BY SettingsAssumption
  <2> QED BY <1>2, <2>1 DEF setStorageLimitGiB
<1>3. CASE handleSaveStorageLimit
  <2>1. quota' = [phase |-> "sent", conn |-> settings, to |-> storageLimitGiB]
        /\ settings \in Conns
        /\ UNCHANGED <<limit, stats, statsFetch, storageLimitGiB, touched>>
    BY <1>0, <1>3 DEF handleSaveStorageLimit, AnyConn
  <2> QED BY <1>0, <2>1 DEF LimitSaves
<1>4. CASE ServerSavesLimit
  <2>1. /\ quota.phase = "sent" /\ limit' = [limit EXCEPT ![quota.conn] = quota.to]
        /\ quota' = [quota EXCEPT !.phase = "applied"]
        /\ UNCHANGED <<stats, statsFetch, storageLimitGiB, touched>>
    BY <1>4 DEF ServerSavesLimit
  <2>2. quota' \in LimitSaves /\ quota'.conn = quota.conn /\ quota.to \in Nat
    BY <2>1 DEF LimitSaves
  <2> QED BY <2>1, <2>2
<1>5. CASE QuotaSucceeds
  <2>1. /\ storageLimitGiB' = bytesToGiBString(quota.to) /\ touched' = FALSE
        /\ UNCHANGED <<limit, stats>>
    BY <1>5 DEF QuotaSucceeds
  <2>2. quota.to \in Nat
    BY DEF LimitSaves
  <2>3. CASE settings = NoConn
    <3>1. quota' = NoQuota /\ statsFetch' = statsFetch
      BY <1>5, <2>3 DEF QuotaSucceeds
    <3> QED BY <2>1, <2>2, <3>1, NoneTypes
  <2>4. CASE settings # NoConn
    <3>1. /\ quota' = [quota EXCEPT !.phase = "awaiting", !.conn = settings]
          /\ statsFetch' = IF stats[settings] # 0 \/ statsFetch[settings].phase = "idle"
                           THEN [statsFetch EXCEPT ![settings] = StatsSent] ELSE statsFetch
      BY <1>5, <2>4 DEF QuotaSucceeds
    <3>2. quota' \in LimitSaves /\ quota'.conn \in Conns
      BY <1>0, <2>4, <3>1 DEF LimitSaves, AnyConn
    <3>3. statsFetch' \in [Conns -> StatsFetches]
      BY <3>1, NoneTypes
    <3> QED BY <2>1, <2>2, <3>2, <3>3, NoneTypes
  <2> QED BY <2>3, <2>4
<1>6. CASE QuotaFails
  BY <1>6, NoneTypes DEF QuotaFails
<1>7. ASSUME NEW c \in Conns, ServerReports(c)
      PROVE  StorageTypes'
  <2>1. statsFetch' = [statsFetch EXCEPT ![c] = [phase |-> "answered", answer |-> limit[c]]]
        /\ UNCHANGED <<limit, stats, quota, storageLimitGiB, touched>>
    BY <1>7 DEF ServerReports
  <2>2. [phase |-> "answered", answer |-> limit[c]] \in StatsFetches
    BY DEF StatsFetches
  <2> QED BY <2>1, <2>2
<1>8. ASSUME NEW c \in Conns, Released(c)
      PROVE  quota' \in LimitSaves /\ (quota'.phase # "idle" => quota'.conn \in Conns)
  BY <1>8, NoneTypes DEF Released
<1>9. ASSUME NEW c \in Conns, StatsArrive(c)
      PROVE  StorageTypes'
  <2>1. /\ stats' = [stats EXCEPT ![c] = statsFetch[c].answer]
        /\ statsFetch' = [statsFetch EXCEPT ![c] = NoStatsFetch]
        /\ limit' = limit /\ Released(c)
    BY <1>9 DEF StatsArrive
  <2>2. statsFetch[c].answer \in Nat
    BY DEF StatsFetches
  <2>3. PICK changed \in BOOLEAN : StatsEffect(changed, statsFetch[c].answer)
    BY <1>9 DEF StatsArrive
  <2>4. storageLimitGiB' \in Nat /\ touched' \in BOOLEAN
    BY <2>2, <2>3, NoneTypes DEF StatsEffect
  <2> QED BY <1>8, <2>1, <2>2, <2>4, NoneTypes
<1>10. ASSUME NEW c \in Conns, StatsFail(c)
       PROVE  StorageTypes'
  BY <1>8, <1>10, NoneTypes DEF StatsFail
<1>11. CASE UNCHANGED storage
  BY <1>11 DEF storage
<1>12. ASSUME \/ \E c \in AnyConn : updateDraftSettings(c)
              \/ handleTestConnection \/ \E t \in tests : TestEnds(t)
              \/ UNCHANGED settingsVars
       PROVE  UNCHANGED storage
  BY <1>12 DEF updateDraftSettings, handleTestConnection, TestEnds, settingsVars
<1>13. ASSUME NEW c \in Conns, NEW v \in Limits, OtherClientSavesLimit(c, v)
       PROVE  StorageTypes'
  <2>1. v \in Nat
    BY SettingsAssumption
  <2> QED BY <1>13, <2>1 DEF OtherClientSavesLimit
<1> QED BY <1>1, <1>2, <1>3, <1>4, <1>5, <1>6, <1>7, <1>9, <1>10, <1>11, <1>12,
            <1>13
        DEF SettingsNext

\* For any connections, limits, answers and requests, limits that the field can
\* only show rounded, connections saved meanwhile and limits changed by other
\* clients included, every variable of the settings page has its type, and the
\* latest test is at most one.
THEOREM SettingsTyped == SettingsSpec => []SettingsTypeOK
<1>1. SettingsInit => SettingsTypes
  <2> SUFFICES ASSUME SettingsInit PROVE SettingsTypes
    OBVIOUS
  <2>1. ConnectionTypes
    <3>1. /\ settings \in AnyConn /\ draft = settings /\ testRequestRef = 0 /\ tests = {}
          /\ isTestingConnection = FALSE
      BY DEF SettingsInit
    <3>2. manual \in [kind : {"none", "checking", "result"}, of : AnyConn]
      BY DEF SettingsInit, NoStates, AnyConn
    <3>3. 0 \in 0..MaxTests
      BY SettingsAssumption
    <3> QED BY <3>1, <3>2, <3>3 DEF ConnectionTypes
  <2>2. limit \in [Conns -> Nat] /\ stats \in [Conns -> Nat]
    BY SettingsAssumption DEF SettingsInit
  <2>3. statsFetch \in [Conns -> StatsFetches]
    BY NoneTypes DEF SettingsInit
  <2> QED BY <2>1, <2>2, <2>3, NoneTypes DEF SettingsInit, SettingsTypes, StorageTypes
<1>2. SettingsTypes /\ [SettingsNext]_settingsVars => SettingsTypes'
  BY ConnectionStep, StorageStep DEF SettingsTypes
<1>3. SettingsTypes /\ TestsInv => SettingsTypeOK
  BY DEF SettingsTypes, ConnectionTypes, StorageTypes, TestsInv, SettingsTypeOK,
         StatsFetches, LimitSaves
<1> QED BY <1>1, <1>2, <1>3, TestsInvariant, PTL DEF SettingsSpec

-----------------------------------------------------------------------------
(* The storage limit                                                       *)

\* The limits that the field can show: tenths of a GiB.
Shown == {l \in Nat : bytesToGiBString(l) = l}
LimitFetches == [phase : {"idle", "sent", "answered"}, answer : Shown]
Quotas == [phase : {"idle", "sent", "applied", "awaiting"}, conn : AnyConn, to : Shown]

LimitTypes ==
    /\ settings \in AnyConn /\ draft \in AnyConn
    /\ limit \in [Conns -> Shown \ {0}] /\ stats \in [Conns -> Shown]
    /\ statsFetch \in [Conns -> LimitFetches]
    /\ \A c \in Conns : statsFetch[c].phase = "answered" => statsFetch[c].answer # 0
    /\ quota \in Quotas
    /\ storageLimitGiB \in Shown /\ touched \in BOOLEAN

\* While a limit is being saved, the connection it goes to stays the saved one.
QuotaHere ==
    quota.phase # "idle" =>
        /\ quota.conn = settings /\ settings \in Conns
        /\ stats[settings] # 0 /\ quota.to # 0
        /\ quota.phase = "applied" => limit[settings] = quota.to

\* A field that the user left alone shows what the statistics said last, or
\* what the server has, and then that is also what is being saved.
FieldFollows ==
    settings # NoConn /\ ~touched /\ stats[settings] # 0 =>
        \/ storageLimitGiB = stats[settings]
        \/ /\ storageLimitGiB = limit[settings]
           /\ quota.phase = "sent" => storageLimitGiB = quota.to

LimitInv == LimitTypes /\ QuotaHere /\ FieldFollows

\* The whole step of the settings, with the statistics in it.
LEMMA LimitStep ==
    ASSUME LimitInv, ~OthersSave, ~Switches, \A l \in Limits : l \in Shown, [SettingsNext]_settingsVars
    PROVE  LimitInv'
<1> USE DEF LimitInv, LimitTypes, QuotaHere, FieldFollows
<1>0. 0 \in Shown /\ NoConn \notin Conns /\ NoStatsFetch \in LimitFetches
      /\ StatsSent \in LimitFetches /\ NoQuota \in Quotas
  BY SettingsAssumption
     DEF Shown, bytesToGiBString, NoStatsFetch, StatsSent, LimitFetches, NoQuota, Quotas, AnyConn
<1>1. ASSUME NEW c \in AnyConn, updateDraftSettings(c)
      PROVE  LimitInv'
  BY <1>1 DEF updateDraftSettings, storage
<1>2. CASE handleSubmitSettings
  <2>1. settings' = draft /\ UNCHANGED <<draft, limit, stats, quota>>
    BY <1>2 DEF handleSubmitSettings
  <2>2. CASE draft = settings
    <3>1. UNCHANGED <<statsFetch, storageLimitGiB, touched>>
      BY <1>2, <2>2 DEF handleSubmitSettings
    <3> QED BY <2>1, <2>2, <3>1
  <2>3. CASE draft # settings
    <3>1. quota.phase = "idle" /\ ObserveStats(draft)
      BY <1>2, <2>3 DEF handleSubmitSettings
    <3>2. statsFetch' \in [Conns -> LimitFetches]
          /\ \A c \in Conns : statsFetch'[c].phase = "answered" => statsFetch'[c].answer # 0
      BY <1>0, <3>1 DEF ObserveStats, AnyConn, StatsSent
    <3>3. CASE draft # NoConn /\ stats[draft] # 0
      <4>1. storageLimitGiB' = bytesToGiBString(stats[draft]) /\ touched' = FALSE
        BY <3>1, <3>3 DEF ObserveStats, StatsEffect
      <4>2. stats[draft] \in Shown
        BY <3>3 DEF AnyConn
      <4>3. storageLimitGiB' = stats[draft]
        BY <4>1, <4>2 DEF Shown
      <4> QED BY <2>1, <3>1, <3>2, <4>1, <4>2, <4>3
    <3>4. CASE ~(draft # NoConn /\ stats[draft] # 0)
      <4>1. UNCHANGED <<storageLimitGiB, touched>>
        BY <3>1, <3>4 DEF ObserveStats, StatsEffect
      <4> QED BY <2>1, <3>1, <3>2, <3>4, <4>1
    <3> QED BY <3>3, <3>4
  <2> QED BY <2>2, <2>3
<1>3. ASSUME NEW v \in Limits \cup {0}, setStorageLimitGiB(v)
      PROVE  LimitInv'
  BY <1>0, <1>3 DEF setStorageLimitGiB, connection
<1>4. CASE handleSaveStorageLimit
  BY <1>4 DEF handleSaveStorageLimit, connection, Quotas, AnyConn
<1>5. CASE ServerSavesLimit
  <2>1. /\ quota.phase = "sent" /\ quota.conn \in Conns
        /\ limit' = [limit EXCEPT ![quota.conn] = quota.to]
        /\ quota' = [quota EXCEPT !.phase = "applied"]
        /\ UNCHANGED <<settings, draft, stats, statsFetch, storageLimitGiB, touched>>
    BY <1>5 DEF ServerSavesLimit, connection
  <2>2. quota.to \in Shown \ {0} /\ quota' \in Quotas
    BY <2>1 DEF Quotas
  <2> QED BY <2>1, <2>2 DEF Quotas
<1>6. CASE QuotaSucceeds
  <2>1. /\ quota.phase = "applied" /\ settings \in Conns /\ settings # NoConn
        /\ UNCHANGED <<settings, draft, limit, stats>>
    BY <1>0, <1>6 DEF QuotaSucceeds, connection
  <2>2. /\ storageLimitGiB' = bytesToGiBString(quota.to) /\ touched' = FALSE
        /\ quota' = [quota EXCEPT !.phase = "awaiting", !.conn = settings]
        /\ statsFetch' = [statsFetch EXCEPT ![settings] = StatsSent]
    BY <1>6, <2>1 DEF QuotaSucceeds
  <2>3. storageLimitGiB' = quota.to /\ quota.to \in Shown
    BY <2>2 DEF Shown, Quotas
  <2>4. quota' \in Quotas /\ quota'.phase = "awaiting" /\ quota'.conn = settings
        /\ quota'.to = quota.to
    BY <2>2 DEF Quotas
  <2> QED BY <1>0, <2>1, <2>2, <2>3, <2>4 DEF StatsSent
<1>7. CASE QuotaFails
  BY <1>0, <1>7 DEF QuotaFails, connection, NoQuota
<1>8. ASSUME NEW c \in Conns, ServerReports(c)
      PROVE  LimitInv'
  <2>1. statsFetch' = [statsFetch EXCEPT ![c] = [phase |-> "answered", answer |-> limit[c]]]
        /\ UNCHANGED <<settings, draft, limit, stats, quota, storageLimitGiB, touched>>
    BY <1>8 DEF ServerReports, connection
  <2>2. [phase |-> "answered", answer |-> limit[c]] \in LimitFetches /\ limit[c] # 0
    BY DEF LimitFetches
  <2> QED BY <2>1, <2>2
<1>9. ASSUME NEW c \in Conns, quota' = (IF quota.phase = "awaiting" /\ quota.conn = c
                                        THEN NoQuota ELSE quota)
      PROVE  quota' \in Quotas /\ (quota' = quota \/ quota'.phase = "idle")
  BY <1>0, <1>9 DEF NoQuota
<1>10. ASSUME NEW c \in Conns, StatsArrive(c)
       PROVE  LimitInv'
  <2>1. /\ statsFetch[c].phase = "answered"
        /\ stats' = [stats EXCEPT ![c] = statsFetch[c].answer]
        /\ statsFetch' = [statsFetch EXCEPT ![c] = NoStatsFetch]
        /\ UNCHANGED <<settings, draft, limit>>
    BY <1>10 DEF StatsArrive, connection
  <2>2. statsFetch[c].answer \in Shown \ {0}
    BY <2>1 DEF LimitFetches
  <2>3. quota' \in Quotas /\ (quota' = quota \/ quota'.phase = "idle")
    BY <1>9, <1>10 DEF StatsArrive, Released
  <2> PICK changed \in {TRUE, stats[c] # statsFetch[c].answer} :
               StatsEffect(c = settings /\ changed, statsFetch[c].answer)
    BY <1>10 DEF StatsArrive
  <2>4. CASE c = settings /\ changed
    <3>1. storageLimitGiB' = bytesToGiBString(statsFetch[c].answer) /\ touched' = FALSE
      BY <2>2, <2>4 DEF StatsEffect
    <3>2. storageLimitGiB' = statsFetch[c].answer
      BY <2>2, <3>1 DEF Shown
    <3> QED BY <1>0, <2>1, <2>2, <2>3, <2>4, <3>1, <3>2 DEF NoStatsFetch
  <2>5. CASE ~(c = settings /\ changed)
    <3>1. UNCHANGED <<storageLimitGiB, touched>>
      BY <2>5 DEF StatsEffect
    <3>2. c = settings => stats[c] = statsFetch[c].answer
      BY <2>5
    <3> QED BY <1>0, <2>1, <2>2, <2>3, <3>1, <3>2 DEF NoStatsFetch
  <2> QED BY <2>4, <2>5
<1>11. ASSUME NEW c \in Conns, StatsFail(c)
       PROVE  LimitInv'
  <2>1. /\ statsFetch' = [statsFetch EXCEPT ![c] = NoStatsFetch]
        /\ UNCHANGED <<settings, draft, limit, stats, storageLimitGiB, touched>>
    BY <1>11 DEF StatsFail, connection
  <2>2. quota' \in Quotas /\ (quota' = quota \/ quota'.phase = "idle")
    BY <1>9, <1>11 DEF StatsFail, Released
  <2> QED BY <1>0, <2>1, <2>2 DEF NoStatsFetch
<1>12. CASE UNCHANGED <<connection, storage>>
  BY <1>12 DEF connection, storage
<1>13. handleTestConnection \/ (\E t \in tests : TestEnds(t)) \/ UNCHANGED settingsVars
           => UNCHANGED <<connection, storage>>
  BY DEF handleTestConnection, TestEnds, settingsVars
<1> QED
  BY <1>1, <1>2, <1>3, <1>4, <1>5, <1>6, <1>7, <1>8, <1>10, <1>11, <1>12, <1>13
     DEF SettingsNext, OtherClientSavesLimit

\* At rest, a limit field that the user did not touch holds the limit of the
\* connected server (storageQuotaMutation, the effect on storageStats): if every
\* limit is one the field can show, no other client changes a limit, and no other
\* connection is saved while a limit is being saved.  Without the last, onSuccess
\* of the latest render would put the limit of one server into the field of
\* another.
THEOREM LimitAlwaysShown ==
    SettingsSpec /\ ~OthersSave /\ ~Switches /\ (\A l \in Limits : bytesToGiBString(l) = l)
        => []LimitShown
<1> SUFFICES ASSUME ~OthersSave, ~Switches, \A l \in Limits : bytesToGiBString(l) = l
             PROVE  SettingsSpec => []LimitShown
  OBVIOUS
<1>1. \A l \in Limits : l \in Shown /\ l # 0
  BY SettingsAssumption DEF Shown
<1>2. SettingsInit => LimitInv
  <2> SUFFICES ASSUME SettingsInit PROVE LimitInv
    OBVIOUS
  <2>1. 0 \in Shown /\ NoConn \in AnyConn
    BY DEF Shown, bytesToGiBString, AnyConn
  <2>2. NoStatsFetch \in LimitFetches /\ StatsSent \in LimitFetches /\ NoQuota \in Quotas
    BY <2>1 DEF NoStatsFetch, StatsSent, LimitFetches, NoQuota, Quotas
  <2>3. statsFetch \in [Conns -> LimitFetches]
        /\ \A c \in Conns : statsFetch[c].phase # "answered"
    BY <2>2 DEF SettingsInit, NoStatsFetch, StatsSent
  <2>4. limit \in [Conns -> Shown \ {0}] /\ stats \in [Conns -> Shown]
        /\ \A c \in Conns : stats[c] = 0
    BY <1>1, <2>1 DEF SettingsInit
  <2>5. LimitTypes
    BY <2>1, <2>2, <2>3, <2>4 DEF SettingsInit, LimitTypes
  <2>6. QuotaHere /\ FieldFollows
    BY <2>4 DEF SettingsInit, QuotaHere, FieldFollows, NoQuota, AnyConn
  <2> QED BY <2>5, <2>6 DEF LimitInv
<1>3. LimitInv /\ [SettingsNext]_settingsVars => LimitInv'
  BY <1>1, LimitStep
<1>4. LimitInv => LimitShown
  <2> SUFFICES ASSUME LimitInv, settings # NoConn, ~touched,
                      stats[settings] = limit[settings]
               PROVE  storageLimitGiB = limit[settings]
    BY DEF LimitShown
  <2>1. settings \in Conns /\ limit[settings] # 0
    BY DEF LimitInv, LimitTypes, AnyConn
  <2> QED BY <2>1 DEF LimitInv, FieldFollows
<1> QED BY <1>2, <1>3, <1>4, PTL DEF SettingsSpec

-----------------------------------------------------------------------------
(* Sites                                                                   *)

AnySite == SiteValues \cup {NoSite}
AnyDialog == SiteIds \cup {NoDialog, Create, Upload}
RequestPhases == {"idle", "sent", "applied", "awaiting"}
SiteLists == [known : BOOLEAN, data : [SiteIds -> AnySite]]
SiteFetches ==
    [phase : {"idle", "sent", "answered"}, answer : SiteLists, covers : SUBSET SiteIds]
BucketLists == [known : BOOLEAN, data : SUBSET Buckets]
BucketFetches == [phase : {"idle", "sent", "answered"}, answer : BucketLists]
Requests ==
    [phase : RequestPhases, id : SiteIds \cup {NoId}, value : Drafts, from : AnyDialog]

\* The server and the two lists.
ListsInv ==
    /\ bucket \subseteq Buckets /\ site \in [SiteIds -> AnySite]
    /\ sites \in SiteLists /\ sitesFetch \in SiteFetches
    /\ bucketList \in BucketLists /\ bucketsFetch \in BucketFetches
    /\ unlisted \subseteq SiteIds
    /\ sitesFetch.phase = "answered" => sitesFetch.answer.known
    /\ Cached => sites.known

\* A request sends a whole site, and remembers a form of its own kind.
RequestsInv ==
    /\ mut \in [Kinds -> Requests] /\ del \in [SiteIds -> RequestPhases]
    /\ \A k \in Kinds : mut[k].phase # "idle" => mut[k].value \in SiteValues
    /\ \A k \in Kinds : mut[k].from # NoDialog => KindOf(mut[k].from) = k
    /\ uploadProgress \in {0, 1}
    /\ uploadProgress > 0 => mut[Upload].phase \in {"sent", "applied"}

\* The form on the screen.
FormInv ==
    /\ dialog \in AnyDialog
    /\ form \in Drafts /\ base \in Drafts /\ dirty \in BOOLEAN
    /\ dialog \in SiteIds => sites.data[dialog] # NoSite
    /\ BasedOnListing /\ BucketOffered

SitesInv == ListsInv /\ RequestsInv /\ FormInv

\* The dialogs are not ids of sites.
LEMMA DialogNames ==
    /\ NoDialog \notin SiteIds /\ Create \notin SiteIds /\ Upload \notin SiteIds
    /\ NoDialog # Create /\ NoDialog # Upload /\ Create # Upload
    /\ Kinds = {Create, "update", Upload} /\ NoDialog \notin Kinds
    /\ Create # "update" /\ Upload # "update"
  BY SitesAssumption DEF NoDialog, Create, Upload, Kinds

LEMMA NoSiteIsNoSite ==
    /\ NoSite \notin SiteValues /\ NoSite \in Drafts /\ SiteValues \subseteq Drafts
    /\ AnySite \subseteq Drafts
<1>1. NoBucket \notin Buckets
  BY DEF NoBucket, Buckets
<1> QED BY <1>1 DEF NoSite, SiteValues, Drafts, AnySite

\* A list of buckets that is not empty has a newest one.
LEMMA NewestBucket ==
    ASSUME NEW S \in SUBSET Buckets, S # {}
    PROVE  Max(S) \in S
<1>0. MaxBucket \in Nat
  BY SitesAssumption
<1> DEFINE T == {MaxBucket - b : b \in S}
<1>1. \A b \in S : b \in 1..MaxBucket
  BY DEF Buckets
<1>2. T \subseteq Nat
  BY <1>0, <1>1
<1>3. PICK m \in T : \A n \in T : m <= n
  BY <1>2, LeastElement
<1>4. PICK b \in S : m = MaxBucket - b
  OBVIOUS
<1>5. \A c \in S : b >= c
  <2> SUFFICES ASSUME NEW c \in S PROVE b >= c
    OBVIOUS
  <2>1. m <= MaxBucket - c
    BY <1>3
  <2> QED BY <1>0, <1>1, <1>4, <2>1
<1> QED BY <1>5 DEF Max

\* What a form is filled with.
LEMMA FilledTypes ==
    ASSUME NEW d \in AnyDialog, NEW s \in SiteLists, NEW b \in BucketLists
    PROVE  /\ initialDialogValue(d, s, b) \in Drafts
           /\ d = Upload /\ b.data # {} => initialDialogValue(d, s, b).bucket \in b.data
<1>1. CASE d \in SiteIds
  <2>1. s.data[d] \in AnySite
    BY <1>1 DEF SiteLists
  <2> QED BY <1>1, <2>1, NoSiteIsNoSite, DialogNames DEF initialDialogValue
<1>2. CASE d \notin SiteIds
  <2>1. initialDialogValue(d, s, b) = [bucket |-> defaultBucketName(b), rest |-> NoRest]
    BY <1>2 DEF initialDialogValue
  <2>2. b.data \in SUBSET Buckets
    BY DEF BucketLists
  <2>3. CASE b.data = {}
    BY <2>1, <2>3 DEF defaultBucketName, Drafts
  <2>4. CASE b.data # {}
    <3>1. Max(b.data) \in b.data
      BY <2>2, <2>4, NewestBucket
    <3> QED BY <2>1, <2>2, <2>4, <3>1 DEF defaultBucketName, Drafts
  <2> QED BY <2>3, <2>4
<1> QED BY <1>1, <1>2

\* What a step may do to a draft, without what the user does (DraftKept).
DraftStep ==
    dirty /\ dialog # NoDialog /\ (dialog' # dialog \/ ~dirty') =>
        \/ /\ mut[KindOf(dialog)].from = dialog
           /\ mut[KindOf(dialog)].phase = "awaiting"
        \/ Watched(dialog, sites, bucketList) # Watched(dialog, sites', bucketList')
        \/ isLoading(sites', sitesFetch', bucketList', bucketsFetch')

\* Fields that are forgotten have their types.
LEMMA FormForgotten ==
    ASSUME dialog' = NoDialog, Forgotten
    PROVE  FormInv'
  BY NoSiteIsNoSite, DialogNames
     DEF FormInv, Forgotten, Filled, AnyDialog, BasedOnListing, BucketOffered

\* The page is rendered with other lists.
LEMMA FormRendered ==
    ASSUME FormInv, ListsInv, ListsInv', SitesRendered
    PROVE  FormInv' /\ DraftStep
<1> DEFINE closes == /\ dialog \in SiteIds
                     /\ \/ sites'.data[dialog] = NoSite
                        \/ isLoading(sites', sitesFetch', bucketList', bucketsFetch')
           changed == Watched(dialog, sites, bucketList) # Watched(dialog, sites', bucketList')
<1>1. dialog' = IF closes THEN NoDialog ELSE dialog
  BY DEF SitesRendered
<1>2. CASE dialog' = NoDialog
  <2>1. Forgotten
    BY <1>2 DEF SitesRendered
  <2>2. ASSUME dialog \in SiteIds, sites'.data[dialog] = NoSite
        PROVE  changed
    BY <2>2, DialogNames DEF FormInv, Watched, initialDialogValue
  <2>3. dialog # NoDialog => closes
    BY <1>1, <1>2
  <2> QED BY <1>2, <2>1, <2>2, <2>3, FormForgotten DEF DraftStep
<1>3. CASE dialog' # NoDialog /\ changed
  <2>1. dialog' = dialog /\ dialog \in AnyDialog
    BY <1>1, <1>3 DEF FormInv
  <2>2. Filled(initialDialogValue(dialog, sites', bucketList'))
    BY <1>3 DEF SitesRendered
  <2>3. sites' \in SiteLists /\ bucketList' \in BucketLists
    BY DEF ListsInv
  <2> DEFINE value == initialDialogValue(dialog, sites', bucketList')
  <2>4. /\ value \in Drafts
        /\ dialog = Upload /\ bucketList'.data # {} => value.bucket \in bucketList'.data
    BY <2>1, <2>3, FilledTypes
  <2>5. dialog \in SiteIds => value = sites'.data[dialog] /\ sites'.data[dialog] # NoSite
    BY <1>1, <1>3 DEF initialDialogValue
  <2>6. form' = value /\ base' = value /\ dirty' = FALSE
    BY <2>2 DEF Filled
  <2> HIDE DEF value
  <2>7. BasedOnListing' /\ BucketOffered'
    BY <2>1, <2>4, <2>5, <2>6 DEF BasedOnListing, BucketOffered
  <2>8. FormInv'
    BY <2>1, <2>4, <2>5, <2>6, <2>7 DEF FormInv
  <2> QED BY <1>3, <2>8 DEF DraftStep
<1>4. CASE dialog' # NoDialog /\ ~changed
  <2>1. dialog' = dialog /\ ~closes
    BY <1>1, <1>4
  <2>2. UNCHANGED fields
    BY <1>4 DEF SitesRendered
  <2>3. form' = form /\ base' = base /\ dirty' = dirty
    BY <2>2 DEF fields
  <2>4. dialog \in SiteIds => sites'.data[dialog] = sites.data[dialog]
    BY <1>4, DialogNames DEF Watched, initialDialogValue
  <2>5. dialog = Upload => bucketList'.data = bucketList.data
    BY <1>4 DEF Watched
  <2> QED BY <2>1, <2>3, <2>4, <2>5 DEF FormInv, BasedOnListing, BucketOffered, DraftStep
<1> QED BY <1>2, <1>3, <1>4

\* Requests that are over close their own form only.
LEMMA FormClosed ==
    ASSUME FormInv, RequestsInv, NEW ks \in SUBSET Awaiting, Closed(ks),
           UNCHANGED <<sites, bucketList>>
    PROVE  FormInv' /\ DraftStep
<1>1. CASE Closes(ks)
  <2>1. PICK k \in ks : dialog # NoDialog /\ mut[k].from = dialog
    BY <1>1 DEF Closes
  <2>2. k \in Kinds /\ mut[k].phase = "awaiting"
    BY DEF Awaiting
  <2>3. KindOf(dialog) = k
    BY <2>1, <2>2 DEF RequestsInv
  <2>4. dialog' = NoDialog /\ Forgotten
    BY <1>1 DEF Closed
  <2> QED BY <2>1, <2>2, <2>3, <2>4, FormForgotten DEF DraftStep
<1>2. CASE ~Closes(ks)
  <2>1. dialog' = dialog /\ form' = form /\ base' = base /\ dirty' = dirty
    BY <1>2 DEF Closed, fields
  <2> QED BY <2>1 DEF FormInv, BasedOnListing, BucketOffered, DraftStep
<1> QED BY <1>1, <1>2

\* A step that leaves lists and form alone.
LEMMA FormKept ==
    ASSUME FormInv, UNCHANGED <<sites, bucketList, dialog, form, base, dirty>>
    PROVE  FormInv' /\ DraftStep
  BY DEF FormInv, BasedOnListing, BucketOffered, DraftStep

LEMMA ListsKept ==
    ASSUME ListsInv,
           UNCHANGED <<bucket, site, sites, sitesFetch, bucketList, bucketsFetch, unlisted>>
    PROVE  ListsInv'
  BY DEF ListsInv

LEMMA RequestsKept ==
    ASSUME RequestsInv, UNCHANGED <<mut, del, uploadProgress>>
    PROVE  RequestsInv'
  BY DEF RequestsInv

\* The user opens, edits, closes and submits a form.
LEMMA FormStep ==
    ASSUME SitesInv, FormNext
    PROVE  SitesInv' /\ (closeDialog \/ DraftStep)
<1> USE DEF SitesInv
<1>1. ASSUME NEW d \in Dialogs, openDialog(d)
      PROVE  SitesInv' /\ DraftStep
  <2>1. /\ UNCHANGED <<sitesServer, lists, mut, del, uploadProgress, unlisted>>
        /\ dialog = NoDialog /\ dialog' = d
        /\ d \in SiteIds => sites.data[d] # NoSite
        /\ Filled(initialDialogValue(d, sites, bucketList))
    BY <1>1 DEF openDialog
  <2>2. ListsInv' /\ RequestsInv'
    BY <2>1, ListsKept, RequestsKept DEF sitesServer, lists
  <2>3. d \in AnyDialog /\ sites \in SiteLists /\ bucketList \in BucketLists
    BY SitesAssumption DEF ListsInv, AnyDialog, Create, Upload
  <2> DEFINE value == initialDialogValue(d, sites, bucketList)
  <2>4. /\ value \in Drafts
        /\ d = Upload /\ bucketList.data # {} => value.bucket \in bucketList.data
    BY <2>3, FilledTypes
  <2>5. d \in SiteIds => value = sites.data[d]
    BY DEF initialDialogValue
  <2>6. form' = value /\ base' = value /\ dirty' = FALSE
        /\ sites' = sites /\ bucketList' = bucketList
    BY <2>1 DEF Filled, lists
  <2> HIDE DEF value
  <2>7. BasedOnListing' /\ BucketOffered'
    BY <2>1, <2>4, <2>5, <2>6 DEF BasedOnListing, BucketOffered
  <2>8. FormInv'
    BY <2>1, <2>3, <2>4, <2>6, <2>7 DEF FormInv
  <2> QED BY <2>1, <2>2, <2>8 DEF DraftStep
<1>2. CASE closeDialog
  <2>1. UNCHANGED <<sitesServer, lists, mut, del, uploadProgress, unlisted>>
        /\ dialog' = NoDialog /\ Forgotten
    BY <1>2 DEF closeDialog
  <2> QED BY <1>2, <2>1, FormForgotten, ListsKept, RequestsKept DEF sitesServer, lists
<1>3. ASSUME NEW value \in Drafts, setFormValue(value)
      PROVE  SitesInv' /\ DraftStep
  <2>1. /\ UNCHANGED <<sitesServer, lists, dialog, base, mut, del, uploadProgress, unlisted>>
        /\ value.bucket \in bucketList.data \cup {form.bucket}
        /\ form' = value /\ dirty' = TRUE
    BY <1>3 DEF setFormValue
  <2>2. ListsInv' /\ RequestsInv'
    BY <2>1, ListsKept, RequestsKept DEF sitesServer, lists
  <2>3. sites' = sites /\ bucketList' = bucketList
    BY <2>1 DEF lists
  <2>4. FormInv'
    BY <2>1, <2>3 DEF FormInv, BasedOnListing, BucketOffered
  <2> QED BY <2>1, <2>2, <2>4 DEF DraftStep
<1>4. CASE handleSubmitSite
  <2> DEFINE k == KindOf(dialog)
             new == [phase |-> "sent", id |-> IF dialog \in SiteIds THEN dialog ELSE NoId,
                     value |-> form, from |-> dialog]
  <2>1. /\ dialog # NoDialog /\ canSubmit /\ mut[k].phase = "idle"
        /\ mut' = [mut EXCEPT ![k] = new]
        /\ UNCHANGED <<sitesServer, lists, dialog, fields, del, uploadProgress, unlisted>>
    BY <1>4 DEF handleSubmitSite, pending
  <2>2. ListsInv' /\ FormInv' /\ DraftStep
    BY <2>1, ListsKept, FormKept DEF sitesServer, lists, fields
  <2>3. form \in SiteValues
    BY <2>1 DEF FormInv, canSubmit, Drafts, SiteValues
  <2>4. new \in Requests /\ k \in Kinds
    BY <2>1, DialogNames DEF FormInv, AnyDialog, Requests, RequestPhases, KindOf, NoId
  <2>5. new.phase = "sent" /\ new.value \in SiteValues /\ KindOf(new.from) = k
    BY <2>3
  <2> HIDE DEF new
  <2>6. RequestsInv'
    BY <2>1, <2>4, <2>5 DEF RequestsInv
  <2> QED BY <2>2, <2>6
<1> QED BY <1>1, <1>2, <1>3, <1>4 DEF FormNext

\* Requests start, are served and fail.
LEMMA RequestStep ==
    ASSUME SitesInv,
           \/ UploadProgresses
           \/ \E k \in Kinds : (\E i \in SiteIds : ServerApplies(k, i)) \/ SubmitFails(k)
           \/ \E i \in SiteIds : handleDeleteSite(i) \/ ServerDeletesSite(i)
                               \/ SiteDeletionFails(i)
    PROVE  SitesInv' /\ DraftStep
<1> USE DEF SitesInv
<1>1. UNCHANGED <<sites, bucketList, dialog, form, base, dirty>>
  BY DEF UploadProgresses, ServerApplies, SubmitFails, handleDeleteSite, ServerDeletesSite,
         SiteDeletionFails, lists, fields
<1>2. FormInv' /\ DraftStep
  BY <1>1, FormKept
<1>3. ASSUME NEW i \in SiteIds, NEW value \in AnySite, Writes(i, value),
             UNCHANGED <<bucket, changes, sites, bucketList, bucketsFetch>>
      PROVE  ListsInv'
  BY <1>3 DEF Writes, ListsInv, SiteFetches
<1>4. CASE UploadProgresses
  <2>1. ListsInv'
    BY <1>4, ListsKept DEF UploadProgresses, sitesServer, lists
  <2>2. RequestsInv'
    BY <1>4 DEF UploadProgresses, RequestsInv
  <2> QED BY <1>2, <2>1, <2>2
<1>5. ASSUME NEW k \in Kinds, NEW i \in SiteIds, ServerApplies(k, i)
      PROVE  ListsInv' /\ RequestsInv'
  <2>1. /\ mut[k].phase = "sent" /\ Writes(i, mut[k].value)
        /\ mut' = [mut EXCEPT ![k].phase = "applied", ![k].id = i]
        /\ UNCHANGED <<bucket, changes, sites, bucketList, bucketsFetch, del, uploadProgress>>
    BY <1>5 DEF ServerApplies
  <2>2. ListsInv'
    BY <1>3, <2>1 DEF RequestsInv, AnySite
  <2>3. mut[k] \in Requests
    BY DEF RequestsInv
  <2>4. /\ mut'[k] \in Requests /\ mut'[k].phase = "applied"
        /\ mut'[k].value = mut[k].value /\ mut'[k].from = mut[k].from
        /\ \A j \in Kinds \ {k} : mut'[j] = mut[j]
        /\ mut' \in [Kinds -> Requests]
    BY <2>1, <2>3 DEF RequestsInv, Requests, RequestPhases
  <2>5. /\ \A j \in Kinds : mut'[j].phase # "idle" => mut'[j].value \in SiteValues
        /\ \A j \in Kinds : mut'[j].from # NoDialog => KindOf(mut'[j].from) = j
    BY <2>1, <2>4 DEF RequestsInv
  <2>6. del' = del /\ uploadProgress' = uploadProgress
        /\ (mut[Upload].phase \in {"sent", "applied"}
              => mut'[Upload].phase \in {"sent", "applied"})
    BY <2>1, <2>4, DialogNames
  <2> QED BY <2>2, <2>4, <2>5, <2>6 DEF RequestsInv
<1>6. ASSUME NEW k \in Kinds, SubmitFails(k)
      PROVE  ListsInv' /\ RequestsInv'
  <2>1. /\ mut' = [mut EXCEPT ![k] = Idle]
        /\ uploadProgress' = IF k = Upload THEN 0 ELSE uploadProgress
        /\ unlisted' = unlisted \ {mut[k].id}
        /\ UNCHANGED <<bucket, site, sites, sitesFetch, bucketList, bucketsFetch, del>>
    BY <1>6 DEF SubmitFails, sitesServer, lists
  <2>2. Idle \in Requests /\ Idle.phase = "idle" /\ Idle.from = NoDialog
    BY NoSiteIsNoSite DEF Idle, Requests, RequestPhases, AnyDialog
  <2> QED BY <2>1, <2>2 DEF ListsInv, RequestsInv
<1>7. ASSUME NEW i \in SiteIds, handleDeleteSite(i)
      PROVE  ListsInv' /\ RequestsInv'
  BY <1>7, ListsKept DEF handleDeleteSite, sitesServer, lists, RequestsInv, RequestPhases
<1>8. ASSUME NEW i \in SiteIds, ServerDeletesSite(i)
      PROVE  ListsInv' /\ RequestsInv'
  <2>1. ListsInv'
    BY <1>3, <1>8 DEF ServerDeletesSite, AnySite
  <2> QED BY <1>8, <2>1 DEF ServerDeletesSite, RequestsInv, RequestPhases
<1>9. ASSUME NEW i \in SiteIds, SiteDeletionFails(i)
      PROVE  ListsInv' /\ RequestsInv'
  BY <1>9 DEF SiteDeletionFails, sitesServer, lists, ListsInv, RequestsInv, RequestPhases
<1> QED BY <1>2, <1>4, <1>5, <1>6, <1>7, <1>8, <1>9

\* Requests go on, end, or stay as they are.
LEMMA RequestsSettle ==
    ASSUME RequestsInv,
           mut' \in [Kinds -> Requests], del' \in [SiteIds -> RequestPhases],
           \A k \in Kinds : \/ mut'[k] = Idle \/ mut'[k] = mut[k]
                            \/ /\ mut[k].phase = "applied"
                               /\ mut'[k] = [mut[k] EXCEPT !.phase = "awaiting"],
           uploadProgress' \in {0, uploadProgress},
           \/ uploadProgress' = 0 \/ mut'[Upload] = mut[Upload]
           \/ mut[Upload].phase = "awaiting"
    PROVE  RequestsInv'
<1>1. Idle.phase = "idle" /\ Idle.from = NoDialog
  BY DEF Idle
<1>2. ASSUME NEW k \in Kinds
      PROVE  /\ mut'[k].phase # "idle" => mut'[k].value \in SiteValues
             /\ mut'[k].from # NoDialog => KindOf(mut'[k].from) = k
  <2>1. mut[k] \in Requests
    BY DEF RequestsInv
  <2>2. \/ mut'[k].value = mut[k].value /\ mut'[k].from = mut[k].from
        \/ mut'[k] = Idle
    BY <2>1 DEF Requests
  <2>3. mut'[k] = Idle \/ (mut'[k].phase # "idle" => mut[k].phase # "idle")
    BY <2>1 DEF Requests
  <2> QED BY <1>1, <2>2, <2>3 DEF RequestsInv
<1>3. uploadProgress' > 0 => mut'[Upload].phase \in {"sent", "applied"}
  BY DEF RequestsInv
<1>4. uploadProgress' \in {0, 1}
  BY DEF RequestsInv
<1> QED BY <1>2, <1>3, <1>4 DEF RequestsInv

LEMMA NothingOfSites ==
    /\ Idle \in Requests /\ NoData \in SiteLists /\ NoBucketList \in BucketLists
    /\ SitesSent \in SiteFetches /\ NoSitesFetch \in SiteFetches
    /\ BucketsSent \in BucketFetches /\ NoBucketFetch \in BucketFetches
    /\ SitesSent.phase = "sent" /\ NoSitesFetch.phase = "idle"
<1>1. NoData \in SiteLists /\ NoBucketList \in BucketLists
  BY DEF NoData, SiteLists, AnySite, NoBucketList, BucketLists
<1>2. Idle \in Requests
  BY NoSiteIsNoSite DEF Idle, Requests, RequestPhases, AnyDialog
<1> QED
  BY <1>1, <1>2 DEF SitesSent, NoSitesFetch, SiteFetches, BucketsSent, NoBucketFetch,
                    BucketFetches

\* Requests that succeed invalidate the list, and end those that waited for it.
LEMMA SuccessStep ==
    ASSUME SitesInv,
           \/ \E k \in Kinds : SubmitSucceeds(k)
           \/ \E i \in SiteIds : SiteDeletionSucceeds(i)
    PROVE  SitesInv' /\ DraftStep
<1> DEFINE over == IF Joins THEN {} ELSE Awaiting
<1> USE DEF SitesInv
<1>1. /\ SitesInvalidated \in SiteFetches
      /\ SitesInvalidated.phase = "answered" => SitesInvalidated.answer.known
  BY NothingOfSites DEF SitesInvalidated, ListsInv
<1>2. over \in SUBSET Awaiting /\ over \subseteq Kinds
  BY DEF Awaiting
<1>3. ASSUME sitesFetch' = SitesInvalidated,
             UNCHANGED <<sitesServer, sites, bucketList, bucketsFetch, unlisted>>
      PROVE  ListsInv'
  BY <1>1, <1>3 DEF ListsInv, sitesServer
<1>4. ASSUME NEW k \in Kinds, SubmitSucceeds(k)
      PROVE  SitesInv' /\ DraftStep
  <2>1. /\ mut[k].phase = "applied"
        /\ uploadProgress' = IF k = Upload THEN 0 ELSE uploadProgress
        /\ sitesFetch' = SitesInvalidated
        /\ UNCHANGED <<sitesServer, sites, bucketList, bucketsFetch, unlisted>>
    BY <1>4 DEF SubmitSucceeds
  <2>2. /\ mut' = [j \in Kinds |-> IF j \in over THEN Idle
                                   ELSE IF j = k THEN [mut[j] EXCEPT !.phase = "awaiting"]
                                   ELSE mut[j]]
        /\ Closed(over)
    BY <1>4 DEF SubmitSucceeds
  <2>3. del' \in [SiteIds -> RequestPhases]
    BY <1>4 DEF SubmitSucceeds, RequestsInv, RequestPhases
  <2>4. \A j \in over : mut[j].phase = "awaiting"
    BY DEF Awaiting
  <2> HIDE DEF over
  <2>5. ASSUME NEW j \in Kinds
        PROVE  /\ mut'[j] \in Requests
               /\ \/ mut'[j] = Idle \/ mut'[j] = mut[j]
                  \/ /\ mut[j].phase = "applied"
                     /\ mut'[j] = [mut[j] EXCEPT !.phase = "awaiting"]
               /\ j # k => mut'[j] = mut[j] \/ mut[j].phase = "awaiting"
    <3>1. mut[j] \in Requests /\ [mut[j] EXCEPT !.phase = "awaiting"] \in Requests
      BY DEF RequestsInv, Requests, RequestPhases
    <3> QED BY <2>1, <2>2, <2>4, <3>1, NothingOfSites
  <2>6. mut' \in [Kinds -> Requests]
    BY <2>2, <2>5
  <2>7. uploadProgress' = 0 \/ mut'[Upload] = mut[Upload] \/ mut[Upload].phase = "awaiting"
    BY <2>1, <2>5, DialogNames
  <2>8. RequestsInv'
    BY <2>1, <2>3, <2>5, <2>6, <2>7, RequestsSettle
  <2> QED BY <1>2, <1>3, <2>1, <2>2, <2>8, FormClosed
<1>5. ASSUME NEW i \in SiteIds, SiteDeletionSucceeds(i)
      PROVE  SitesInv' /\ DraftStep
  <2>1. /\ sitesFetch' = SitesInvalidated
        /\ mut' = [k \in Kinds |-> IF k \in Awaiting /\ ~Joins THEN Idle ELSE mut[k]]
        /\ UNCHANGED <<sitesServer, sites, bucketList, bucketsFetch, uploadProgress, unlisted>>
    BY <1>5 DEF SiteDeletionSucceeds
  <2>2. FormInv' /\ DraftStep
    <3>1. CASE Joins
      BY <1>5, <2>1, <3>1, FormKept DEF SiteDeletionSucceeds, fields
    <3>2. CASE ~Joins
      <4>1. Closed(Awaiting) /\ UNCHANGED <<sites, bucketList>>
        BY <1>5, <2>1, <3>2 DEF SiteDeletionSucceeds
      <4> QED BY <4>1, FormClosed
    <3> QED BY <3>1, <3>2
  <2>3. del' \in [SiteIds -> RequestPhases]
    BY <1>5 DEF SiteDeletionSucceeds, RequestsInv, RequestPhases
  <2>4. \A k \in Awaiting : mut[k].phase = "awaiting"
    BY DEF Awaiting
  <2>5. mut' \in [Kinds -> Requests]
    BY <2>1, NothingOfSites DEF RequestsInv
  <2>6. ASSUME NEW k \in Kinds
        PROVE  mut'[k] = mut[k] \/ (mut'[k] = Idle /\ mut[k].phase = "awaiting")
    BY <2>1, <2>4
  <2>7. RequestsInv'
    BY <2>1, <2>3, <2>5, <2>6, DialogNames, RequestsSettle
  <2> QED BY <1>3, <2>1, <2>2, <2>7
<1> QED BY <1>4, <1>5

\* A list arrives, fails or is asked for: the page is rendered with it.
LEMMA ListStep ==
    ASSUME SitesInv, ListNext
    PROVE  SitesInv' /\ DraftStep
<1> USE DEF SitesInv
<1>1. CASE ServerListsSites \/ ServerListsBuckets
  <2>1. UNCHANGED <<site, bucket, sites, bucketList, dialog, form, base, dirty, mut, del,
                    uploadProgress, unlisted>>
    BY <1>1 DEF ServerListsSites, ServerListsBuckets, sitesServer, fields
  <2>2. RequestsInv' /\ FormInv' /\ DraftStep
    BY <2>1, RequestsKept, FormKept
  <2>3. /\ sitesFetch' \in SiteFetches
        /\ sitesFetch'.phase = "answered" => sitesFetch'.answer.known
    <3>1. CASE ServerListsSites
      <4>1. [known |-> TRUE, data |-> site] \in SiteLists /\ unlisted \in SUBSET SiteIds
        BY DEF ListsInv, SiteLists
      <4>2. sitesFetch' = [phase |-> "answered", covers |-> unlisted,
                           answer |-> [known |-> TRUE, data |-> site]]
        BY <3>1 DEF ServerListsSites
      <4> QED BY <4>1, <4>2 DEF SiteFetches
    <3>2. CASE ServerListsBuckets
      BY <3>2 DEF ServerListsBuckets, ListsInv
    <3> QED BY <1>1, <3>1, <3>2
  <2>4. bucketsFetch' \in BucketFetches
    <3>1. CASE ServerListsBuckets
      <4>1. [known |-> TRUE, data |-> bucket] \in BucketLists
        BY DEF ListsInv, BucketLists
      <4>2. bucketsFetch' = [phase |-> "answered",
                             answer |-> [known |-> TRUE, data |-> bucket]]
        BY <3>1 DEF ServerListsBuckets
      <4> QED BY <4>1, <4>2 DEF BucketFetches
    <3>2. CASE ServerListsSites
      BY <3>2 DEF ServerListsSites, ListsInv
    <3> QED BY <1>1, <3>1, <3>2
  <2> QED BY <2>1, <2>2, <2>3, <2>4 DEF ListsInv
<1>2. ASSUME NEW known \in SiteLists, SitesFetched(known), sites.known => known.known,
             unlisted' \subseteq unlisted
      PROVE  SitesInv' /\ DraftStep
  <2>1. /\ sites' = known /\ sitesFetch' = NoSitesFetch
        /\ UNCHANGED <<site, bucket, bucketList, bucketsFetch, uploadProgress>>
        /\ mut' = [k \in Kinds |-> IF k \in Awaiting THEN Idle ELSE mut[k]]
        /\ del' = [i \in SiteIds |-> IF del[i] = "awaiting" THEN "idle" ELSE del[i]]
    BY <1>2 DEF SitesFetched, sitesServer
  <2>2. ListsInv'
    BY <1>2, <2>1, NothingOfSites DEF ListsInv
  <2>3. /\ del' \in [SiteIds -> RequestPhases]
        /\ mut' \in [Kinds -> Requests]
    BY <2>1, NothingOfSites DEF RequestsInv, RequestPhases
  <2>4. ASSUME NEW k \in Kinds
        PROVE  mut'[k] = mut[k] \/ (mut'[k] = Idle /\ mut[k].phase = "awaiting")
    BY <2>1 DEF Awaiting
  <2>5. RequestsInv'
    BY <2>1, <2>3, <2>4, DialogNames, RequestsSettle
  <2>6. CASE Closes(Awaiting)
    <3>1. dialog' = NoDialog /\ Forgotten
      BY <1>2, <2>6 DEF SitesFetched
    <3>2. PICK k \in Awaiting : dialog # NoDialog /\ mut[k].from = dialog
      BY <2>6 DEF Closes
    <3>3. k \in Kinds /\ mut[k].phase = "awaiting" /\ KindOf(dialog) = k
      BY <3>2 DEF Awaiting, RequestsInv
    <3>4. DraftStep
      BY <3>2, <3>3 DEF DraftStep
    <3> QED BY <2>2, <2>5, <3>1, <3>4, FormForgotten
  <2>7. CASE ~Closes(Awaiting)
    BY <1>2, <2>2, <2>5, <2>7, FormRendered DEF SitesFetched
  <2> QED BY <2>6, <2>7
<1>3. CASE SitesArrive
  <2>1. /\ sitesFetch.answer \in SiteLists /\ sitesFetch.answer.known
        /\ unlisted' \subseteq unlisted
    BY <1>3 DEF SitesArrive, ListsInv, SiteFetches
  <2> QED BY <1>2, <1>3, <2>1 DEF SitesArrive
<1>4. CASE SitesFail
  BY <1>2, <1>4 DEF SitesFail, ListsInv
<1>5. CASE BucketsArrive \/ BucketsFail \/ Reconnect
  <2>1. /\ UNCHANGED <<site, bucket, sites, mut, del, uploadProgress, unlisted>>
        /\ sitesFetch' \in {sitesFetch, SitesSent}
        /\ SitesRendered
    BY <1>5 DEF BucketsArrive, BucketsFail, Reconnect, sitesServer
  <2>2. bucketList' \in BucketLists /\ bucketsFetch' \in BucketFetches
    BY <1>5, NothingOfSites DEF BucketsArrive, BucketsFail, Reconnect, ListsInv, BucketFetches
  <2>3. /\ sitesFetch' \in SiteFetches
        /\ sitesFetch'.phase = "answered" => sitesFetch'.answer.known
    BY <2>1, NothingOfSites DEF ListsInv
  <2>4. ListsInv'
    BY <2>1, <2>2, <2>3 DEF ListsInv
  <2> QED BY <2>1, <2>4, RequestsKept, FormRendered
<1> QED BY <1>1, <1>3, <1>4, <1>5 DEF ListNext

\* Other clients change what the server has.
LEMMA OthersStep ==
    ASSUME SitesInv, OtherSitesNext
    PROVE  SitesInv' /\ DraftStep
<1> USE DEF SitesInv
<1>1. UNCHANGED <<sites, sitesFetch, bucketList, bucketsFetch, dialog, form, base, dirty, mut,
                  del, uploadProgress, unlisted>>
  BY DEF OtherSitesNext, OtherSite, OtherBucket, lists, fields
<1>2. bucket' \subseteq Buckets
  BY DEF OtherSitesNext, OtherSite, OtherBucket, ListsInv
<1>3. site' \in [SiteIds -> AnySite]
  BY DEF OtherSitesNext, OtherSite, OtherBucket, ListsInv, AnySite
<1>4. ListsInv'
  BY <1>1, <1>2, <1>3 DEF ListsInv
<1> QED BY <1>1, <1>4, RequestsKept, FormKept

LEMMA SitesStep ==
    ASSUME SitesInv, SitesNext
    PROVE  SitesInv' /\ (closeDialog \/ DraftStep)
<1>1. CASE FormNext
  BY <1>1, FormStep
<1>2. CASE RequestNext
  BY <1>2, RequestStep, SuccessStep DEF RequestNext
<1>3. CASE ListNext
  BY <1>3, ListStep
<1>4. CASE OtherSitesNext
  BY <1>4, OthersStep
<1> QED BY <1>1, <1>2, <1>3, <1>4 DEF SitesNext

LEMMA SitesStarted ==
    ASSUME SitesInit
    PROVE  SitesInv
<1>1. ListsInv
  <2>1. bucket \subseteq Buckets /\ site \in [SiteIds -> AnySite]
    BY DEF SitesInit, AnySite
  <2>2. sites \in SiteLists /\ (Cached => sites.known)
    BY <2>1, NothingOfSites DEF SitesInit, SiteLists
  <2>3. bucketList \in BucketLists
    <3>1. [known |-> TRUE, data |-> bucket] \in BucketLists
      BY <2>1 DEF BucketLists
    <3>2. bucketList \in {NoBucketList, [known |-> TRUE, data |-> bucket]}
      BY DEF SitesInit
    <3> QED BY <3>1, <3>2, NothingOfSites
  <2> QED BY <2>1, <2>2, <2>3, NothingOfSites DEF SitesInit, ListsInv
<1>2. RequestsInv
  BY NothingOfSites, DialogNames DEF SitesInit, RequestsInv, Idle, RequestPhases
<1>3. FormInv
  BY NoSiteIsNoSite, DialogNames
     DEF SitesInit, FormInv, AnyDialog, BasedOnListing, BucketOffered
<1> QED BY <1>1, <1>2, <1>3 DEF SitesInv

\* The pages of SitesSpec keep the invariant.
THEOREM SitesInvariant == SitesSpec => []SitesInv
<1>1. SitesInit => SitesInv
  BY SitesStarted
<1>2. SitesInv /\ [SitesNext]_sitesVars => SitesInv'
  <2>1. ASSUME SitesInv, UNCHANGED sitesVars
        PROVE  SitesInv'
    BY <2>1, ListsKept, RequestsKept, FormKept
       DEF sitesVars, sitesServer, lists, fields, SitesInv
  <2> QED BY <2>1, SitesStep
<1> QED BY <1>1, <1>2, PTL DEF SitesSpec

\* An open edit form was filled from the site as the list has it, and an open
\* upload form names a bucket that the list has (the effects of the dialogs).
THEOREM SitesFormsCurrent == SitesSpec => [](SitesTypeOK /\ BasedOnListing /\ BucketOffered)
<1>1. SitesInv => SitesTypeOK
  BY DialogNames
     DEF SitesInv, ListsInv, RequestsInv, FormInv, SitesTypeOK, AnySite, AnyDialog, SiteLists,
         SiteFetches, BucketLists, BucketFetches, Requests, RequestPhases
<1>2. SitesInv => BasedOnListing /\ BucketOffered
  BY DEF SitesInv, FormInv
<1> QED BY <1>1, <1>2, SitesInvariant, PTL

\* What the user typed goes only with the user's close, with the success of a
\* request sent from that form, or with what the form was filled from.
THEOREM SitesDraftKept == SitesSpec => DraftKept
<1>1. SitesInv /\ [SitesNext]_sitesVars =>
        [dirty /\ dialog # NoDialog /\ (dialog' # dialog \/ ~dirty') =>
          \/ closeDialog
          \/ /\ mut[KindOf(dialog)].from = dialog
             /\ mut[KindOf(dialog)].phase = "awaiting"
          \/ Watched(dialog, sites, bucketList) # Watched(dialog, sites', bucketList')
          \/ isLoading(sites', sitesFetch', bucketList', bucketsFetch')]_sitesVars
  BY SitesStep DEF DraftStep
<1> QED BY <1>1, SitesInvariant, PTL DEF SitesSpec, DraftKept

-----------------------------------------------------------------------------
(* A site saved from here is in the list as soon as that was reported.     *)

\* A write of the server is answered for by the request that made it.
LEMMA ListedAfterWrite ==
    ASSUME SitesInv, OwnWritesListed, NEW i \in SiteIds, NEW value, Writes(i, value),
           \/ \E k \in Kinds : /\ mut[k].phase = "sent" /\ del' = del
                               /\ mut' = [mut EXCEPT ![k].phase = "applied", ![k].id = i]
           \/ del[i] = "sent" /\ del' = [del EXCEPT ![i] = "applied"] /\ mut' = mut
    PROVE  OwnWritesListed'
<1>1. /\ sitesFetch' = [sitesFetch EXCEPT !.covers = @ \ {i}]
      /\ unlisted' = unlisted \cup {i} /\ sitesFetch \in SiteFetches
  BY DEF Writes, SitesInv, ListsInv
<1>2. mut \in [Kinds -> Requests] /\ del \in [SiteIds -> RequestPhases]
      /\ unlisted \subseteq SiteIds
  BY DEF SitesInv, RequestsInv, ListsInv
<1>3. (\E k \in Kinds : mut'[k].id = i /\ mut'[k].phase = "applied") \/ del'[i] = "applied"
  <2>1. ASSUME NEW k \in Kinds, mut' = [mut EXCEPT ![k].phase = "applied", ![k].id = i]
        PROVE  mut'[k].id = i /\ mut'[k].phase = "applied"
    BY <1>2, <2>1 DEF Requests
  <2> QED BY <1>2, <2>1
<1>4. ASSUME NEW j \in unlisted, j # i,
             \/ \E k \in Kinds : mut[k].id = j /\ mut[k].phase = "applied"
             \/ del[j] = "applied"
      PROVE  \/ \E k \in Kinds : mut'[k].id = j /\ mut'[k].phase = "applied"
             \/ del'[j] = "applied"
  <2>1. ASSUME NEW k \in Kinds, mut[k].phase = "applied"
        PROVE  mut'[k] = mut[k]
    BY <1>2, <2>1
  <2> QED BY <1>2, <1>4, <2>1
<1>5. ASSUME NEW j \in unlisted, j # i,
             \/ sitesFetch.phase = "sent"
             \/ sitesFetch.phase = "answered" /\ j \in sitesFetch.covers
      PROVE  \/ sitesFetch'.phase = "sent"
             \/ sitesFetch'.phase = "answered" /\ j \in sitesFetch'.covers
  BY <1>1, <1>5 DEF SiteFetches
<1> QED BY <1>1, <1>3, <1>4, <1>5 DEF OwnWritesListed

LEMMA ListedStep ==
    ASSUME Cached, SitesInv, OwnWritesListed, SitesNext
    PROVE  OwnWritesListed'
<1>1. mut \in [Kinds -> Requests] /\ del \in [SiteIds -> RequestPhases]
      /\ unlisted \subseteq SiteIds /\ sites.known
  BY DEF SitesInv, RequestsInv, ListsInv
<1>2. ASSUME NEW k \in Kinds, NEW i \in SiteIds, ServerApplies(k, i)
      PROVE  OwnWritesListed'
  <2>1. /\ Writes(i, mut[k].value) /\ mut[k].phase = "sent" /\ del' = del
        /\ mut' = [mut EXCEPT ![k].phase = "applied", ![k].id = i]
    BY <1>2 DEF ServerApplies
  <2> QED BY <2>1, ListedAfterWrite
<1>3. ASSUME NEW i \in SiteIds, ServerDeletesSite(i)
      PROVE  OwnWritesListed'
  <2>1. /\ Writes(i, NoSite) /\ del[i] = "sent"
        /\ del' = [del EXCEPT ![i] = "applied"] /\ mut' = mut
    BY <1>3 DEF ServerDeletesSite
  <2> QED BY <2>1, ListedAfterWrite
<1>4. ASSUME sitesFetch' = SitesInvalidated, unlisted' = unlisted
      PROVE  OwnWritesListed'
  BY <1>1, <1>4 DEF SitesInvalidated, Joins, SitesSent, OwnWritesListed
<1>5. ASSUME NEW k \in Kinds, SubmitFails(k)
      PROVE  OwnWritesListed'
  <2>1. /\ mut' = [mut EXCEPT ![k] = Idle] /\ unlisted' = unlisted \ {mut[k].id}
        /\ UNCHANGED <<sitesFetch, del>>
    BY <1>5 DEF SubmitFails, lists
  <2>2. ASSUME NEW j \in unlisted', NEW l \in Kinds, mut[l].id = j
        PROVE  mut'[l] = mut[l]
    BY <1>1, <2>1, <2>2
  <2> QED BY <2>1, <2>2 DEF OwnWritesListed
<1>6. ASSUME NEW i \in SiteIds, SiteDeletionFails(i)
      PROVE  OwnWritesListed'
  BY <1>1, <1>6 DEF SiteDeletionFails, lists, OwnWritesListed
<1>7. ASSUME NEW i \in SiteIds, handleDeleteSite(i)
      PROVE  OwnWritesListed'
  BY <1>1, <1>7 DEF handleDeleteSite, lists, OwnWritesListed
<1>8. CASE handleSubmitSite
  <2> DEFINE k == KindOf(dialog)
  <2>1. mut[k].phase = "idle" /\ UNCHANGED <<sitesFetch, unlisted, del>>
        /\ \A j \in Kinds \ {k} : mut'[j] = mut[j]
    BY <1>1, <1>8 DEF handleSubmitSite, pending, lists
  <2> QED BY <2>1 DEF OwnWritesListed
<1>9. ASSUME NEW known, SitesFetched(known)
      PROVE  /\ \A k \in Kinds : mut[k].phase = "applied" => mut'[k] = mut[k]
             /\ \A i \in SiteIds : del[i] = "applied" => del'[i] = "applied"
  BY <1>9 DEF SitesFetched, Awaiting
<1>10. CASE SitesArrive
  BY <1>1, <1>9, <1>10 DEF SitesArrive, OwnWritesListed
<1>11. CASE SitesFail
  BY <1>11 DEF SitesFail, OwnWritesListed
<1>12. CASE ServerListsSites
  BY <1>12 DEF ServerListsSites, OwnWritesListed
<1>13. CASE Reconnect
  BY <1>13 DEF Reconnect, SitesSent, OwnWritesListed
<1>14. CASE \/ \E d \in Dialogs : openDialog(d)
            \/ closeDialog
            \/ \E value \in Drafts : setFormValue(value)
            \/ UploadProgresses \/ ServerListsBuckets \/ BucketsArrive \/ BucketsFail
            \/ OtherSitesNext
  <2>1. UNCHANGED <<sitesFetch, unlisted, mut, del>>
    BY <1>14 DEF openDialog, closeDialog, setFormValue, UploadProgresses, ServerListsBuckets,
                 BucketsArrive, BucketsFail, OtherSitesNext, OtherSite, OtherBucket, lists
  <2> QED BY <2>1 DEF OwnWritesListed
<1>15. ASSUME NEW k \in Kinds, SubmitSucceeds(k)
       PROVE  OwnWritesListed'
  BY <1>4, <1>15 DEF SubmitSucceeds
<1>16. ASSUME NEW i \in SiteIds, SiteDeletionSucceeds(i)
       PROVE  OwnWritesListed'
  BY <1>4, <1>16 DEF SiteDeletionSucceeds
<1>17. CASE FormNext
  BY <1>8, <1>14, <1>17 DEF FormNext
<1>18. CASE RequestNext
  BY <1>2, <1>3, <1>5, <1>6, <1>7, <1>14, <1>15, <1>16, <1>18 DEF RequestNext
<1>19. CASE ListNext
  BY <1>10, <1>11, <1>12, <1>13, <1>14, <1>19 DEF ListNext
<1> QED BY <1>14, <1>17, <1>18, <1>19 DEF SitesNext

\* When the list was cached, every invalidation cancels what is under way and
\* asks anew, so that a site saved, created or deleted from here is in the
\* list once that was reported.  (The first fetch of a list is joined, not
\* cancelled: what it answers may be older than the write.)
THEOREM SitesOwnWritesListed == Cached /\ SitesSpec => []OwnWritesListed
<1> SUFFICES ASSUME Cached PROVE SitesSpec => []OwnWritesListed
  OBVIOUS
<1>1. SitesInit => OwnWritesListed
  BY DEF SitesInit, OwnWritesListed
<1>2. SitesInv /\ OwnWritesListed /\ [SitesNext]_sitesVars => OwnWritesListed'
  BY ListedStep DEF OwnWritesListed, sitesVars, lists
<1> QED BY <1>1, <1>2, SitesInvariant, PTL DEF SitesSpec

-----------------------------------------------------------------------------
(* Buckets and pins                                                        *)

Pins(ids) == {p \in Seq(ids) : IsInjective(p)}
Lists(ids) == [known : BOOLEAN, items : SUBSET ids]
Fetches(ids) == [phase : {"idle", "sent", "answered"}, answer : Lists(ids)]
Deletions(ids) ==
    [phase : {"sent", "applied", "awaiting"}, name : Names, id : ids, service : Services,
     mount : Nat]
Creations ==
    [phase : {"idle", "sent", "applied", "awaiting"}, name : Names \cup {NoName},
     service : Services \cup {NoName}]

\* No list, no pin and no request names a bucket that does not exist yet.
KnownInv ==
    /\ created \in 0..MaxCreates /\ mounts \in Nat
    /\ live \in [Services -> SUBSET Known] /\ (\A s \in Services : OneName(live[s]))
    /\ stored \in [Services -> Pins(Known)] /\ pinnedIds \in Pins(Known)
    /\ open \in BOOLEAN /\ service \in Services /\ search \in Searches
    /\ data \in [Services -> [Searches -> Lists(Known)]]
    /\ fetch \in [Services -> [Searches -> Fetches(Known)]]
    /\ dels \subseteq Deletions(Known)
    /\ create \in Creations
    /\ gone \in [Services -> SUBSET Known]

\* The dialog is the one of a card.
ConfirmInv == confirm # 0 => open /\ confirm \in Cards

\* A deletion that the server made is of the bucket whose number was looked
\* up, and that number is not used again.
DelsInv ==
    \A d \in dels : /\ NameOf[d.id] = d.name
                    /\ d.phase # "sent" => d.id \notin live[d.service]

\* A bucket whose deletion was acknowledged does not exist, and is not pinned.
GoneInv == /\ \A s \in Services : gone[s] \cap live[s] = {}
           /\ DeletedUnpinned

\* A whole list that is under way has every pinned bucket that exists, and
\* every one that the page knew before.  If no bucket is created while the page
\* is in use, it has all that exist.
CoverInv ==
    \A s \in Services : fetch[s]["full"].phase = "answered" =>
        LET items == fetch[s]["full"].answer.items
        IN /\ ToSet(stored[s]) \cap live[s] \subseteq items
           /\ data[s]["full"].items \cap live[s] \subseteq items
           /\ MaxCreates = 0 => live[s] \subseteq items

PinsInv == KnownInv /\ ConfirmInv /\ DelsInv /\ GoneInv

LEMMA KnownIds ==
    ASSUME created \in 0..MaxCreates
    PROVE  Known \subseteq Ids /\ 0 \notin Known /\ 1 \in Known /\ "full" \in Searches
  BY PinsAssumption DEF Known, Ids

LEMMA KeptPins ==
    ASSUME NEW ids, NEW p \in Pins(ids), NEW set
    PROVE  Kept(p, set) \in Pins(ids) /\ ToSet(Kept(p, set)) = ToSet(p) \cap set
  BY KeptFacts DEF Pins

LEMMA WithoutPins ==
    ASSUME NEW ids, NEW p \in Pins(ids), NEW i
    PROVE  Without(p, i) \in Pins(ids) /\ ToSet(Without(p, i)) = ToSet(p) \ {i}
  BY KeptPins DEF Without

LEMMA ToggledPins ==
    ASSUME NEW ids, NEW p \in Pins(ids), NEW i \in ids
    PROVE  /\ Toggled(p, i) \in Pins(ids)
           /\ ToSet(p) \ {i} \subseteq ToSet(Toggled(p, i))
           /\ ToSet(Toggled(p, i)) \subseteq ToSet(p) \cup {i}
<1>1. CASE i \in ToSet(p)
  BY <1>1, WithoutPins DEF Toggled
<1>2. CASE i \notin ToSet(p)
  <2>1. p \in Seq(ids) /\ IsInjective(p)
    BY DEF Pins
  <2> DEFINE q == Append(p, i)
  <2>2. /\ q \in Seq(ids) /\ DOMAIN q = DOMAIN p \cup {Len(p) + 1} /\ Len(p) + 1 \notin DOMAIN p
        /\ q[Len(p) + 1] = i /\ \A k \in DOMAIN p : q[k] = p[k]
    BY <2>1
  <2> HIDE DEF q
  <2>3. ToSet(q) = ToSet(p) \cup {i}
    BY <2>2 DEF ToSet
  <2>4. IsInjective(q)
    BY <1>2, <2>1, <2>2 DEF ToSet, IsInjective
  <2>5. Toggled(p, i) = q
    BY <1>2 DEF Toggled, q
  <2> QED BY <2>2, <2>3, <2>4, <2>5 DEF Pins
<1> QED BY <1>1, <1>2

\* The cards are those of the list on the screen and the pins of the whole list.
LEMMA CardsOfLists ==
    ASSUME KnownInv
    PROVE  /\ Cards = data[service][search].items
                        \cup (ToSet(pinnedIds) \cap data[service]["full"].items)
           /\ Cards \subseteq Known
<1>1. ToSet(Kept(pinnedIds, data[service]["full"].items))
        = ToSet(pinnedIds) \cap data[service]["full"].items
  BY KeptPins DEF KnownInv
<1>2. data[service][search].items \subseteq Known /\ data[service]["full"].items \subseteq Known
  BY KnownIds DEF KnownInv, Lists
<1> QED BY <1>1, <1>2 DEF Cards, pinnedBuckets, buckets, fullBuckets

LEMMA CardShown ==
    ASSUME KnownInv, KnownInv', open' = open, service' = service, search' = search, ConfirmInv,
           Rendered
    PROVE  ConfirmInv'
<1>1. Cards' = data'[service][search].items
                 \cup (ToSet(pinnedIds') \cap data'[service]["full"].items)
  <2>1. ToSet(Kept(pinnedIds', data'[service']["full"].items))
          = ToSet(pinnedIds') \cap data'[service']["full"].items
    BY KeptPins DEF KnownInv
  <2> QED BY <2>1 DEF Cards, pinnedBuckets, buckets, fullBuckets
<1>2. confirm' # 0 => confirm' = confirm /\ confirm \in Cards'
  BY <1>1 DEF Rendered
<1> QED BY <1>2 DEF ConfirmInv

\* Fetches that are started.
LEMMA Fetching ==
    ASSUME KnownInv, NEW s,
           (\E qs : fetch' = Observe(s, qs)) \/ fetch' = Invalidated(s) \/ fetch' = fetch
    PROVE  /\ fetch' \in [Services -> [Searches -> Fetches(Known)]]
           /\ \A t \in Services, q \in Searches : fetch'[t][q] \in {fetch[t][q], Sent}
<1>1. Sent \in Fetches(Known)
  BY DEF Sent, NoList, Fetches, Lists
<1>2. fetch \in [Services -> [Searches -> Fetches(Known)]]
  BY DEF KnownInv
<1>3. CASE fetch' = fetch
  BY <1>2, <1>3
<1>4. ASSUME NEW new \in [Searches -> Fetches(Known)], fetch' = [fetch EXCEPT ![s] = new],
             s \in Services => \A q \in Searches : new[q] \in {fetch[s][q], Sent}
      PROVE  /\ fetch' \in [Services -> [Searches -> Fetches(Known)]]
             /\ \A t \in Services, q \in Searches : fetch'[t][q] \in {fetch[t][q], Sent}
  BY <1>2, <1>4
<1>5. CASE s \notin Services
  <2>1. fetch' = fetch
    BY <1>2, <1>5 DEF Observe, Invalidated
  <2> QED BY <1>3, <2>1
<1>6. ASSUME s \in Services, NEW qs, fetch' = Observe(s, qs)
      PROVE  /\ fetch' \in [Services -> [Searches -> Fetches(Known)]]
             /\ \A t \in Services, q \in Searches : fetch'[t][q] \in {fetch[t][q], Sent}
  <2> DEFINE new == [q \in Searches |->
                        IF q \in qs /\ fetch[s][q].phase = "idle" THEN Sent ELSE fetch[s][q]]
  <2>1. new \in [Searches -> Fetches(Known)]
    BY <1>1, <1>2, <1>6
  <2>2. fetch' = [fetch EXCEPT ![s] = new]
    BY <1>6 DEF Observe
  <2>3. \A q \in Searches : new[q] \in {fetch[s][q], Sent}
    OBVIOUS
  <2> HIDE DEF new
  <2> QED BY <1>4, <2>1, <2>2, <2>3
<1>7. CASE s \in Services /\ open /\ s = service /\ fetch' = Invalidated(s)
  <2> DEFINE new == [q \in Searches |->
                        IF Observed(q, pinnedIds)
                           /\ (data[s][q].known \/ fetch[s][q].phase = "idle")
                        THEN Sent ELSE fetch[s][q]]
  <2>1. new \in [Searches -> Fetches(Known)]
    BY <1>1, <1>2, <1>7
  <2>2. fetch' = [fetch EXCEPT ![s] = new]
    BY <1>7 DEF Invalidated
  <2>3. \A q \in Searches : new[q] \in {fetch[s][q], Sent}
    OBVIOUS
  <2> HIDE DEF new
  <2> QED BY <1>4, <2>1, <2>2, <2>3
<1>8. CASE fetch' = Invalidated(s) /\ ~(open /\ s = service)
  BY <1>3, <1>8 DEF Invalidated
<1> QED BY <1>3, <1>5, <1>6, <1>7, <1>8

\* The pins of one service are replaced, or the storage refuses.
LEMMA PinsUpdated ==
    ASSUME KnownInv, NEW s \in Services, NEW here, NEW next \in Pins(Known),
           NEW ids \in SUBSET Known, updatePins(s, here, next, ids)
    PROVE  /\ \/ /\ stored' = [stored EXCEPT ![s] = next]
                 /\ gone' = [gone EXCEPT ![s] = ids]
              \/ UNCHANGED <<stored, pins, gone>>
           /\ stored' \in [Services -> Pins(Known)] /\ pinnedIds' \in Pins(Known)
           /\ gone' \in [Services -> SUBSET Known]
<1>1. /\ stored \in [Services -> Pins(Known)] /\ pinnedIds \in Pins(Known)
      /\ gone \in [Services -> SUBSET Known]
  BY DEF KnownInv
<1>2. CASE UNCHANGED <<stored, pins, gone>>
  BY <1>1, <1>2 DEF pins
<1>3. CASE /\ gone' = [gone EXCEPT ![s] = ids]
           /\ IF next = stored[s] THEN UNCHANGED <<stored, pins>>
              ELSE /\ stored' = [stored EXCEPT ![s] = next]
                   /\ IF here THEN pinnedIds' = next /\ readFailed' = FALSE
                      ELSE UNCHANGED pins
  <2>1. stored' = [stored EXCEPT ![s] = next]
    BY <1>1, <1>3
  <2>2. pinnedIds' \in {next, pinnedIds}
    BY <1>3 DEF pins
  <2> QED BY <1>1, <1>3, <2>1, <2>2
<1> QED BY <1>2, <1>3 DEF updatePins

\* Steps that leave the buckets, the pins, the lists and the deletions alone.
LEMMA QuietStep ==
    ASSUME PinsInv, UNCHANGED <<live, created, stored, data, gone, dels>>,
           mounts' \in Nat, pinnedIds' \in Pins(Known),
           open' \in BOOLEAN, service' \in Services, search' \in Searches,
           fetch' \in [Services -> [Searches -> Fetches(Known)]], create' \in Creations,
           \/ confirm' = 0
           \/ /\ UNCHANGED <<open, service, search, pinnedIds>>
              /\ confirm' = confirm \/ (open /\ confirm' \in Cards)
    PROVE  PinsInv'
<1>1. Known' = Known
  BY DEF Known
<1>2. KnownInv'
  BY <1>1 DEF PinsInv, KnownInv
<1>3. DelsInv' /\ GoneInv'
  BY DEF PinsInv, DelsInv, GoneInv, DeletedUnpinned
<1>4. ConfirmInv'
  <2>1. CASE UNCHANGED <<open, service, search, pinnedIds>>
    <3>1. Cards' = Cards
      BY <2>1 DEF Cards, buckets, pinnedBuckets, fullBuckets
    <3> QED BY <2>1, <3>1 DEF PinsInv, ConfirmInv
  <2>2. CASE confirm' = 0
    BY <2>2 DEF ConfirmInv
  <2> QED BY <2>1, <2>2
<1> QED BY <1>2, <1>3, <1>4 DEF PinsInv

\* The page is opened, searched, refreshed and left; lists are asked for.
LEMMA PageStep ==
    ASSUME PinsInv,
           \/ \E s \in Services : Mount(s)
           \/ Unmount \/ handleRefreshBuckets
           \/ \E q \in Searches : handleSearchSubmit(q)
           \/ \E s \in Services, q \in Searches : ServerLists(s, q) \/ ListFails(s, q)
    PROVE  PinsInv'
<1>0. /\ KnownInv /\ ConfirmInv /\ "full" \in Searches /\ created \in 0..MaxCreates
      /\ mounts \in Nat /\ stored \in [Services -> Pins(Known)] /\ pinnedIds \in Pins(Known)
      /\ open \in BOOLEAN /\ service \in Services /\ search \in Searches
      /\ fetch \in [Services -> [Searches -> Fetches(Known)]] /\ create \in Creations
  BY PinsAssumption DEF PinsInv, KnownInv
<1>1. ASSUME NEW s \in Services, Mount(s)
      PROVE  PinsInv'
  <2>1. /\ UNCHANGED <<live, created, stored, data, gone, dels, create, confirm>>
        /\ open' = TRUE /\ mounts' = mounts + 1 /\ service' = s /\ search' = "full"
        /\ pinnedIds' \in {stored[s], <<>>} /\ fetch' = Observe(s, {"full"}) /\ ~open
    BY <1>1 DEF Mount, loadPins, server, requests
  <2>2. confirm = 0
    BY <1>0, <2>1 DEF ConfirmInv
  <2>3. fetch' \in [Services -> [Searches -> Fetches(Known)]]
    BY <1>0, <2>1, Fetching
  <2>4. pinnedIds' \in Pins(Known) /\ mounts' \in Nat
    <3>1. <<>> \in Pins(Known)
      BY DEF Pins, IsInjective
    <3> QED BY <1>0, <2>1, <3>1
  <2> QED BY <1>0, <2>1, <2>2, <2>3, <2>4, QuietStep
<1>2. CASE Unmount
  <2>1. /\ UNCHANGED <<live, created, stored, data, gone, dels, fetch, mounts, service, search>>
        /\ open' = FALSE /\ confirm' = 0 /\ pinnedIds' = <<>> /\ create' = create
    BY <1>2 DEF Unmount, server, queries
  <2>2. pinnedIds' \in Pins(Known)
    BY <2>1 DEF Pins, IsInjective
  <2> QED BY <1>0, <2>1, <2>2, QuietStep
<1>3. CASE handleRefreshBuckets
  <2>1. /\ UNCHANGED <<live, created, stored, data, gone, dels, create, mounts, service, search,
                       open, pinnedIds, confirm>>
        /\ fetch' = Invalidated(service)
    BY <1>3 DEF handleRefreshBuckets, server, page, pins, requests
  <2>2. fetch' \in [Services -> [Searches -> Fetches(Known)]]
    BY <1>0, <2>1, Fetching
  <2> QED BY <1>0, <2>1, <2>2, QuietStep
<1>4. ASSUME NEW q \in Searches, handleSearchSubmit(q)
      PROVE  PinsInv'
  <2>1. /\ UNCHANGED <<live, created, stored, data, gone, dels, create, mounts, service,
                       open, pinnedIds, confirm>>
        /\ search' = q /\ confirm = 0
        /\ \E qs : fetch' = Observe(service, qs)
    BY <1>4 DEF handleSearchSubmit, server, requests, pins
  <2>2. fetch' \in [Services -> [Searches -> Fetches(Known)]]
    BY <1>0, <2>1, Fetching
  <2> QED BY <1>0, <2>1, <2>2, QuietStep
<1>5. ASSUME NEW s \in Services, NEW q \in Searches, NEW new \in Fetches(Known),
             fetch' = [fetch EXCEPT ![s][q] = new],
             UNCHANGED <<server, stored, page, pins, data, requests, gone>>
      PROVE  PinsInv'
  <2>1. UNCHANGED <<live, created, stored, data, gone, dels, create, mounts, service, search,
                    open, pinnedIds, confirm>>
    BY <1>5 DEF server, page, pins, requests
  <2>2. fetch' \in [Services -> [Searches -> Fetches(Known)]]
    BY <1>0, <1>5
  <2> QED BY <1>0, <2>1, <2>2, QuietStep
<1>6. ASSUME NEW s \in Services, NEW q \in Searches, ServerLists(s, q)
      PROVE  PinsInv'
  <2>1. Listed(s, q) \in Lists(Known)
    BY DEF PinsInv, KnownInv, Listed, Lists
  <2>2. [phase |-> "answered", answer |-> Listed(s, q)] \in Fetches(Known)
    BY <2>1 DEF Fetches
  <2> QED BY <1>5, <1>6, <2>2 DEF ServerLists
<1>7. ASSUME NEW s \in Services, NEW q \in Searches, ListFails(s, q)
      PROVE  PinsInv'
  <2>1. NoFetch \in Fetches(Known)
    BY DEF NoFetch, NoList, Fetches, Lists
  <2>2. /\ fetch' = [fetch EXCEPT ![s][q] = NoFetch]
        /\ UNCHANGED <<server, stored, page, pins, data, requests, gone>>
    BY <1>7 DEF ListFails
  <2> QED BY <1>5, <2>1, <2>2
<1> QED BY <1>1, <1>2, <1>3, <1>4, <1>6, <1>7

\* What is done in the other tab.
OtherTabs ==
    \E s \in Services :
        \/ \E i \in Ids : OtherTab(s, i)
        \/ \E existingIds \in SUBSET Known : OtherTabPrunes(s, existingIds)

\* A pin is added or removed, here or in the other tab.
LEMMA PinStep ==
    ASSUME PinsInv, tabs \in Nat, (\E i \in Ids : togglePin(i)) \/ OtherTabs
    PROVE  /\ PinsInv'
           /\ \A s \in Services : \A j \in ToSet(stored[s]) \ ToSet(stored'[s]) :
                 tabs' # tabs \/ (s = service /\ togglePin(j))
<1>0. /\ KnownInv /\ created \in 0..MaxCreates /\ service \in Services
      /\ stored \in [Services -> Pins(Known)] /\ gone \in [Services -> SUBSET Known]
  BY DEF PinsInv, KnownInv
<1>1. ASSUME NEW i \in Ids, togglePin(i)
      PROVE  /\ PinsInv'
             /\ \A s \in Services : \A j \in ToSet(stored[s]) \ ToSet(stored'[s]) :
                   s = service /\ togglePin(j)
  <2> DEFINE next == Toggled(stored[service], i)
             ids == gone[service] \ {i}
  <2>1. /\ open /\ confirm = 0 /\ i \in Cards
        /\ updatePins(service, TRUE, next, ids)
        /\ fetch' = Observe(service, {"full"}) \/ fetch' = fetch
        /\ UNCHANGED <<live, created, mounts, open, service, search, data, confirm, dels, create>>
    BY <1>1 DEF togglePin, server, page, requests
  <2>2. i \in Known /\ ids \in SUBSET Known
    BY <1>0, <2>1, CardsOfLists
  <2>3. /\ next \in Pins(Known) /\ ToSet(stored[service]) \ {i} \subseteq ToSet(next)
        /\ ToSet(next) \subseteq ToSet(stored[service]) \cup {i}
    BY <1>0, <2>2, ToggledPins
  <2> HIDE DEF next, ids
  <2>4. /\ \/ stored' = [stored EXCEPT ![service] = next] /\ gone' = [gone EXCEPT ![service] = ids]
           \/ UNCHANGED <<stored, gone>>
        /\ stored' \in [Services -> Pins(Known)] /\ pinnedIds' \in Pins(Known)
        /\ gone' \in [Services -> SUBSET Known]
    BY <1>0, <2>1, <2>2, <2>3, PinsUpdated
  <2>5. fetch' \in [Services -> [Searches -> Fetches(Known)]]
    BY <1>0, <2>1, Fetching
  <2>6. Known' = Known
    BY <2>1 DEF Known
  <2>8. KnownInv'
    BY <1>0, <2>1, <2>4, <2>5, <2>6 DEF KnownInv
  <2>9. ConfirmInv' /\ DelsInv'
    BY <2>1 DEF PinsInv, ConfirmInv, DelsInv
  <2>10. GoneInv'
    <3>1. ASSUME NEW s \in Services
          PROVE  gone'[s] \cap live'[s] = {} /\ ToSet(stored'[s]) \cap gone'[s] = {}
      <4>1. gone[s] \cap live[s] = {} /\ ToSet(stored[s]) \cap gone[s] = {}
        BY <1>0 DEF PinsInv, GoneInv, DeletedUnpinned
      <4>2. CASE UNCHANGED <<stored, gone>>
        BY <2>1, <4>1, <4>2
      <4>3. CASE s = service /\ stored'[s] = next /\ gone'[s] = ids
        BY <2>1, <2>3, <4>1, <4>3 DEF ids
      <4>4. CASE stored'[s] = stored[s] /\ gone'[s] = gone[s]
        BY <2>1, <4>1, <4>4
      <4> QED BY <1>0, <2>4, <4>2, <4>3, <4>4
    <3> QED BY <2>4, <3>1 DEF GoneInv, DeletedUnpinned
  <2>11. ASSUME NEW s \in Services, NEW j \in ToSet(stored[s]) \ ToSet(stored'[s])
         PROVE  s = service /\ j = i
    BY <1>0, <2>3, <2>4
  <2> QED BY <1>1, <2>8, <2>9, <2>10, <2>11 DEF PinsInv
<1>2. ASSUME NEW s \in Services, NEW next \in Pins(Known), NEW i, tabs' = tabs + 1,
             ToSet(next) \subseteq ToSet(stored[s]) \cup {i},
             stored' = [stored EXCEPT ![s] = next], gone' = [gone EXCEPT ![s] = @ \ {i}],
             UNCHANGED <<server, page, pins, queries, requests>>
      PROVE  PinsInv' /\ tabs' # tabs
  <2>1. UNCHANGED <<live, created, mounts, open, service, search, pinnedIds, data, fetch,
                    confirm, dels, create>>
    BY <1>2 DEF server, page, pins, queries, requests
  <2>2. /\ stored' \in [Services -> Pins(Known)] /\ gone' \in [Services -> SUBSET Known]
        /\ Known' = Known
    BY <1>0, <1>2, <2>1 DEF Known
  <2>3. KnownInv'
    BY <1>0, <2>1, <2>2 DEF KnownInv
  <2>4. ConfirmInv' /\ DelsInv'
    BY <2>1 DEF PinsInv, ConfirmInv, DelsInv, Cards, buckets, pinnedBuckets, fullBuckets
  <2>5. ASSUME NEW t \in Services
        PROVE  gone'[t] \cap live'[t] = {} /\ ToSet(stored'[t]) \cap gone'[t] = {}
    <3>1. gone[t] \cap live[t] = {} /\ ToSet(stored[t]) \cap gone[t] = {}
      BY <1>0 DEF PinsInv, GoneInv, DeletedUnpinned
    <3>2. CASE t = s
      BY <1>0, <1>2, <2>1, <3>1, <3>2
    <3>3. CASE t # s
      BY <1>0, <1>2, <2>1, <3>1, <3>3
    <3> QED BY <3>2, <3>3
  <2>6. GoneInv'
    BY <2>2, <2>5 DEF GoneInv, DeletedUnpinned
  <2> QED BY <1>2, <2>3, <2>4, <2>6 DEF PinsInv
<1>3. ASSUME NEW s \in Services, NEW i \in Ids, OtherTab(s, i)
      PROVE  PinsInv' /\ tabs' # tabs
  <2> DEFINE next == Toggled(stored[s], i)
  <2>1. i \in Known /\ tabs' = tabs + 1 /\ stored' = [stored EXCEPT ![s] = next]
        /\ gone' = [gone EXCEPT ![s] = @ \ {i}]
        /\ UNCHANGED <<server, page, pins, queries, requests>>
    BY <1>3 DEF OtherTab
  <2>2. next \in Pins(Known) /\ ToSet(next) \subseteq ToSet(stored[s]) \cup {i}
    BY <1>0, <2>1, ToggledPins
  <2> HIDE DEF next
  <2> QED BY <1>2, <2>1, <2>2
<1>4. ASSUME NEW s \in Services, NEW existingIds \in SUBSET Known,
             OtherTabPrunes(s, existingIds)
      PROVE  PinsInv' /\ tabs' # tabs
  <2> DEFINE next == Kept(stored[s], existingIds)
  <2>1. tabs' = tabs + 1 /\ stored' = [stored EXCEPT ![s] = next] /\ gone' = gone
        /\ UNCHANGED <<server, page, pins, queries, requests>>
    BY <1>4 DEF OtherTabPrunes
  <2>2. next \in Pins(Known) /\ ToSet(next) \subseteq ToSet(stored[s])
    BY <1>0, KeptPins
  <2>3. 0 \notin Known /\ gone' = [gone EXCEPT ![s] = @ \ {0}]
    <3>1. 0 \notin gone[s]
      BY <1>0, KnownIds
    <3> QED BY <1>0, <2>1, <3>1, KnownIds
  <2> HIDE DEF next
  <2> QED BY <1>2, <2>1, <2>2, <2>3
<1> QED BY <1>1, <1>3, <1>4 DEF OtherTabs

\* A list arrives; the whole list drops the pins of buckets that it lacks.
LEMMA ArriveStep ==
    ASSUME PinsInv, NEW s \in Services, NEW q \in Searches, ListArrives(s, q)
    PROVE  /\ PinsInv'
           /\ \A t \in Services : \A j \in ToSet(stored[t]) \ ToSet(stored'[t]) :
                 /\ t = s /\ q = "full" /\ fetch[s][q].phase = "answered"
                 /\ j \notin fetch[s][q].answer.items
           /\ \A t \in Services : ToSet(stored'[t]) \subseteq ToSet(stored[t])
<1> DEFINE items == fetch[s][q].answer.items
           next == Kept(stored[service], items)
<1>0. /\ KnownInv /\ created \in 0..MaxCreates /\ service \in Services
      /\ stored \in [Services -> Pins(Known)] /\ pinnedIds \in Pins(Known)
      /\ fetch \in [Services -> [Searches -> Fetches(Known)]]
      /\ data \in [Services -> [Searches -> Lists(Known)]]
  BY DEF PinsInv, KnownInv
<1>1. /\ fetch[s][q].phase = "answered"
      /\ data' = [data EXCEPT ![s][q] = fetch[s][q].answer]
      /\ fetch' = [fetch EXCEPT ![s][q] = NoFetch]
      /\ Rendered
      /\ UNCHANGED <<live, created, mounts, open, service, search, dels, create>>
  BY DEF ListArrives, server, page
<1>2. \/ s = service /\ q = "full" /\ updatePins(service, TRUE, next, gone[service])
      \/ UNCHANGED <<stored, pinnedIds, gone>>
  BY DEF ListArrives, reconcilePins, pins
<1>3. next \in Pins(Known) /\ ToSet(next) = ToSet(stored[service]) \cap items
  BY <1>0, KeptPins
<1> HIDE DEF next
<1>4. /\ stored' \in [Services -> Pins(Known)] /\ pinnedIds' \in Pins(Known) /\ gone' = gone
      /\ stored' = stored \/ (/\ s = service /\ q = "full"
                              /\ stored' = [stored EXCEPT ![service] = next])
  <2> DEFINE ids == gone[service]
  <2>1. ids \in SUBSET Known /\ [gone EXCEPT ![service] = ids] = gone
    BY <1>0 DEF KnownInv
  <2>2. CASE s = service /\ q = "full" /\ updatePins(service, TRUE, next, ids)
    <3> HIDE DEF ids
    <3> QED BY <1>0, <1>3, <2>1, <2>2, PinsUpdated
  <2>3. CASE UNCHANGED <<stored, pinnedIds, gone>>
    BY <1>0, <2>3
  <2> QED BY <1>2, <2>2, <2>3
<1>5. ASSUME NEW t \in Services
      PROVE  /\ ToSet(stored'[t]) \subseteq ToSet(stored[t])
             /\ \A j \in ToSet(stored[t]) \ ToSet(stored'[t]) :
                   t = s /\ q = "full" /\ j \notin items
  BY <1>0, <1>3, <1>4
<1>6. fetch[s][q].answer \in Lists(Known) /\ NoFetch \in Fetches(Known)
  BY <1>0 DEF NoFetch, NoList, Fetches, Lists
<1>7. /\ data' \in [Services -> [Searches -> Lists(Known)]]
      /\ fetch' \in [Services -> [Searches -> Fetches(Known)]]
  BY <1>0, <1>1, <1>6
<1>8. Known' = Known
  BY <1>1 DEF Known
<1>9. KnownInv'
  BY <1>0, <1>1, <1>4, <1>7, <1>8 DEF KnownInv
<1>10. ConfirmInv'
  BY <1>0, <1>1, <1>9, CardShown DEF PinsInv
<1>11. DelsInv'
  BY <1>1 DEF PinsInv, DelsInv
<1>12. GoneInv'
  BY <1>0, <1>1, <1>4, <1>5 DEF PinsInv, GoneInv, DeletedUnpinned
<1> QED BY <1>1, <1>5, <1>9, <1>10, <1>11, <1>12 DEF PinsInv

\* A bucket gets a number that none has had.
LEMMA NumberGiven ==
    ASSUME PinsInv, NEW s, NEW i \in Ids, Creates(s, i), create' \in Creations,
           UNCHANGED <<stored, page, pins, data, fetch, confirm, dels, gone>>
    PROVE  /\ PinsInv'
           /\ i \notin Known /\ \A t \in Services : live'[t] \subseteq live[t] \cup {i}
<1>0. /\ KnownInv /\ MaxId \in Nat /\ MaxCreates \in 0..(MaxId - 1) /\ created \in 0..MaxCreates
  BY PinsAssumption DEF PinsInv, KnownInv
<1>1. /\ created < MaxCreates /\ created' = created + 1
      /\ i = created + MaxId - MaxCreates + 1
      /\ live' = [live EXCEPT ![s] = @ \cup {i}]
      /\ \A j \in live[s] : NameOf[j] # NameOf[i]
  BY DEF Creates
<1>2. Known \subseteq Known' /\ i \in Known' /\ i \notin Known /\ created' \in 0..MaxCreates
  BY <1>0, <1>1 DEF Known
<1>3. live' \in [Services -> SUBSET Known']
  BY <1>0, <1>1, <1>2 DEF KnownInv
<1>4. ASSUME NEW t \in Services
      PROVE  OneName(live'[t]) /\ live'[t] \subseteq live[t] \cup {i}
  BY <1>0, <1>1 DEF KnownInv, OneName
<1>5. /\ Lists(Known) \subseteq Lists(Known') /\ Fetches(Known) \subseteq Fetches(Known')
      /\ Pins(Known) \subseteq Pins(Known')
      /\ Deletions(Known) \subseteq Deletions(Known')
  <2>1. Seq(Known) \subseteq Seq(Known')
    BY <1>2
  <2> QED BY <1>2, <2>1 DEF Lists, Fetches, Pins, Deletions
<1>6. /\ data \in [Services -> [Searches -> Lists(Known')]]
      /\ fetch \in [Services -> [Searches -> Fetches(Known')]]
  BY <1>0, <1>5 DEF KnownInv
<1>7. stored \in [Services -> Pins(Known')] /\ gone \in [Services -> SUBSET Known']
  BY <1>0, <1>2, <1>5 DEF KnownInv
<1>8. KnownInv'
  BY <1>0, <1>2, <1>3, <1>4, <1>5, <1>6, <1>7 DEF KnownInv, page, pins
<1>9. ConfirmInv'
  BY DEF PinsInv, ConfirmInv, Cards, buckets, pinnedBuckets, fullBuckets, page, pins
<1>10. DelsInv'
  <2> SUFFICES ASSUME NEW d \in dels
               PROVE  NameOf[d.id] = d.name /\ (d.phase # "sent" => d.id \notin live'[d.service])
    BY DEF DelsInv
  <2>1. d.service \in Services /\ d.id \in Known
    BY <1>0 DEF KnownInv, Deletions
  <2> QED BY <1>2, <1>4, <2>1 DEF PinsInv, DelsInv
<1>11. GoneInv'
  <2>1. ASSUME NEW t \in Services
        PROVE  gone[t] \cap live'[t] = {}
    BY <1>0, <1>2, <1>4 DEF PinsInv, GoneInv, KnownInv
  <2> QED BY <2>1 DEF PinsInv, GoneInv, DeletedUnpinned
<1> QED BY <1>2, <1>4, <1>8, <1>9, <1>10, <1>11 DEF PinsInv

\* Buckets are created, here or by another client.
LEMMA CreateStep ==
    ASSUME PinsInv,
           \/ CreateNext
           \/ \E s \in Services, i \in Ids : OtherClientCreates(s, i)
    PROVE  PinsInv'
<1>0. /\ KnownInv /\ mounts \in Nat /\ pinnedIds \in Pins(Known)
      /\ open \in BOOLEAN /\ service \in Services /\ search \in Searches
      /\ fetch \in [Services -> [Searches -> Fetches(Known)]] /\ create \in Creations
  BY DEF PinsInv, KnownInv
<1>1. ASSUME create' \in Creations,
             fetch' = fetch \/ fetch' = Invalidated(create.service),
             UNCHANGED <<server, stored, page, pins, data, confirm, dels, gone>>
      PROVE  PinsInv'
  <2>1. fetch' \in [Services -> [Searches -> Fetches(Known)]]
    BY <1>0, <1>1, Fetching
  <2> QED BY <1>0, <1>1, <2>1, QuietStep DEF server, page, pins
<1>2. NoCreate \in Creations
  BY DEF NoCreate, Creations
<1>3. ASSUME NEW n \in Names, handleCreateBucket(n)
      PROVE  PinsInv'
  <2>1. create' \in Creations
    BY <1>0, <1>3 DEF handleCreateBucket, Creations
  <2> QED BY <1>1, <1>3, <2>1 DEF handleCreateBucket, queries
<1>4. ASSUME NEW i \in Ids, ServerCreates(i)
      PROVE  PinsInv'
  <2>1. create' \in Creations
    BY <1>0, <1>4 DEF ServerCreates, Creations
  <2>2. /\ Creates(create.service, i)
        /\ UNCHANGED <<stored, page, pins, data, fetch, confirm, dels, gone>>
    BY <1>4 DEF ServerCreates, queries
  <2> QED BY <2>1, <2>2, NumberGiven
<1>5. CASE CreateSucceeds
  <2>1. create' \in Creations
    BY <1>0, <1>5 DEF CreateSucceeds, Creations
  <2> QED BY <1>1, <1>5, <2>1 DEF CreateSucceeds
<1>6. CASE CreateEnds
  BY <1>1, <1>2, <1>6 DEF CreateEnds, queries
<1>7. CASE CreateFails
  BY <1>1, <1>2, <1>7 DEF CreateFails, queries
<1>8. ASSUME NEW s \in Services, NEW i \in Ids, OtherClientCreates(s, i)
      PROVE  PinsInv'
  <2>1. /\ Creates(s, i) /\ create' \in Creations
        /\ UNCHANGED <<stored, page, pins, data, fetch, confirm, dels, gone>>
    BY <1>0, <1>8 DEF OtherClientCreates, queries, requests
  <2> QED BY <2>1, NumberGiven
<1> QED BY <1>3, <1>4, <1>5, <1>6, <1>7, <1>8 DEF CreateNext

\* The number looked up is one of a bucket of that name.
LEMMA NumberLookedUp ==
    ASSUME KnownInv, NEW n, NEW i \in Cards, NameOf[i] = n
    PROVE  NumberOf(n) \in Known /\ NameOf[NumberOf(n)] = n
<1> DEFINE full == {j \in fullBuckets.items : NameOf[j] = n}
           shown == {j \in buckets : NameOf[j] = n}
<1>1. data[service][search] \in Lists(Known) /\ data[service]["full"] \in Lists(Known)
  BY KnownIds DEF KnownInv
<1>2. full \subseteq Known /\ shown \subseteq Known
  BY <1>1 DEF Lists, fullBuckets, buckets
<1>3. full # {} \/ shown # {}
  BY CardsOfLists DEF fullBuckets, buckets
<1>4. NumberOf(n) = IF full # {} THEN CHOOSE j \in full : TRUE ELSE CHOOSE j \in shown : TRUE
  BY DEF NumberOf
<1>5. NumberOf(n) \in full \/ NumberOf(n) \in shown
  <2> HIDE DEF full, shown
  <2> QED BY <1>3, <1>4
<1> QED BY <1>2, <1>5

\* The dialog of a deletion opens and closes, the request is sent.
LEMMA DialogStep ==
    ASSUME PinsInv,
           \/ \E i \in Ids : openConfirmation(i)
           \/ cancelConfirmation \/ handleDelete
    PROVE  PinsInv'
<1>0. /\ KnownInv /\ mounts \in Nat /\ pinnedIds \in Pins(Known)
      /\ open \in BOOLEAN /\ service \in Services /\ search \in Searches
      /\ fetch \in [Services -> [Searches -> Fetches(Known)]] /\ create \in Creations
      /\ created \in 0..MaxCreates /\ dels \subseteq Deletions(Known)
  BY DEF PinsInv, KnownInv
<1>1. ASSUME NEW i \in Ids, openConfirmation(i)
      PROVE  PinsInv'
  BY <1>0, <1>1, QuietStep DEF openConfirmation, server, page, pins, queries
<1>2. CASE cancelConfirmation
  BY <1>0, <1>2, QuietStep DEF cancelConfirmation, server, page, pins, queries
<1>3. CASE handleDelete
  <2> DEFINE n == NameOf[confirm]
             new == [phase |-> "sent", name |-> n, id |-> NumberOf(n), service |-> service,
                     mount |-> mounts]
  <2>1. /\ confirm # 0 /\ dels' = dels \cup {new}
        /\ UNCHANGED <<live, created, stored, open, mounts, service, search, pinnedIds, data,
                       fetch, confirm, create, gone>>
    BY <1>3 DEF handleDelete, server, page, pins, queries
  <2>2. confirm \in Cards /\ confirm \in Ids
    BY <1>0, <2>1, CardsOfLists, KnownIds DEF PinsInv, ConfirmInv
  <2>3. n \in Names /\ NumberOf(n) \in Known /\ NameOf[NumberOf(n)] = n
    BY <1>0, <2>2, NumberLookedUp, PinsAssumption
  <2>4. new \in Deletions(Known) /\ NameOf[new.id] = new.name /\ new.phase = "sent"
    BY <1>0, <2>3 DEF Deletions
  <2> HIDE DEF new
  <2>5. Known' = Known /\ dels' \subseteq Deletions(Known)
    BY <1>0, <2>1, <2>4 DEF Known
  <2>6. KnownInv'
    BY <1>0, <2>1, <2>5 DEF KnownInv
  <2>7. ConfirmInv' /\ GoneInv'
    BY <2>1 DEF PinsInv, ConfirmInv, GoneInv, DeletedUnpinned, Cards, buckets, pinnedBuckets,
                fullBuckets
  <2>8. DelsInv'
    BY <2>1, <2>4 DEF PinsInv, DelsInv
  <2> QED BY <2>6, <2>7, <2>8 DEF PinsInv
<1> QED BY <1>1, <1>2, <1>3

\* Deletions are served, and end; other clients delete.
LEMMA DeleteStep ==
    ASSUME PinsInv,
           \/ \E d \in dels : ServerDeletes(d) \/ DeleteEnds(d) \/ DeleteFails(d)
           \/ \E s \in Services, i \in Ids : OtherClientDeletes(s, i)
    PROVE  PinsInv' /\ stored' = stored /\ fetch' = fetch /\ data' = data
           /\ (\A s \in Services : live'[s] \subseteq live[s])
<1>0. /\ KnownInv /\ dels \subseteq Deletions(Known) /\ live \in [Services -> SUBSET Known]
      /\ \A s \in Services : OneName(live[s])
  BY DEF PinsInv, KnownInv
<1>1. ASSUME live' \in [Services -> SUBSET Known], \A s \in Services : live'[s] \subseteq live[s],
             dels' \subseteq Deletions(Known), DelsInv', confirm' \in {0, confirm},
             UNCHANGED <<created, stored, open, mounts, service, search, pinnedIds, data,
                         fetch, create, gone>>
      PROVE  PinsInv' /\ stored' = stored /\ fetch' = fetch /\ data' = data
             /\ (\A s \in Services : live'[s] \subseteq live[s])
  <2>1. Known' = Known
    BY <1>1 DEF Known
  <2>2. \A s \in Services : OneName(live'[s])
    BY <1>0, <1>1 DEF OneName
  <2>3. KnownInv'
    BY <1>0, <1>1, <2>1, <2>2 DEF KnownInv
  <2>4. ConfirmInv'
    BY <1>1 DEF PinsInv, ConfirmInv, Cards, buckets, pinnedBuckets, fullBuckets
  <2>5. GoneInv'
    BY <1>1 DEF PinsInv, GoneInv, DeletedUnpinned
  <2> QED BY <1>1, <2>3, <2>4, <2>5 DEF PinsInv
<1>2. ASSUME NEW d \in dels, ServerDeletes(d)
      PROVE  PinsInv' /\ stored' = stored /\ fetch' = fetch /\ data' = data
             /\ (\A s \in Services : live'[s] \subseteq live[s])
  <2> DEFINE new == [d EXCEPT !.phase = "applied"]
  <2>1. /\ live' = [live EXCEPT ![d.service] = {i \in @ : NameOf[i] # d.name}]
        /\ dels' = (dels \ {d}) \cup {new}
        /\ UNCHANGED <<created, stored, open, mounts, service, search, pinnedIds, data,
                       fetch, confirm, create, gone>>
    BY <1>2 DEF ServerDeletes, page, pins, queries
  <2>2. d \in Deletions(Known) /\ NameOf[d.id] = d.name
    BY <1>0 DEF PinsInv, DelsInv
  <2>3. /\ new \in Deletions(Known) /\ NameOf[new.id] = new.name /\ new.service = d.service
        /\ new.id = d.id /\ d.service \in Services
    BY <2>2 DEF Deletions
  <2> HIDE DEF new
  <2>4. /\ live' \in [Services -> SUBSET Known] /\ d.id \notin live'[d.service]
        /\ \A s \in Services : live'[s] \subseteq live[s]
    BY <1>0, <2>1, <2>2, <2>3
  <2>5. DelsInv'
    <3>1. ASSUME NEW e \in dels
          PROVE  NameOf[e.id] = e.name /\ (e.phase # "sent" => e.id \notin live'[e.service])
      <4>1. e.service \in Services
        BY <1>0 DEF Deletions
      <4> QED BY <2>4, <4>1 DEF PinsInv, DelsInv
    <3> QED BY <2>1, <2>3, <2>4, <3>1 DEF DelsInv
  <2>6. dels' \subseteq Deletions(Known)
    BY <1>0, <2>1, <2>3
  <2> QED BY <1>1, <2>1, <2>4, <2>5, <2>6
<1>3. ASSUME NEW d \in dels, DeleteEnds(d) \/ DeleteFails(d)
      PROVE  PinsInv' /\ stored' = stored /\ fetch' = fetch /\ data' = data
             /\ (\A s \in Services : live'[s] \subseteq live[s])
  <2>1. /\ dels' = dels \ {d} /\ confirm' \in {0, confirm}
        /\ UNCHANGED <<live, created, stored, open, mounts, service, search, pinnedIds, data,
                       fetch, create, gone>>
    BY <1>3 DEF DeleteEnds, DeleteFails, server, page, pins, queries
  <2>2. DelsInv' /\ dels' \subseteq Deletions(Known)
    BY <1>0, <2>1 DEF PinsInv, DelsInv
  <2> QED BY <1>0, <1>1, <2>1, <2>2
<1>4. ASSUME NEW s \in Services, NEW i \in Ids, OtherClientDeletes(s, i)
      PROVE  PinsInv' /\ stored' = stored /\ fetch' = fetch /\ data' = data
             /\ (\A t \in Services : live'[t] \subseteq live[t])
  <2>1. /\ live' = [live EXCEPT ![s] = @ \ {i}]
        /\ UNCHANGED <<created, stored, open, mounts, service, search, pinnedIds, data,
                       fetch, create, gone, confirm, dels>>
    BY <1>4 DEF OtherClientDeletes, page, pins, queries, requests
  <2>2. /\ live' \in [Services -> SUBSET Known] /\ \A t \in Services : live'[t] \subseteq live[t]
    BY <1>0, <2>1
  <2>3. DelsInv'
    <3> SUFFICES ASSUME NEW e \in dels
                 PROVE  NameOf[e.id] = e.name
                        /\ (e.phase # "sent" => e.id \notin live'[e.service])
      BY <2>1 DEF DelsInv
    <3>1. e.service \in Services
      BY <1>0 DEF Deletions
    <3> QED BY <2>2, <3>1 DEF PinsInv, DelsInv
  <2> QED BY <1>0, <1>1, <2>1, <2>2, <2>3
<1> QED BY <1>2, <1>3, <1>4

\* An acknowledged deletion removes the pin, in the service it was sent to.
LEMMA AcknowledgeStep ==
    ASSUME PinsInv, NEW d \in dels, DeleteSucceeds(d)
    PROVE  /\ PinsInv' /\ UNCHANGED <<live, data>>
           /\ fetch' = Invalidated(d.service)
           /\ \A s \in Services :
                 /\ ToSet(stored'[s]) \subseteq ToSet(stored[s])
                 /\ \A i \in ToSet(stored[s]) \ ToSet(stored'[s]) : i \notin live[s]
<1> DEFINE s == d.service
           next == Without(stored[s], d.id)
           new == [d EXCEPT !.phase = "awaiting"]
<1>0. /\ KnownInv /\ dels \subseteq Deletions(Known) /\ gone \in [Services -> SUBSET Known]
      /\ stored \in [Services -> Pins(Known)]
  BY DEF PinsInv, KnownInv
<1>1. /\ d \in Deletions(Known) /\ s \in Services /\ d.id \in Known
      /\ d.phase = "applied" /\ d.id \notin live[s] /\ NameOf[d.id] = d.name
  BY <1>0 DEF Deletions, DeleteSucceeds, PinsInv, DelsInv
<1>2. /\ updatePins(s, open /\ d.mount = mounts, next, gone[s] \cup {d.id})
      /\ fetch' = Invalidated(s)
      /\ dels' = (dels \ {d}) \cup {new}
      /\ Rendered
      /\ UNCHANGED <<live, created, open, mounts, service, search, data, create>>
  BY DEF DeleteSucceeds, server, page, pins
<1>3. next \in Pins(Known) /\ ToSet(next) = ToSet(stored[s]) \ {d.id}
  BY <1>0, <1>1, WithoutPins
<1> HIDE DEF next
<1>4. /\ \/ stored' = [stored EXCEPT ![s] = next] /\ gone' = [gone EXCEPT ![s] = @ \cup {d.id}]
         \/ UNCHANGED <<stored, gone>>
      /\ stored' \in [Services -> Pins(Known)] /\ pinnedIds' \in Pins(Known)
      /\ gone' \in [Services -> SUBSET Known]
  <2> DEFINE ids == gone[s] \cup {d.id}
  <2>1. ids \in SUBSET Known
    BY <1>0, <1>1
  <2>2. [gone EXCEPT ![s] = @ \cup {d.id}] = [gone EXCEPT ![s] = ids]
    OBVIOUS
  <2> HIDE DEF ids
  <2>3. PICK here : updatePins(s, here, next, ids)
    BY <1>2, Zenon DEF ids
  <2>4. /\ \/ stored' = [stored EXCEPT ![s] = next] /\ gone' = [gone EXCEPT ![s] = ids]
           \/ UNCHANGED <<stored, pins, gone>>
        /\ stored' \in [Services -> Pins(Known)] /\ pinnedIds' \in Pins(Known)
        /\ gone' \in [Services -> SUBSET Known]
    <3>1. s \in Services /\ next \in Pins(Known) /\ KnownInv
      BY <1>0, <1>1, <1>3
    <3> HIDE DEF s
    <3> QED BY <2>1, <2>3, <3>1, PinsUpdated
  <2> QED BY <2>2, <2>4
<1>5. fetch' \in [Services -> [Searches -> Fetches(Known)]]
  BY <1>0, <1>2, Fetching
<1>6. /\ new \in Deletions(Known) /\ NameOf[new.id] = new.name /\ new.service = s
      /\ new.id = d.id
  BY <1>1 DEF Deletions
<1> HIDE DEF new
<1>7. Known' = Known /\ dels' \subseteq Deletions(Known)
  BY <1>0, <1>1, <1>2, <1>6 DEF Known
<1>8. KnownInv'
  BY <1>0, <1>2, <1>4, <1>5, <1>7 DEF KnownInv
<1>9. ConfirmInv'
  BY <1>0, <1>2, <1>8, CardShown DEF PinsInv
<1>10. DelsInv'
  BY <1>1, <1>2, <1>6 DEF PinsInv, DelsInv
<1>11. ASSUME NEW t \in Services
       PROVE  /\ ToSet(stored'[t]) \subseteq ToSet(stored[t])
              /\ \A i \in ToSet(stored[t]) \ ToSet(stored'[t]) : i \notin live[t]
              /\ gone'[t] \cap live'[t] = {} /\ ToSet(stored'[t]) \cap gone'[t] = {}
  <2>1. gone[t] \cap live[t] = {} /\ ToSet(stored[t]) \cap gone[t] = {}
    BY <1>0 DEF PinsInv, GoneInv, DeletedUnpinned
  <2>2. CASE UNCHANGED <<stored, gone>>
    BY <1>2, <2>1, <2>2
  <2>3. CASE /\ t = s /\ stored' = [stored EXCEPT ![s] = next]
             /\ gone' = [gone EXCEPT ![s] = @ \cup {d.id}]
    BY <1>0, <1>1, <1>2, <1>3, <2>1, <2>3
  <2>4. CASE /\ t # s /\ stored' = [stored EXCEPT ![s] = next]
             /\ gone' = [gone EXCEPT ![s] = @ \cup {d.id}]
    BY <1>0, <1>2, <2>1, <2>4
  <2> QED BY <1>4, <2>2, <2>3, <2>4
<1>12. GoneInv'
  BY <1>4, <1>11 DEF GoneInv, DeletedUnpinned
<1> QED BY <1>2, <1>8, <1>9, <1>10, <1>11, <1>12 DEF PinsInv

LEMMA PinsStep ==
    ASSUME PinsInv, tabs \in Nat, Next
    PROVE  PinsInv'
<1>1. CASE PageNext
  BY <1>1, PageStep, PinStep, ArriveStep DEF PageNext
<1>2. CASE CreateNext
  BY <1>2, CreateStep
<1>3. CASE DeleteNext
  BY <1>3, DialogStep, DeleteStep, AcknowledgeStep DEF DeleteNext
<1>4. CASE OtherNext
  BY <1>4, PinStep, CreateStep, DeleteStep DEF OtherNext, OtherTabs
<1> QED BY <1>1, <1>2, <1>3, <1>4 DEF Next

LEMMA PinsStarted ==
    ASSUME Init
    PROVE  PinsInv
<1>1. created = 0 /\ Known = Older /\ created \in 0..MaxCreates /\ 1 \in Known /\ mounts \in Nat
  BY PinsAssumption, KnownIds DEF Init, Known, Older
<1>2. live \in [Services -> SUBSET Known] /\ \A s \in Services : OneName(live[s])
  BY <1>1 DEF Init
<1>3. <<>> \in Pins(Known) /\ <<1>> \in Pins(Known)
  BY <1>1 DEF Pins, IsInjective
<1>4. stored \in [Services -> Pins(Known)] /\ pinnedIds \in Pins(Known)
  BY <1>3 DEF Init
<1>5. NoList \in Lists(Known) /\ NoFetch \in Fetches(Known)
  BY DEF NoList, NoFetch, Lists, Fetches
<1>6. /\ data \in [Services -> [Searches -> Lists(Known)]]
      /\ fetch \in [Services -> [Searches -> Fetches(Known)]]
  BY <1>5 DEF Init
<1>7. open \in BOOLEAN /\ service \in Services /\ search \in Searches
  BY PinsAssumption DEF Init
<1>8. dels \subseteq Deletions(Known) /\ gone \in [Services -> SUBSET Known]
  BY DEF Init
<1>9. create \in Creations
  BY DEF Init, NoCreate, Creations
<1>10. KnownInv
  BY <1>1, <1>2, <1>4, <1>6, <1>7, <1>8, <1>9 DEF KnownInv
<1>11. ConfirmInv /\ DelsInv
  BY DEF Init, ConfirmInv, DelsInv
<1>12. GoneInv
  BY <1>4 DEF Init, GoneInv, DeletedUnpinned
<1> QED BY <1>10, <1>11, <1>12 DEF PinsInv

LEMMA PinsStutter ==
    ASSUME UNCHANGED vars
    PROVE  /\ PinsInv => PinsInv'
           /\ UNCHANGED <<fetch, stored, live, data, tabs>>
<1>1. UNCHANGED <<fetch, stored, live, data, tabs>>
  BY DEF vars, server, queries
<1>2. ASSUME PinsInv PROVE PinsInv'
  <2>1. UNCHANGED <<live, created, stored, data, gone, dels, mounts, pinnedIds, open, service,
                    search, fetch, create, confirm>>
    BY DEF vars, server, page, pins, queries, requests
  <2> QED BY <1>2, <2>1, QuietStep DEF PinsInv, KnownInv
<1> QED BY <1>1, <1>2

\* How much was done in the other tab is counted.
LEMMA TabsCounted == Spec => [](tabs \in Nat)
<1>1. Init => tabs \in Nat
  BY DEF Init
<1>2. tabs \in Nat /\ [Next]_vars => (tabs \in Nat)'
  <2>1. [Next]_vars => tabs' = tabs \/ tabs' = tabs + 1
    <3>1. PageNext => tabs' = tabs
      BY DEF PageNext, togglePin, Mount, Unmount, handleSearchSubmit, handleRefreshBuckets,
             ServerLists, ListArrives, ListFails
    <3>2. CreateNext => tabs' = tabs
      BY DEF CreateNext, handleCreateBucket, ServerCreates, CreateSucceeds, CreateEnds,
             CreateFails
    <3>3. DeleteNext => tabs' = tabs
      BY DEF DeleteNext, openConfirmation, cancelConfirmation, handleDelete, ServerDeletes,
             DeleteSucceeds, DeleteEnds, DeleteFails
    <3>4. OtherNext => tabs' = tabs \/ tabs' = tabs + 1
      BY DEF OtherNext, OtherTab, OtherTabPrunes, OtherClientCreates, OtherClientDeletes
    <3> QED BY <3>1, <3>2, <3>3, <3>4, PinsStutter DEF Next
  <2> QED BY <2>1
<1> QED BY <1>1, <1>2, PTL DEF Spec

\* Pins could be read or they could not.
LEMMA ReadKnown == Spec => [](readFailed \in {TRUE, FALSE})
<1>1. Init => readFailed \in {TRUE, FALSE}
  BY DEF Init
<1>2. readFailed \in {TRUE, FALSE} /\ [Next]_vars => (readFailed \in {TRUE, FALSE})'
  <2>1. \A s, here, next, ids : updatePins(s, here, next, ids) =>
            readFailed' \in {FALSE, readFailed}
    BY DEF updatePins, pins
  <2>2. PageNext => readFailed' \in {TRUE, FALSE, readFailed}
    BY <2>1 DEF PageNext, togglePin, Mount, loadPins, Unmount, handleSearchSubmit,
           handleRefreshBuckets, ServerLists, ListArrives, reconcilePins, ListFails, pins
  <2>3. CreateNext => readFailed' = readFailed
    BY DEF CreateNext, handleCreateBucket, ServerCreates, CreateSucceeds, CreateEnds,
           CreateFails, pins
  <2>4. DeleteNext => readFailed' \in {FALSE, readFailed}
    BY <2>1 DEF DeleteNext, openConfirmation, cancelConfirmation, handleDelete, ServerDeletes,
           DeleteSucceeds, DeleteEnds, DeleteFails, pins
  <2>5. OtherNext => readFailed' = readFailed
    BY DEF OtherNext, OtherTab, OtherTabPrunes, OtherClientCreates, OtherClientDeletes, pins
  <2> QED BY <2>2, <2>3, <2>4, <2>5 DEF Next, vars, pins
<1> QED BY <1>1, <1>2, PTL DEF Spec

THEOREM PinsInvariant == Spec => []PinsInv
<1>1. Init => PinsInv
  BY PinsStarted
<1>2. PinsInv /\ tabs \in Nat /\ [Next]_vars => PinsInv'
  BY PinsStep, PinsStutter
<1> QED BY <1>1, <1>2, TabsCounted, PTL DEF Spec

\* Types; no bucket is pinned twice, and the dialog of a deletion is the one
\* of a card on the page.
THEOREM PinsTyped == Spec => []TypeOK
<1>1. PinsInv /\ readFailed \in {TRUE, FALSE} => TypeOK
  <2> SUFFICES ASSUME PinsInv, readFailed \in {TRUE, FALSE} PROVE TypeOK
    OBVIOUS
  <2>1. KnownInv /\ ConfirmInv /\ Known \subseteq Ids /\ "full" \in Searches
    BY KnownIds DEF PinsInv, KnownInv
  <2>2. confirm \in Ids \cup {0} /\ (confirm # 0 => open /\ confirm \in Cards)
    BY <2>1, CardsOfLists DEF ConfirmInv
  <2>3. /\ live \in [Services -> SUBSET Ids] /\ created \in 0..MaxCreates
        /\ \A s \in Services : OneName(live[s])
        /\ gone \in [Services -> SUBSET Ids]
    BY <2>1 DEF KnownInv
  <2>4. \A p \in Pins(Known) : p \in Seq(Ids) /\ IsInjective(p)
    BY <2>1 DEF Pins
  <2>5. /\ \A s \in Services : stored[s] \in Seq(Ids) /\ IsInjective(stored[s])
        /\ pinnedIds \in Seq(Ids) /\ IsInjective(pinnedIds)
    BY <2>1, <2>4 DEF KnownInv
  <2>6. ASSUME NEW s \in Services, NEW q \in Searches
        PROVE  /\ data[s][q].items \subseteq Ids
               /\ fetch[s][q].phase \in {"idle", "sent", "answered"}
    BY <2>1 DEF KnownInv, Lists, Fetches
  <2>7. /\ open \in BOOLEAN /\ service \in Services /\ search \in Searches
        /\ create.phase \in {"idle", "sent", "applied", "awaiting"}
    BY <2>1 DEF KnownInv, Creations
  <2>8. readFailed \in BOOLEAN
    OBVIOUS
  <2> QED BY <2>2, <2>3, <2>5, <2>6, <2>7, <2>8 DEF TypeOK
<1> QED BY <1>1, PinsInvariant, ReadKnown, PTL

\* Once an acknowledged deletion has taken the pin of its bucket from the storage,
\* nothing but a user who pins that bucket again, on a card that is still shown
\* here or in another tab, writes it back: no late or old listing, no pin of
\* another bucket, no other deletion and no visit of the page (updatePins reads
\* the storage at the time of the action).  If the storage refuses the write, the
\* pin is not taken and the statement says nothing of it.  And such a bucket does
\* not exist: the request is made by name, but the number looked up is that of
\* the bucket which the server deletes, or of one that is gone already.
THEOREM PinsOfDeleted ==
    Spec => [](DeletedUnpinned /\ \A s \in Services : gone[s] \cap live[s] = {})
<1>1. PinsInv => DeletedUnpinned /\ \A s \in Services : gone[s] \cap live[s] = {}
  BY DEF PinsInv, GoneInv
<1> QED BY <1>1, PinsInvariant, PTL

\* The whole list that is under way loses no pin.
LEMMA CoverStill ==
    ASSUME CoverInv,
           \A s \in Services : fetch'[s]["full"].phase = "answered" =>
               /\ fetch'[s]["full"] = fetch[s]["full"] /\ data'[s]["full"] = data[s]["full"]
               /\ ToSet(stored'[s]) \cap live'[s]
                    \subseteq (ToSet(stored[s]) \cup data[s]["full"].items) \cap live[s]
                  \/ (MaxCreates = 0 /\ ToSet(stored'[s]) \cap live'[s] \subseteq live[s])
               /\ data[s]["full"].items \cap live'[s] \subseteq live[s]
               /\ MaxCreates = 0 => live'[s] \subseteq live[s]
    PROVE  CoverInv'
<1> SUFFICES ASSUME NEW s \in Services, fetch'[s]["full"].phase = "answered"
             PROVE  LET items == fetch'[s]["full"].answer.items
                    IN /\ ToSet(stored'[s]) \cap live'[s] \subseteq items
                       /\ data'[s]["full"].items \cap live'[s] \subseteq items
                       /\ MaxCreates = 0 => live'[s] \subseteq items
  BY DEF CoverInv
<1> QED BY DEF CoverInv

LEMMA CoverStep ==
    ASSUME PinsInv, CoverInv, tabs \in Nat, [Next]_vars,
           MaxCreates = 0 \/ (Searches = {"full"} /\ MaxTabs = 0)
    PROVE  CoverInv'
<1>0. /\ KnownInv /\ "full" \in Searches /\ created \in 0..MaxCreates /\ MaxCreates \in Nat
      /\ fetch \in [Services -> [Searches -> Fetches(Known)]]
      /\ data \in [Services -> [Searches -> Lists(Known)]]
      /\ stored \in [Services -> Pins(Known)] /\ service \in Services /\ search \in Searches
  BY PinsAssumption DEF PinsInv, KnownInv
<1>1. Sent.phase # "answered" /\ NoFetch.phase # "answered"
  BY DEF Sent, NoFetch
<1>2. ASSUME UNCHANGED <<stored, live, data>>,
             \A s \in Services : \/ fetch'[s]["full"] \in {fetch[s]["full"], Sent, NoFetch}
      PROVE  CoverInv'
  BY <1>1, <1>2, CoverStill
<1>3. ASSUME UNCHANGED <<stored, live, data>>, NEW s,
             (\E qs : fetch' = Observe(s, qs)) \/ fetch' = Invalidated(s) \/ fetch' = fetch
      PROVE  CoverInv'
  BY <1>0, <1>2, <1>3, Fetching
<1>4. CASE \/ \E s \in Services : Mount(s)
           \/ Unmount \/ handleRefreshBuckets
           \/ \E q \in Searches : handleSearchSubmit(q)
  <2>1. UNCHANGED <<stored, live, data>>
    BY <1>4 DEF Mount, Unmount, handleRefreshBuckets, handleSearchSubmit, server, queries
  <2>2. \E s : (\E qs : fetch' = Observe(s, qs)) \/ fetch' = Invalidated(s) \/ fetch' = fetch
    BY <1>4 DEF Mount, Unmount, handleRefreshBuckets, handleSearchSubmit, queries
  <2> QED BY <1>3, <2>1, <2>2
<1>5. ASSUME NEW s \in Services, NEW q \in Searches, ServerLists(s, q)
      PROVE  CoverInv'
  <2>1. /\ fetch' = [fetch EXCEPT ![s][q] = [phase |-> "answered", answer |-> Listed(s, q)]]
        /\ UNCHANGED <<stored, live, data>>
    BY <1>5 DEF ServerLists, server
  <2>2. CASE q = "full"
    <3>1. Listed(s, q).items = live[s]
      BY <2>2 DEF Listed
    <3>2. /\ fetch'[s]["full"].answer.items = live[s]
          /\ \A t \in Services \ {s} : fetch'[t]["full"] = fetch[t]["full"]
      BY <1>0, <2>1, <2>2, <3>1
    <3> QED BY <2>1, <3>2 DEF CoverInv
  <2>3. CASE q # "full"
    BY <1>0, <1>2, <2>1, <2>3
  <2> QED BY <2>2, <2>3
<1>6. ASSUME NEW s \in Services, NEW q \in Searches, ListFails(s, q)
      PROVE  CoverInv'
  <2>1. fetch' = [fetch EXCEPT ![s][q] = NoFetch] /\ UNCHANGED <<stored, live, data>>
    BY <1>6 DEF ListFails, server
  <2>2. \A t \in Services : fetch'[t]["full"] \in {fetch[t]["full"], Sent, NoFetch}
    BY <1>0, <2>1
  <2> QED BY <1>2, <2>1, <2>2
<1>7. ASSUME NEW s \in Services, NEW q \in Searches, ListArrives(s, q)
      PROVE  CoverInv'
  <2>1. /\ fetch' = [fetch EXCEPT ![s][q] = NoFetch] /\ live' = live
        /\ data' = [data EXCEPT ![s][q] = fetch[s][q].answer]
    BY <1>7 DEF ListArrives, server
  <2>2. ASSUME NEW t \in Services, fetch'[t]["full"].phase = "answered"
        PROVE  fetch'[t]["full"] = fetch[t]["full"] /\ data'[t]["full"] = data[t]["full"]
    <3>1. ~(t = s /\ q = "full")
      BY <1>0, <1>1, <2>1, <2>2
    <3> QED BY <1>0, <2>1, <3>1
  <2>3. \A t \in Services : ToSet(stored'[t]) \subseteq ToSet(stored[t])
    BY <1>7, ArriveStep
  <2> QED BY <2>1, <2>2, <2>3, CoverStill
<1>8. ASSUME NEW i \in Ids, togglePin(i)
      PROVE  CoverInv'
  <2> DEFINE next == Toggled(stored[service], i)
  <2>1. /\ i \in Cards /\ updatePins(service, TRUE, next, gone[service] \ {i})
        /\ UNCHANGED <<live, data>>
        /\ fetch' = Observe(service, {"full"}) \/ fetch' = fetch
    BY <1>8 DEF togglePin, server
  <2>2. i \in Known /\ (search = "full" => i \in data[service]["full"].items)
    BY <1>0, <2>1, CardsOfLists
  <2>3. next \in Pins(Known) /\ ToSet(next) \subseteq ToSet(stored[service]) \cup {i}
    BY <1>0, <2>2, ToggledPins
  <2> HIDE DEF next
  <2>4. stored' = [stored EXCEPT ![service] = next] \/ stored' = stored
    <3> DEFINE ids == gone[service] \ {i}
    <3>1. ids \in SUBSET Known /\ updatePins(service, TRUE, next, ids)
      BY <1>0, <2>1 DEF KnownInv
    <3> HIDE DEF ids
    <3> QED BY <1>0, <2>3, <3>1, PinsUpdated
  <2>5. ASSUME NEW t \in Services
        PROVE  \/ ToSet(stored'[t]) \subseteq ToSet(stored[t]) \cup data[t]["full"].items
               \/ MaxCreates = 0
    BY <1>0, <2>2, <2>3, <2>4
  <2>6. \A t \in Services : fetch'[t]["full"] \in {fetch[t]["full"], Sent}
    BY <1>0, <2>1, Fetching
  <2> QED BY <1>1, <2>1, <2>5, <2>6, CoverStill
<1>9. CASE OtherTabs
  <2>1. tabs < MaxTabs /\ UNCHANGED <<live, data, fetch>>
    BY <1>9 DEF OtherTabs, OtherTab, OtherTabPrunes, server, queries
  <2>2. MaxCreates = 0
    BY <2>1
  <2> QED BY <2>1, <2>2, CoverStill
<1>10. ASSUME NEW s, NEW i \in Ids, Creates(s, i), create' \in Creations,
              UNCHANGED <<stored, page, pins, data, fetch, confirm, dels, gone>>
       PROVE  CoverInv'
  <2>1. MaxCreates # 0
    BY <1>0, <1>10 DEF Creates
  <2>2. i \notin Known /\ \A t \in Services : live'[t] \subseteq live[t] \cup {i}
    BY <1>10, NumberGiven
  <2>3. ASSUME NEW t \in Services
        PROVE  i \notin ToSet(stored[t]) /\ i \notin data[t]["full"].items
    BY <1>0, <2>2 DEF Pins, ToSet, Lists
  <2> QED BY <1>10, <2>1, <2>2, <2>3, CoverStill
<1>11. CASE CreateNext \/ \E s \in Services, i \in Ids : OtherClientCreates(s, i)
  <2>1. \/ /\ UNCHANGED <<stored, live, data>>
           /\ \E s : fetch' = Invalidated(s) \/ fetch' = fetch
        \/ \E i \in Ids : \E s :
              /\ Creates(s, i) /\ create' \in Creations
              /\ UNCHANGED <<stored, page, pins, data, fetch, confirm, dels, gone>>
    <3>1. create \in Creations
      BY <1>0 DEF KnownInv
    <3>2. ASSUME NEW i \in Ids, ServerCreates(i)
          PROVE  \E s : /\ Creates(s, i) /\ create' \in Creations
                        /\ UNCHANGED <<stored, page, pins, data, fetch, confirm, dels,
                                       gone>>
      <4>1. create' \in Creations
        BY <3>1, <3>2 DEF ServerCreates, Creations
      <4> QED BY <3>2, <4>1 DEF ServerCreates, queries
    <3>3. ASSUME NEW s \in Services, NEW i \in Ids, OtherClientCreates(s, i)
          PROVE  /\ Creates(s, i) /\ create' \in Creations
                 /\ UNCHANGED <<stored, page, pins, data, fetch, confirm, dels, gone>>
      BY <3>1, <3>3 DEF OtherClientCreates, queries, requests
    <3>4. CASE (\E n \in Names : handleCreateBucket(n)) \/ CreateSucceeds \/ CreateEnds
               \/ CreateFails
      BY <3>4 DEF handleCreateBucket, CreateSucceeds, CreateEnds, CreateFails, server, queries
    <3> QED BY <1>11, <3>2, <3>3, <3>4 DEF CreateNext
  <2> QED BY <1>3, <1>10, <2>1
<1>12. CASE (\E i \in Ids : openConfirmation(i)) \/ cancelConfirmation \/ handleDelete
            \/ UNCHANGED vars
  <2>1. UNCHANGED <<stored, live, data, fetch>>
    BY <1>12, PinsStutter
       DEF openConfirmation, cancelConfirmation, handleDelete, server, queries
  <2> QED BY <1>2, <2>1
<1>13. CASE \/ \E d \in dels : ServerDeletes(d) \/ DeleteEnds(d) \/ DeleteFails(d)
            \/ \E s \in Services, i \in Ids : OtherClientDeletes(s, i)
  <2>1. stored' = stored /\ fetch' = fetch /\ data' = data
        /\ (\A s \in Services : live'[s] \subseteq live[s])
    BY <1>13, DeleteStep
  <2> QED BY <2>1, CoverStill
<1>14. ASSUME NEW d \in dels, DeleteSucceeds(d)
       PROVE  CoverInv'
  <2>1. /\ UNCHANGED <<live, data>> /\ fetch' = Invalidated(d.service)
        /\ \A s \in Services : ToSet(stored'[s]) \subseteq ToSet(stored[s])
    BY <1>14, AcknowledgeStep
  <2>2. \A t \in Services : fetch'[t]["full"] \in {fetch[t]["full"], Sent}
    BY <1>0, <2>1, Fetching
  <2> QED BY <1>1, <2>1, <2>2, CoverStill
<1>15. PageNext => CoverInv'
  BY <1>4, <1>5, <1>6, <1>7, <1>8 DEF PageNext
<1>16. DeleteNext => CoverInv'
  BY <1>12, <1>13, <1>14 DEF DeleteNext
<1>17. OtherNext => CoverInv'
  BY <1>9, <1>11, <1>13 DEF OtherNext, OtherTabs
<1> QED BY <1>11, <1>12, <1>15, <1>16, <1>17 DEF Next

\* Every step keeps the pins of the buckets that exist, but for the user's own.
LEMMA KeepsPins ==
    ASSUME PinsInv, CoverInv, tabs \in Nat, Next
    PROVE  \A s \in DOMAIN stored : \A i \in ToSet(stored[s]) \ ToSet(stored'[s]) :
              \/ i \notin live[s]
              \/ tabs' # tabs
              \/ s = service /\ togglePin(i)
<1> SUFFICES ASSUME NEW s \in Services, NEW i \in ToSet(stored[s]) \ ToSet(stored'[s])
             PROVE  \/ i \notin live[s]
                    \/ tabs' # tabs
                    \/ s = service /\ togglePin(i)
  BY DEF PinsInv, KnownInv
<1>1. CASE (\E j \in Ids : togglePin(j)) \/ OtherTabs
  BY <1>1, PinStep
<1>2. ASSUME NEW t \in Services, NEW q \in Searches, ListArrives(t, q)
      PROVE  i \notin live[s]
  BY <1>2, ArriveStep DEF CoverInv
<1>3. ASSUME NEW d \in dels, DeleteSucceeds(d)
      PROVE  i \notin live[s]
  BY <1>3, AcknowledgeStep
<1>4. stored' # stored
  OBVIOUS
<1>5. PageNext => \/ \E j \in Ids : togglePin(j)
                  \/ \E t \in Services, q \in Searches : ListArrives(t, q)
  BY <1>4 DEF PageNext, Mount, Unmount, handleSearchSubmit, handleRefreshBuckets, ServerLists,
              ListFails
<1>6. ~CreateNext
  BY <1>4 DEF CreateNext, handleCreateBucket, ServerCreates, CreateSucceeds, CreateEnds,
              CreateFails
<1>7. DeleteNext => \E d \in dels : DeleteSucceeds(d)
  BY <1>4 DEF DeleteNext, openConfirmation, cancelConfirmation, handleDelete, ServerDeletes,
              DeleteEnds, DeleteFails
<1>8. OtherNext => OtherTabs
  BY <1>4 DEF OtherNext, OtherTabs, OtherClientCreates, OtherClientDeletes
<1> QED BY <1>1, <1>2, <1>3, <1>5, <1>6, <1>7, <1>8 DEF Next

\* The pin of a bucket that exists is removed by its user only: if no bucket is
\* created while the page is in use, or if there is neither a search nor
\* another tab.  (Otherwise a bucket that was created after the server had
\* answered the whole list can be pinned from the result of a search, or in the
\* other tab, before that list arrives and drops the pin: reconcilePins.)
THEOREM PinsOfExistingKept ==
    Spec /\ (MaxCreates = 0 \/ (Searches = {"full"} /\ MaxTabs = 0)) => PinsKept
<1> SUFFICES ASSUME MaxCreates = 0 \/ (Searches = {"full"} /\ MaxTabs = 0)
             PROVE  Spec => PinsKept
  OBVIOUS
<1>1. Init => CoverInv
  <2> SUFFICES ASSUME Init, NEW s \in Services PROVE fetch[s]["full"].phase # "answered"
    BY DEF CoverInv
  <2> QED BY PinsAssumption DEF Init, NoFetch
<1>2. PinsInv /\ CoverInv /\ tabs \in Nat /\ [Next]_vars => CoverInv'
  BY CoverStep
<1>3. Spec => []CoverInv
  BY <1>1, <1>2, PinsInvariant, TabsCounted, PTL DEF Spec
<1>4. PinsInv /\ CoverInv /\ tabs \in Nat /\ [Next]_vars =>
        [\A s \in DOMAIN stored : \A i \in ToSet(stored[s]) \ ToSet(stored'[s]) :
            \/ i \notin live[s]
            \/ tabs' # tabs
            \/ s = service /\ togglePin(i)]_vars
  BY KeepsPins
<1> QED BY <1>3, <1>4, PinsInvariant, TabsCounted, PTL DEF Spec, PinsKept

-----------------------------------------------------------------------------
(* The pins on the screen                                                  *)

\* What is kept of the pins, in their order.
Drops(ids, kept) == kept = ids \/ kept = Kept(ids, ToSet(kept))

\* On the screen, but no more in the storage.
Unpinned == ToSet(pinnedIds) \ ToSet(stored[service])

\* A list that a fetch brings was given by the server.
WholeKnown ==
    \A s \in Services :
        /\ fetch[s]["full"].phase = "answered" => fetch[s]["full"].answer.known
        /\ data[s]["full"].known \/ data[s]["full"].items = {}

\* A deletion was sent by this visit or an earlier one, which showed the list.
DelsHere ==
    \A d \in dels :
        /\ data[d.service]["full"].known
        /\ d.mount <= mounts
        /\ d.mount = mounts => d.service = service

\* A pin that is on the screen only is of a bucket whose deletion an earlier
\* visit had acknowledged since the page was opened; the whole list that was
\* asked for then does not have it.
ScreenInv ==
    open /\ tabs = 0 /\ ~readFailed =>
        /\ Drops(pinnedIds, stored[service])
        /\ \A i \in Unpinned :
              /\ i \in gone[service]
              /\ fetch[service]["full"].phase = "answered" =>
                     i \notin fetch[service]["full"].answer.items
              /\ fetch[service]["full"].phase = "idle" /\ service \notin failing =>
                     i \notin data[service]["full"].items

ShownInv == WholeKnown /\ DelsHere /\ ScreenInv

LEMMA DropsMore ==
    ASSUME NEW ids, NEW p \in Pins(ids), NEW q \in Pins(ids), Drops(p, q), NEW set
    PROVE  Drops(p, Kept(q, set))
<1>1. p \in Seq(ids) /\ q \in Seq(ids)
  BY DEF Pins
<1>2. ToSet(Kept(q, set)) = ToSet(q) \cap set
  BY KeptPins
<1>3. CASE q = p
  <2>1. \A x \in ToSet(p) : x \in set <=> x \in ToSet(p) \cap set
    OBVIOUS
  <2>2. Kept(p, set) = Kept(p, ToSet(p) \cap set)
    BY <1>1, <2>1, KeptSame
  <2> QED BY <1>2, <1>3, <2>2 DEF Drops
<1>4. CASE q = Kept(p, ToSet(q))
  <2>1. Kept(Kept(p, ToSet(q)), set) = Kept(p, ToSet(q) \cap set)
    BY <1>1, KeptKept
  <2> QED BY <1>2, <1>4, <2>1 DEF Drops
<1> QED BY <1>3, <1>4 DEF Drops

LEMMA DropsShown ==
    ASSUME NEW ids, NEW p \in Pins(ids), NEW q \in Pins(ids), Drops(p, q), NEW set,
           ToSet(p) \cap set \subseteq ToSet(q)
    PROVE  Kept(p, set) = Kept(q, set)
<1>1. p \in Seq(ids)
  BY DEF Pins
<1>2. CASE q = Kept(p, ToSet(q))
  <2>1. Kept(Kept(p, ToSet(q)), set) = Kept(p, ToSet(q) \cap set)
    BY <1>1, KeptKept
  <2>2. \A x \in ToSet(p) : x \in set <=> x \in ToSet(q) \cap set
    OBVIOUS
  <2>3. Kept(p, set) = Kept(p, ToSet(q) \cap set)
    BY <1>1, <2>2, KeptSame
  <2> QED BY <1>2, <2>1, <2>3
<1> QED BY <1>2 DEF Drops

LEMMA ToggledChanges ==
    ASSUME NEW ids, NEW p \in Pins(ids), NEW i \in ids
    PROVE  Toggled(p, i) # p
<1>1. CASE i \in ToSet(p)
  BY <1>1, WithoutPins DEF Toggled
<1>2. CASE i \notin ToSet(p)
  <2>1. Len(Append(p, i)) # Len(p)
    BY DEF Pins
  <2> QED BY <1>2, <2>1 DEF Toggled
<1> QED BY <1>1, <1>2

\* The page takes over the pins that it reads and writes.
LEMMA ScreenWritten ==
    ASSUME stored'[service'] = pinnedIds' \/ readFailed'
    PROVE  ScreenInv'
  BY DEF ScreenInv, Unpinned, Drops

\* Steps that leave the pins and the lists alone.
LEMMA ShownStill ==
    ASSUME PinsInv, ShownInv, UNCHANGED <<stored, data, service, failing, mounts>>,
           open' => open /\ UNCHANGED pins, tabs' = 0 => tabs = 0,
           \A s \in Services : /\ gone[s] \subseteq gone'[s]
                               /\ fetch'[s]["full"] \in {fetch[s]["full"], Sent},
           \A e \in dels' : \E d \in dels : e.service = d.service /\ e.mount = d.mount
    PROVE  ShownInv'
<1>0. service \in Services
  BY DEF PinsInv, KnownInv
<1>1. WholeKnown'
  BY DEF ShownInv, WholeKnown, Sent
<1>2. DelsHere'
  BY DEF ShownInv, DelsHere
<1>3. ScreenInv'
  <2> SUFFICES ASSUME open', tabs' = 0, ~readFailed'
               PROVE  /\ Drops(pinnedIds', stored'[service'])
                      /\ \A i \in Unpinned' :
                            /\ i \in gone'[service']
                            /\ fetch'[service']["full"].phase = "answered" =>
                                   i \notin fetch'[service']["full"].answer.items
                            /\ fetch'[service']["full"].phase = "idle" /\ service' \notin failing' =>
                                   i \notin data'[service']["full"].items
    BY DEF ScreenInv
  <2>0. open /\ tabs = 0 /\ ~readFailed /\ pinnedIds' = pinnedIds
    BY DEF pins
  <2>1. /\ Drops(pinnedIds, stored[service]) /\ Unpinned' = Unpinned
        /\ fetch'[service]["full"] \in {fetch[service]["full"], Sent}
    BY <1>0, <2>0 DEF ShownInv, ScreenInv, Unpinned
  <2>2. Sent.phase = "sent"
    BY DEF Sent
  <2> QED BY <1>0, <2>0, <2>1, <2>2 DEF ShownInv, ScreenInv
<1> QED BY <1>1, <1>2, <1>3 DEF ShownInv

\* The page is opened with the pins of the storage.
LEMMA ShownOpened ==
    ASSUME PinsInv, ShownInv, NEW s \in Services, Mount(s)
    PROVE  ShownInv'
<1>1. /\ service' = s /\ (pinnedIds' = stored[s] \/ readFailed') /\ mounts' = mounts + 1
      /\ fetch' = Observe(s, {"full"}) /\ UNCHANGED <<stored, data, dels>>
  BY DEF Mount, loadPins, requests
<1>2. KnownInv /\ mounts \in Nat /\ dels \subseteq Deletions(Known) /\ "full" \in Searches
  BY PinsAssumption DEF PinsInv, KnownInv
<1>3. \A t \in Services : fetch'[t]["full"] \in {fetch[t]["full"], Sent}
  BY <1>1, <1>2, Fetching
<1>4. WholeKnown'
  BY <1>1, <1>3 DEF ShownInv, WholeKnown, Sent
<1>5. DelsHere'
  <2>1. \A d \in dels : d.mount \in Nat /\ d.mount <= mounts /\ data[d.service]["full"].known
    BY <1>2 DEF ShownInv, DelsHere, Deletions
  <2>2. \A d \in dels : d.mount <= mounts + 1 /\ d.mount # mounts + 1
    BY <1>2, <2>1
  <2> QED BY <1>1, <2>1, <2>2 DEF DelsHere
<1>6. ScreenInv'
  BY <1>1, ScreenWritten
<1> QED BY <1>4, <1>5, <1>6 DEF ShownInv

\* The whole list is the only one: the server answers, and the answer arrives
\* or is lost.
LEMMA ShownAnswered ==
    ASSUME PinsInv, ShownInv, NEW s \in Services, ServerLists(s, "full")
    PROVE  ShownInv'
<1>0. /\ fetch \in [Services -> [Searches -> Fetches(Known)]] /\ "full" \in Searches
      /\ service \in Services
  BY PinsAssumption DEF PinsInv, KnownInv
<1>1. /\ fetch' = [fetch EXCEPT ![s]["full"] = [phase |-> "answered", answer |-> Listed(s, "full")]]
      /\ UNCHANGED <<stored, tabs, open, mounts, service, pins, data, failing, dels, gone>>
  BY DEF ServerLists, page, requests
<1>2. Listed(s, "full").known /\ Listed(s, "full").items = live[s]
  BY DEF Listed
<1>3. /\ fetch'[s]["full"].phase = "answered" /\ fetch'[s]["full"].answer.known
      /\ fetch'[s]["full"].answer.items = live[s]
      /\ \A t \in Services \ {s} : fetch'[t]["full"] = fetch[t]["full"]
  BY <1>0, <1>1, <1>2
<1>4. WholeKnown'
  BY <1>1, <1>3 DEF ShownInv, WholeKnown
<1>5. DelsHere'
  BY <1>1 DEF ShownInv, DelsHere
<1>6. gone[s] \cap live[s] = {}
  BY DEF PinsInv, GoneInv
<1>7. Unpinned' = Unpinned /\ readFailed' = readFailed /\ pinnedIds' = pinnedIds
  BY <1>1 DEF Unpinned, pins
<1>8. ScreenInv'
  BY <1>0, <1>1, <1>3, <1>6, <1>7 DEF ShownInv, ScreenInv
<1> QED BY <1>4, <1>5, <1>8 DEF ShownInv

LEMMA ShownFails ==
    ASSUME PinsInv, ShownInv, NEW s \in Services, ListFails(s, "full")
    PROVE  ShownInv'
<1>0. /\ fetch \in [Services -> [Searches -> Fetches(Known)]] /\ "full" \in Searches
      /\ service \in Services
  BY PinsAssumption DEF PinsInv, KnownInv
<1>1. /\ fetch' = [fetch EXCEPT ![s]["full"] = NoFetch] /\ failing' = failing \cup {s}
      /\ UNCHANGED <<stored, tabs, open, mounts, service, pins, data, dels, gone>>
  BY DEF ListFails, page, requests
<1>2. /\ fetch'[s]["full"].phase = "idle"
      /\ \A t \in Services \ {s} : fetch'[t]["full"] = fetch[t]["full"]
  BY <1>0, <1>1 DEF NoFetch
<1>3. WholeKnown'
  BY <1>1, <1>2 DEF ShownInv, WholeKnown
<1>4. DelsHere'
  BY <1>1 DEF ShownInv, DelsHere
<1>5. Unpinned' = Unpinned /\ readFailed' = readFailed /\ pinnedIds' = pinnedIds
  BY <1>1 DEF Unpinned, pins
<1>6. ScreenInv'
  BY <1>0, <1>1, <1>2, <1>5 DEF ShownInv, ScreenInv
<1> QED BY <1>3, <1>4, <1>6 DEF ShownInv

LEMMA ShownArrives ==
    ASSUME PinsInv, ShownInv, NEW s \in Services, ListArrives(s, "full")
    PROVE  ShownInv'
<1> DEFINE items == fetch[s]["full"].answer.items
           next == Kept(stored[service], items)
<1>0. /\ fetch \in [Services -> [Searches -> Fetches(Known)]] /\ "full" \in Searches
      /\ data \in [Services -> [Searches -> Lists(Known)]]
      /\ service \in Services /\ stored \in [Services -> Pins(Known)]
      /\ dels \subseteq Deletions(Known)
  BY PinsAssumption DEF PinsInv, KnownInv
<1>1. /\ fetch[s]["full"].phase = "answered"
      /\ data' = [data EXCEPT ![s]["full"] = fetch[s]["full"].answer]
      /\ fetch' = [fetch EXCEPT ![s]["full"] = NoFetch]
      /\ failing' = failing \ {s}
      /\ UNCHANGED <<tabs, open, mounts, service, dels>>
  BY DEF ListArrives, page
<1>2. /\ fetch'[s]["full"].phase = "idle" /\ data'[s]["full"] = fetch[s]["full"].answer
      /\ fetch[s]["full"].answer.known
      /\ \A t \in Services \ {s} : /\ fetch'[t]["full"] = fetch[t]["full"]
                                   /\ data'[t]["full"] = data[t]["full"]
  BY <1>0, <1>1 DEF NoFetch, ShownInv, WholeKnown
<1>3. WholeKnown'
  BY <1>2 DEF ShownInv, WholeKnown
<1>4. DelsHere'
  <2>1. \A d \in dels : d.service \in Services
    BY <1>0 DEF Deletions
  <2> QED BY <1>1, <1>2, <2>1 DEF ShownInv, DelsHere
<1>5. CASE UNCHANGED <<stored, pins, gone>>
  <2>1. Unpinned' = Unpinned /\ readFailed' = readFailed /\ pinnedIds' = pinnedIds
    BY <1>1, <1>5 DEF Unpinned, pins
  <2>2. ScreenInv'
    BY <1>0, <1>1, <1>2, <1>5, <2>1 DEF ShownInv, ScreenInv
  <2> QED BY <1>3, <1>4, <2>2 DEF ShownInv
<1>6. CASE s = service /\ stored' = [stored EXCEPT ![service] = next] /\ pinnedIds' = next
  <2> HIDE DEF next
  <2>1. stored'[service'] = pinnedIds'
    BY <1>0, <1>1, <1>6
  <2> QED BY <1>3, <1>4, <2>1, ScreenWritten DEF ShownInv
<1>7. \/ UNCHANGED <<stored, pins, gone>>
      \/ s = service /\ stored' = [stored EXCEPT ![service] = next] /\ pinnedIds' = next
  <2>1. [gone EXCEPT ![service] = gone[service]] = gone
    BY <1>0 DEF PinsInv, KnownInv
  <2> QED BY <2>1 DEF ListArrives, reconcilePins, updatePins
<1> QED BY <1>5, <1>6, <1>7

\* The user pins and unpins, here or in the other tab.
LEMMA ShownToggled ==
    ASSUME PinsInv, ShownInv, tabs \in Nat,
           (\E i \in Ids : togglePin(i)) \/ OtherTabs
    PROVE  ShownInv'
<1>0. /\ KnownInv /\ service \in Services /\ stored \in [Services -> Pins(Known)]
      /\ "full" \in Searches
  BY PinsAssumption DEF PinsInv, KnownInv
<1>1. ASSUME NEW i \in Ids, togglePin(i)
      PROVE  ShownInv'
  <2> DEFINE next == Toggled(stored[service], i)
  <2>1. /\ i \in Cards /\ updatePins(service, TRUE, next, gone[service] \ {i})
        /\ fetch' = Observe(service, {"full"}) \/ fetch' = fetch
        /\ UNCHANGED <<tabs, open, mounts, service, data, failing, dels>>
    BY <1>1 DEF togglePin, page, requests
  <2>2. i \in Known
    BY <1>0, <2>1, CardsOfLists
  <2>3. next # stored[service]
    BY <1>0, <2>2, ToggledChanges
  <2> HIDE DEF next
  <2>4. \A t \in Services : fetch'[t]["full"] \in {fetch[t]["full"], Sent}
    BY <1>0, <2>1, Fetching
  <2>5. CASE UNCHANGED <<stored, pins, gone>>
    BY <2>1, <2>4, <2>5, ShownStill
  <2>6. CASE stored' = [stored EXCEPT ![service] = next] /\ pinnedIds' = next
    <3>1. stored'[service'] = pinnedIds'
      BY <1>0, <2>1, <2>6
    <3>2. WholeKnown' /\ DelsHere'
      BY <2>1, <2>4 DEF ShownInv, WholeKnown, DelsHere, Sent
    <3> QED BY <3>1, <3>2, ScreenWritten DEF ShownInv
  <2> QED BY <2>1, <2>3, <2>5, <2>6 DEF updatePins
<1>2. CASE OtherTabs
  <2>1. tabs' = tabs + 1 /\ UNCHANGED <<mounts, service, data, fetch, dels>>
    BY <1>2 DEF OtherTabs, OtherTab, OtherTabPrunes, page, queries, requests
  <2>2. WholeKnown' /\ DelsHere'
    BY <2>1 DEF ShownInv, WholeKnown, DelsHere
  <2>3. ScreenInv'
    BY <2>1 DEF ScreenInv
  <2> QED BY <2>2, <2>3 DEF ShownInv
<1> QED BY <1>1, <1>2

\* A deletion is sent from a card, which the list showed.
LEMMA ShownRequested ==
    ASSUME Searches = {"full"}, PinsInv, ShownInv, handleDelete
    PROVE  ShownInv'
<1> DEFINE new == [phase |-> "sent", name |-> NameOf[confirm],
                   id |-> NumberOf(NameOf[confirm]), service |-> service, mount |-> mounts]
<1>1. /\ confirm # 0 /\ dels' = dels \cup {new}
      /\ UNCHANGED <<stored, tabs, open, mounts, service, pins, data, fetch, failing, gone>>
  BY DEF handleDelete, page, queries
<1>2. KnownInv /\ mounts \in Nat /\ service \in Services /\ search = "full"
  BY DEF PinsInv, KnownInv
<1>3. data[service]["full"].known
  <2>1. confirm \in data[service]["full"].items
    BY <1>1, <1>2, CardsOfLists DEF PinsInv, ConfirmInv
  <2> QED BY <1>2, <2>1 DEF ShownInv, WholeKnown
<1>4. new.service = service /\ new.mount = mounts
  OBVIOUS
<1> HIDE DEF new
<1>5. DelsHere'
  BY <1>1, <1>2, <1>3, <1>4 DEF ShownInv, DelsHere
<1>6. WholeKnown' /\ ScreenInv'
  BY <1>1 DEF ShownInv, WholeKnown, ScreenInv, Unpinned, pins
<1> QED BY <1>5, <1>6 DEF ShownInv

\* An acknowledgement that comes after the page was left and opened again
\* leaves the pin on the screen, and has the whole list fetched again.
LEMMA ShownAcknowledged ==
    ASSUME Searches = {"full"}, PinsInv, ShownInv, NEW d \in dels, DeleteSucceeds(d)
    PROVE  ShownInv'
<1> DEFINE s == d.service
           next == Without(stored[s], d.id)
           new == [d EXCEPT !.phase = "awaiting"]
<1>0. /\ KnownInv /\ dels \subseteq Deletions(Known) /\ gone \in [Services -> SUBSET Known]
      /\ stored \in [Services -> Pins(Known)] /\ pinnedIds \in Pins(Known)
      /\ service \in Services /\ search = "full" /\ "full" \in Searches
      /\ fetch \in [Services -> [Searches -> Fetches(Known)]]
  BY DEF PinsInv, KnownInv
<1>1. d \in Deletions(Known) /\ s \in Services /\ data[s]["full"].known
  BY <1>0 DEF Deletions, ShownInv, DelsHere
<1>2. /\ updatePins(s, open /\ d.mount = mounts, next, gone[s] \cup {d.id})
      /\ fetch' = Invalidated(s)
      /\ dels' = (dels \ {d}) \cup {new}
      /\ UNCHANGED <<tabs, open, mounts, service, data, failing>>
  BY DEF DeleteSucceeds, page
<1>3. new.service = s /\ new.mount = d.mount
  BY <1>1 DEF Deletions
<1>4. next \in Pins(Known) /\ ToSet(next) = ToSet(stored[s]) \ {d.id}
  BY <1>0, <1>1, WithoutPins
<1>5. open /\ tabs = 0 /\ ~readFailed /\ s = service => Drops(pinnedIds, next)
  BY <1>0, <1>1, DropsMore DEF Without, ShownInv, ScreenInv
<1> HIDE DEF next, new
<1>6. /\ \A t \in Services : fetch'[t]["full"] \in {fetch[t]["full"], Sent}
      /\ open /\ s = service => fetch'[s]["full"] = Sent
  <2>1. open /\ s = service => fetch'[s]["full"] = Sent
    BY <1>0, <1>1, <1>2 DEF Invalidated, Observed
  <2> QED BY <1>0, <1>2, <2>1, Fetching
<1>7. WholeKnown'
  BY <1>2, <1>6 DEF ShownInv, WholeKnown, Sent
<1>8. DelsHere'
  BY <1>2, <1>3 DEF ShownInv, DelsHere
<1>9. CASE UNCHANGED <<stored, pins, gone>>
  <2>1. \A e \in dels' : \E c \in dels : e.service = c.service /\ e.mount = c.mount
    BY <1>2, <1>3
  <2> QED BY <1>2, <1>6, <1>9, <2>1, ShownStill
<1>10. CASE /\ gone' = [gone EXCEPT ![s] = gone[s] \cup {d.id}]
            /\ stored' = [stored EXCEPT ![s] = next]
            /\ \/ UNCHANGED pins
               \/ pinnedIds' = next /\ d.mount = mounts
  <2>1. CASE pinnedIds' = next /\ d.mount = mounts
    <3>1. s = service
      BY <2>1 DEF ShownInv, DelsHere
    <3>2. stored'[service'] = pinnedIds'
      BY <1>0, <1>2, <1>10, <2>1, <3>1
    <3> QED BY <1>7, <1>8, <3>2, ScreenWritten DEF ShownInv
  <2>2. CASE UNCHANGED pins
    <3> SUFFICES ASSUME open, tabs = 0, ~readFailed PROVE ScreenInv'
      BY <1>2, <1>7, <1>8, <2>2 DEF ScreenInv, ShownInv, pins
    <3>0. pinnedIds' = pinnedIds
      BY <2>2 DEF pins
    <3>1. CASE s # service
      <4>1. stored'[service] = stored[service] /\ gone'[service] = gone[service]
        BY <1>0, <1>10, <3>1
      <4>2. Unpinned' = Unpinned
        BY <1>2, <3>0, <4>1 DEF Unpinned
      <4> QED BY <1>0, <1>2, <1>6, <3>0, <4>1, <4>2 DEF ShownInv, ScreenInv, Sent
    <3>2. CASE s = service
      <4>1. fetch'[service]["full"].phase = "sent"
        BY <1>6, <3>2 DEF Sent
      <4>2. stored'[service] = next
        BY <1>0, <1>10, <3>2
      <4>3. Drops(pinnedIds', stored'[service])
        BY <1>5, <3>0, <3>2, <4>2
      <4>4. Unpinned' \subseteq Unpinned \cup {d.id}
        BY <1>2, <1>4, <3>0, <3>2, <4>2 DEF Unpinned
      <4>5. gone'[service] = gone[service] \cup {d.id}
        BY <1>0, <1>10, <3>2
      <4>6. \A i \in Unpinned' : i \in gone'[service]
        BY <4>4, <4>5 DEF ShownInv, ScreenInv
      <4> QED BY <1>2, <4>1, <4>3, <4>6 DEF ScreenInv
    <3> QED BY <3>1, <3>2
  <2> QED BY <1>10, <2>1, <2>2
<1>11. \/ UNCHANGED <<stored, pins, gone>>
       \/ /\ gone' = [gone EXCEPT ![s] = gone[s] \cup {d.id}]
          /\ stored' = [stored EXCEPT ![s] = next]
          /\ \/ UNCHANGED pins
             \/ pinnedIds' = next /\ d.mount = mounts
  <2>1. next = stored[s] => [stored EXCEPT ![s] = next] = stored
    BY <1>0, <1>1
  <2> QED BY <1>2, <2>1 DEF updatePins
<1> QED BY <1>9, <1>10, <1>11

LEMMA ShownStep ==
    ASSUME Searches = {"full"}, PinsInv, ShownInv, tabs \in Nat, [Next]_vars
    PROVE  ShownInv'
<1>0. KnownInv /\ service \in Services /\ search = "full"
  BY DEF PinsInv, KnownInv
<1>1. ASSUME \E s : fetch' = Invalidated(s) \/ fetch' = fetch,
             UNCHANGED <<stored, data, service, failing, mounts, tabs, gone>>,
             open' => open /\ UNCHANGED pins,
             \A e \in dels' : \E d \in dels : e.service = d.service /\ e.mount = d.mount
      PROVE  ShownInv'
  <2>1. \A t \in Services : fetch'[t]["full"] \in {fetch[t]["full"], Sent}
    BY <1>0, <1>1, Fetching, PinsAssumption
  <2> QED BY <1>1, <2>1, ShownStill
<1>2. CASE Unmount \/ handleRefreshBuckets \/ UNCHANGED vars
  BY <1>1, <1>2 DEF Unmount, handleRefreshBuckets, vars, server, page, queries, requests
<1>3. \A q \in Searches : ~handleSearchSubmit(q)
  BY <1>0 DEF handleSearchSubmit
<1>4. PageNext => ShownInv'
  BY <1>2, <1>3, ShownOpened, ShownToggled, ShownAnswered, ShownArrives, ShownFails DEF PageNext
<1>5. CreateNext => ShownInv'
  BY <1>1 DEF CreateNext, handleCreateBucket, ServerCreates, Creates, CreateSucceeds, CreateEnds,
              CreateFails, server, page, queries
<1>6. CASE (\E i \in Ids : openConfirmation(i)) \/ cancelConfirmation
  BY <1>1, <1>6 DEF openConfirmation, cancelConfirmation, server, page, queries
<1>7. ASSUME NEW d \in dels, ServerDeletes(d) \/ DeleteEnds(d) \/ DeleteFails(d)
      PROVE  ShownInv'
  <2>1. d \in Deletions(Known)
    BY DEF PinsInv, KnownInv
  <2>2. \A e \in dels' : \E c \in dels : e.service = c.service /\ e.mount = c.mount
    BY <1>7, <2>1 DEF ServerDeletes, DeleteEnds, DeleteFails, Deletions
  <2> QED BY <1>1, <1>7, <2>2 DEF ServerDeletes, DeleteEnds, DeleteFails, server, page, queries
<1>8. DeleteNext => ShownInv'
  BY <1>6, <1>7, ShownRequested, ShownAcknowledged DEF DeleteNext
<1>9. ASSUME NEW s \in Services, NEW i \in Ids, OtherClientCreates(s, i) \/ OtherClientDeletes(s, i)
      PROVE  ShownInv'
  BY <1>1, <1>9 DEF OtherClientCreates, OtherClientDeletes, page, queries, requests
<1>10. OtherNext => ShownInv'
  BY <1>9, ShownToggled DEF OtherNext, OtherTabs
<1> QED BY <1>2, <1>4, <1>5, <1>8, <1>10 DEF Next

LEMMA ShownStarted ==
    ASSUME Init
    PROVE  ShownInv
<1>1. \A s \in Services : /\ fetch[s]["full"].phase = "idle"
                          /\ data[s]["full"].items = {}
  BY PinsAssumption DEF Init, NoFetch, NoList
<1>2. ~open /\ dels = {}
  BY DEF Init
<1> QED BY <1>1, <1>2 DEF ShownInv, WholeKnown, DelsHere, ScreenInv

\* At rest the pins on the screen are the stored ones, in their order, while no
\* other tab changes them and if they could be read: for any services, buckets
\* and requests that outlive the page that sent them, when the whole list is the
\* only one that is fetched.  An acknowledgement of an earlier visit does not change the pins of
\* the page (updatePins of usePinnedBuckets), but it has the whole list fetched
\* again, and no answer to that has the deleted bucket.  With a search, the
\* first fetch of the whole list can be sent before the deletion and be joined
\* by the one that follows it, so the hypothesis is needed.
THEOREM PinsOfServiceShown ==
    Searches = {"full"} /\ Spec => []PinsShown
<1> SUFFICES ASSUME Searches = {"full"} PROVE Spec => []PinsShown
  OBVIOUS
<1>1. Init => ShownInv
  BY ShownStarted
<1>2. PinsInv /\ ShownInv /\ tabs \in Nat /\ [Next]_vars => ShownInv'
  BY ShownStep
<1>3. PinsInv /\ ShownInv => PinsShown
  <2> SUFFICES ASSUME PinsInv, ShownInv, open, tabs = 0,
                      ~readFailed, fetch[service]["full"].phase = "idle", service \notin failing
               PROVE  pinnedBuckets = Kept(stored[service], fullBuckets.items)
    BY DEF PinsShown
  <2>1. pinnedIds \in Pins(Known) /\ stored[service] \in Pins(Known)
    BY DEF PinsInv, KnownInv
  <2>2. /\ Drops(pinnedIds, stored[service])
        /\ ToSet(pinnedIds) \cap fullBuckets.items \subseteq ToSet(stored[service])
    BY DEF ShownInv, ScreenInv, Unpinned, fullBuckets
  <2>3. Kept(pinnedIds, fullBuckets.items) = Kept(stored[service], fullBuckets.items)
    BY <2>1, <2>2, DropsShown
  <2> QED BY <2>3 DEF pinnedBuckets
<1> QED BY <1>1, <1>2, <1>3, PinsInvariant, TabsCounted, PTL DEF Spec
=============================================================================
