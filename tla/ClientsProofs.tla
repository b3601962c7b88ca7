---------------------------- MODULE ClientsProofs ----------------------------
(***************************************************************************)
(* The client programs, for any number of them at work at the same time,   *)
(* and `conduit run`, for every order of its events.                       *)
(***************************************************************************)
EXTENDS Clients, CliRun, SequenceTheorems, TLAPS

-----------------------------------------------------------------------------
(* conduit run                                                             *)

\* RunTypeOK in four parts.
RunPlaces ==
  /\ step \in Steps /\ agent \in {"none", "active", "revoked"}
  /\ child \in {"none", "up", "failed", "down", "reported"}
  /\ child # "none" => step \in {"running", "exited"}
  /\ killed \in BOOLEAN /\ cleaned \in BOOLEAN

RunCounts ==
  /\ endings \in 0..2
  /\ endings = 2 => step = "exited"

RunRevoking ==
  /\ revoke \in {"none", "sign", "send", "commit", "returned"}
  /\ step # "exited" => (cleaned <=> revoke # "none")

RunFaults == faults \subseteq Faults

\* What a wrapper that still runs has done so far: cleanup was called once if
\* its flag is set, and only a crash calls it while the command runs; a
\* revocation that returned has either happened or met a silent gateway.
RunProgress ==
  /\ step \in {"discover", "register"} => agent = "none"
  /\ step \notin {"running", "exited"} => ~cleaned /\ endings = 0
  /\ step = "running" => endings = (IF cleaned THEN 1 ELSE 0)
  /\ revoke = "commit" => agent = "revoked"
  /\ revoke = "returned" => agent # "active" \/ "unreachable" \in faults
  /\ cleaned /\ child = "up" => "crash" \in faults

RunInv ==
  /\ RunPlaces /\ RunCounts /\ RunRevoking /\ RunFaults
  /\ RunProgress /\ LeftoversHaveCauses

LEMMA RunInvIsTyped == RunInv => RunTypeOK
  BY Zenon DEF RunInv, RunPlaces, RunCounts, RunRevoking, RunFaults, RunTypeOK

LEMMA RunStarts == RunInit => RunInv
  <1> SUFFICES ASSUME RunInit PROVE RunInv
    OBVIOUS
  <1>1. RunPlaces
    BY DEF RunInit, RunPlaces, Steps
  <1>2. RunCounts
    BY DEF RunInit, RunCounts
  <1>3. RunRevoking
    BY DEF RunInit, RunRevoking
  <1>4. RunFaults
    BY DEF RunInit, RunFaults
  <1>5. RunProgress
    BY DEF RunInit, RunProgress
  <1>6. LeftoversHaveCauses
    BY DEF RunInit, LeftoversHaveCauses
  <1>7. QED
    BY <1>1, <1>2, <1>3, <1>4, <1>5, <1>6 DEF RunInv

LEMMA StartingKeepsRunInv ==
  ASSUME RunInv, DiscoverIssuer \/ Register \/ RegisterAnswered \/ Listen \/ Spawn
  PROVE  RunInv'
  <1>1. CASE DiscoverIssuer
    <2>1. RunPlaces'
      BY <1>1 DEF DiscoverIssuer, Exit, RunInv, RunPlaces, Steps
    <2>2. RunCounts'
      BY <1>1 DEF DiscoverIssuer, Exit, RunInv, RunCounts, RunProgress
    <2>3. RunRevoking'
      BY <1>1 DEF DiscoverIssuer, Exit, RunInv, RunRevoking, RunProgress
    <2>4. RunFaults'
      BY <1>1 DEF DiscoverIssuer, Exit, RunInv, RunFaults
    <2>5. RunProgress'
      BY <1>1 DEF DiscoverIssuer, Exit, RunInv, RunPlaces, RunCounts, RunRevoking, RunProgress, Steps
    <2>6. LeftoversHaveCauses'
      BY <1>1 DEF DiscoverIssuer, Exit, RunInv, RunPlaces, RunCounts, RunRevoking, RunProgress, LeftoversHaveCauses
    <2>7. QED
      BY <2>1, <2>2, <2>3, <2>4, <2>5, <2>6, Zenon DEF RunInv
  <1>2. CASE Register
    <2>1. RunPlaces'
      BY <1>2 DEF Register, Exit, RunInv, RunPlaces, Steps
    <2>2. RunCounts'
      BY <1>2 DEF Register, Exit, RunInv, RunCounts, RunProgress
    <2>3. RunRevoking'
      BY <1>2 DEF Register, Exit, RunInv, RunRevoking, RunProgress
    <2>4. RunFaults'
      BY <1>2 DEF Register, Exit, RunInv, RunFaults
    <2>5. RunProgress'
      BY <1>2 DEF Register, Exit, RunInv, RunPlaces, RunCounts, RunRevoking, RunProgress, Steps
    <2>6. LeftoversHaveCauses'
      BY <1>2 DEF Register, Exit, RunInv, RunPlaces, RunCounts, RunRevoking, RunProgress, LeftoversHaveCauses
    <2>7. QED
      BY <2>1, <2>2, <2>3, <2>4, <2>5, <2>6, Zenon DEF RunInv
  <1>3. CASE RegisterAnswered
    <2>1. RunPlaces'
      BY <1>3 DEF RegisterAnswered, Exit, Fault, RunInv, RunPlaces, Steps
    <2>2. RunCounts'
      BY <1>3 DEF RegisterAnswered, Exit, Fault, RunInv, RunCounts, RunProgress
    <2>3. RunRevoking'
      BY <1>3 DEF RegisterAnswered, Exit, Fault, RunInv, RunRevoking, RunProgress
    <2>4. RunFaults'
      BY <1>3 DEF RegisterAnswered, Exit, Fault, RunInv, RunFaults, Faults
    <2>5. RunProgress'
      BY <1>3 DEF RegisterAnswered, Exit, Fault, RunInv, RunPlaces, RunCounts, RunRevoking, RunProgress, Steps
    <2>6. LeftoversHaveCauses'
      BY <1>3 DEF RegisterAnswered, Exit, Fault, RunInv, RunPlaces, RunCounts, RunRevoking, RunProgress, LeftoversHaveCauses
    <2>7. QED
      BY <2>1, <2>2, <2>3, <2>4, <2>5, <2>6, Zenon DEF RunInv
  <1>4. CASE Listen
    <2>1. RunPlaces'
      BY <1>4 DEF Listen, Exit, Fault, RunInv, RunPlaces, Steps
    <2>2. RunCounts'
      BY <1>4 DEF Listen, Exit, Fault, RunInv, RunCounts, RunProgress
    <2>3. RunRevoking'
      BY <1>4 DEF Listen, Exit, Fault, RunInv, RunRevoking, RunProgress
    <2>4. RunFaults'
      BY <1>4 DEF Listen, Exit, Fault, RunInv, RunFaults, Faults
    <2>5. RunProgress'
      BY <1>4 DEF Listen, Exit, Fault, RunInv, RunPlaces, RunCounts, RunRevoking, RunProgress, Steps
    <2>6. LeftoversHaveCauses'
      BY <1>4 DEF Listen, Exit, Fault, RunInv, RunPlaces, RunCounts, RunRevoking, RunProgress, LeftoversHaveCauses
    <2>7. QED
      BY <2>1, <2>2, <2>3, <2>4, <2>5, <2>6, Zenon DEF RunInv
  <1>5. CASE Spawn
    <2>1. RunPlaces'
      BY <1>5 DEF Spawn, Exit, Fault, RunInv, RunPlaces, Steps
    <2>2. RunCounts'
      BY <1>5 DEF Spawn, Exit, Fault, RunInv, RunCounts, RunProgress
    <2>3. RunRevoking'
      BY <1>5 DEF Spawn, Exit, Fault, RunInv, RunRevoking, RunProgress
    <2>4. RunFaults'
      BY <1>5 DEF Spawn, Exit, Fault, RunInv, RunFaults, Faults
    <2>5. RunProgress'
      BY <1>5 DEF Spawn, Exit, Fault, RunInv, RunPlaces, RunCounts, RunRevoking, RunProgress, Steps
    <2>6. LeftoversHaveCauses'
      BY <1>5 DEF Spawn, Exit, Fault, RunInv, RunPlaces, RunCounts, RunRevoking, RunProgress, LeftoversHaveCauses
    <2>7. QED
      BY <2>1, <2>2, <2>3, <2>4, <2>5, <2>6, Zenon DEF RunInv
  <1>6. QED
    BY <1>1, <1>2, <1>3, <1>4, <1>5

LEMMA SignalsKeepRunInv ==
  ASSUME RunInv, Signal \/ ChildEnds \/ Killed
  PROVE  RunInv'
  <1>1. CASE Signal
    <2>1. RunPlaces'
      BY <1>1 DEF Signal, Exit, Fault, InFlight, RunInv, RunPlaces, Steps
    <2>2. RunCounts'
      BY <1>1 DEF Signal, Exit, Fault, InFlight, RunInv, RunCounts, RunProgress
    <2>3. RunRevoking'
      BY <1>1 DEF Signal, Exit, Fault, InFlight, RunInv, RunRevoking, RunProgress
    <2>4. RunFaults'
      BY <1>1 DEF Signal, Exit, Fault, InFlight, RunInv, RunFaults, Faults
    <2>5. RunProgress'
      BY <1>1 DEF Signal, Exit, Fault, InFlight, RunInv, RunPlaces, RunCounts, RunRevoking, RunProgress, Steps
    <2>6. LeftoversHaveCauses'
      BY <1>1 DEF Signal, Exit, Fault, InFlight, RunInv, RunPlaces, RunCounts, RunRevoking, RunProgress, LeftoversHaveCauses
    <2>7. QED
      BY <2>1, <2>2, <2>3, <2>4, <2>5, <2>6, Zenon DEF RunInv
  <1>2. CASE ChildEnds
    <2>1. RunPlaces'
      BY <1>2 DEF ChildEnds, RunInv, RunPlaces, Steps
    <2>2. RunCounts'
      BY <1>2 DEF ChildEnds, RunInv, RunCounts, RunProgress
    <2>3. RunRevoking'
      BY <1>2 DEF ChildEnds, RunInv, RunRevoking, RunProgress
    <2>4. RunFaults'
      BY <1>2 DEF ChildEnds, RunInv, RunFaults
    <2>5. RunProgress'
      BY <1>2 DEF ChildEnds, RunInv, RunPlaces, RunCounts, RunRevoking, RunProgress, Steps
    <2>6. LeftoversHaveCauses'
      BY <1>2 DEF ChildEnds, RunInv, RunPlaces, RunCounts, RunRevoking, RunProgress, LeftoversHaveCauses
    <2>7. QED
      BY <2>1, <2>2, <2>3, <2>4, <2>5, <2>6, Zenon DEF RunInv
  <1>3. CASE Killed
    <2>1. RunPlaces'
      BY <1>3 DEF Killed, Exit, Fault, InFlight, RunInv, RunPlaces, Steps
    <2>2. RunCounts'
      BY <1>3 DEF Killed, Exit, Fault, InFlight, RunInv, RunCounts, RunProgress
    <2>3. RunRevoking'
      BY <1>3 DEF Killed, Exit, Fault, InFlight, RunInv, RunRevoking, RunProgress
    <2>4. RunFaults'
      BY <1>3 DEF Killed, Exit, Fault, InFlight, RunInv, RunFaults, Faults
    <2>5. RunProgress'
      BY <1>3 DEF Killed, Exit, Fault, InFlight, RunInv, RunPlaces, RunCounts, RunRevoking, RunProgress, Steps
    <2>6. LeftoversHaveCauses'
      BY <1>3 DEF Killed, Exit, Fault, InFlight, RunInv, RunPlaces, RunCounts, RunRevoking, RunProgress, LeftoversHaveCauses
    <2>7. QED
      BY <2>1, <2>2, <2>3, <2>4, <2>5, <2>6, Zenon DEF RunInv
  <1>4. QED
    BY <1>1, <1>2, <1>3

LEMMA EndingsKeepRunInv ==
  ASSUME RunInv, Crash \/ ChildError \/ ChildExit
  PROVE  RunInv'
  <1>1. CASE Crash
    <2>1. RunPlaces'
      BY <1>1 DEF Crash, Ends, Exit, Fault, InFlight, RunInv, RunPlaces, Steps
    <2>2. RunCounts'
      BY <1>1 DEF Crash, Ends, Exit, Fault, InFlight, RunInv, RunCounts, RunProgress
    <2>3. RunRevoking'
      BY <1>1 DEF Crash, Ends, Exit, Fault, InFlight, RunInv, RunRevoking, RunProgress
    <2>4. RunFaults'
      BY <1>1 DEF Crash, Ends, Exit, Fault, InFlight, RunInv, RunFaults, Faults
    <2>5. RunProgress'
      BY <1>1 DEF Crash, Ends, Exit, Fault, InFlight, RunInv, RunPlaces, RunCounts, RunRevoking, RunProgress, Steps
    <2>6. LeftoversHaveCauses'
      BY <1>1 DEF Crash, Ends, Exit, Fault, InFlight, RunInv, RunPlaces, RunCounts, RunRevoking, RunProgress, LeftoversHaveCauses
    <2>7. QED
      BY <2>1, <2>2, <2>3, <2>4, <2>5, <2>6, Zenon DEF RunInv
  <1>2. CASE ChildError
    <2>1. RunPlaces'
      BY <1>2 DEF ChildError, Ends, Exit, InFlight, RunInv, RunPlaces, Steps
    <2>2. RunCounts'
      BY <1>2 DEF ChildError, Ends, Exit, InFlight, RunInv, RunCounts, RunProgress
    <2>3. RunRevoking'
      BY <1>2 DEF ChildError, Ends, Exit, InFlight, RunInv, RunRevoking, RunProgress
    <2>4. RunFaults'
      BY <1>2 DEF ChildError, Ends, Exit, InFlight, RunInv, RunFaults
    <2>5. RunProgress'
      BY <1>2 DEF ChildError, Ends, Exit, InFlight, RunInv, RunPlaces, RunCounts, RunRevoking, RunProgress, Steps
    <2>6. LeftoversHaveCauses'
      BY <1>2 DEF ChildError, Ends, Exit, InFlight, RunInv, RunPlaces, RunCounts, RunRevoking, RunProgress, LeftoversHaveCauses
    <2>7. QED
      BY <2>1, <2>2, <2>3, <2>4, <2>5, <2>6, Zenon DEF RunInv
  <1>3. CASE ChildExit
    <2>1. RunPlaces'
      BY <1>3 DEF ChildExit, Ends, Exit, InFlight, RunInv, RunPlaces, Steps
    <2>2. RunCounts'
      BY <1>3 DEF ChildExit, Ends, Exit, InFlight, RunInv, RunCounts, RunProgress
    <2>3. RunRevoking'
      BY <1>3 DEF ChildExit, Ends, Exit, InFlight, RunInv, RunRevoking, RunProgress
    <2>4. RunFaults'
      BY <1>3 DEF ChildExit, Ends, Exit, InFlight, RunInv, RunFaults
    <2>5. RunProgress'
      BY <1>3 DEF ChildExit, Ends, Exit, InFlight, RunInv, RunPlaces, RunCounts, RunRevoking, RunProgress, Steps
    <2>6. LeftoversHaveCauses'
      BY <1>3 DEF ChildExit, Ends, Exit, InFlight, RunInv, RunPlaces, RunCounts, RunRevoking, RunProgress, LeftoversHaveCauses
    <2>7. QED
      BY <2>1, <2>2, <2>3, <2>4, <2>5, <2>6, Zenon DEF RunInv
  <1>4. QED
    BY <1>1, <1>2, <1>3

LEMMA RevocationKeepsRunInv ==
  ASSUME RunInv, SignRevoke \/ SendRevoke \/ RevokeAnswered \/ ExitAfterCleanup
  PROVE  RunInv'
  <1>1. CASE SignRevoke
    <2>1. RunPlaces'
      BY <1>1 DEF SignRevoke, Exit, Fault, RunInv, RunPlaces, Steps
    <2>2. RunCounts'
      BY <1>1 DEF SignRevoke, Exit, Fault, RunInv, RunCounts, RunProgress
    <2>3. RunRevoking'
      BY <1>1 DEF SignRevoke, Exit, Fault, RunInv, RunRevoking, RunProgress
    <2>4. RunFaults'
      BY <1>1 DEF SignRevoke, Exit, Fault, RunInv, RunFaults, Faults
    <2>5. RunProgress'
      BY <1>1 DEF SignRevoke, Exit, Fault, RunInv, RunPlaces, RunCounts, RunRevoking, RunProgress, Steps
    <2>6. LeftoversHaveCauses'
      BY <1>1 DEF SignRevoke, Exit, Fault, RunInv, RunPlaces, RunCounts, RunRevoking, RunProgress, LeftoversHaveCauses
    <2>7. QED
      BY <2>1, <2>2, <2>3, <2>4, <2>5, <2>6, Zenon DEF RunInv
  <1>2. CASE SendRevoke
    <2>1. RunPlaces'
      BY <1>2 DEF SendRevoke, Exit, Fault, RunInv, RunPlaces, Steps
    <2>2. RunCounts'
      BY <1>2 DEF SendRevoke, Exit, Fault, RunInv, RunCounts, RunProgress
    <2>3. RunRevoking'
      BY <1>2 DEF SendRevoke, Exit, Fault, RunInv, RunRevoking, RunProgress
    <2>4. RunFaults'
      BY <1>2 DEF SendRevoke, Exit, Fault, RunInv, RunFaults, Faults
    <2>5. RunProgress'
      BY <1>2 DEF SendRevoke, Exit, Fault, RunInv, RunPlaces, RunCounts, RunRevoking, RunProgress, Steps
    <2>6. LeftoversHaveCauses'
      BY <1>2 DEF SendRevoke, Exit, Fault, RunInv, RunPlaces, RunCounts, RunRevoking, RunProgress, LeftoversHaveCauses
    <2>7. QED
      BY <2>1, <2>2, <2>3, <2>4, <2>5, <2>6, Zenon DEF RunInv
  <1>3. CASE RevokeAnswered
    <2>1. RunPlaces'
      BY <1>3 DEF RevokeAnswered, RunInv, RunPlaces, Steps
    <2>2. RunCounts'
      BY <1>3 DEF RevokeAnswered, RunInv, RunCounts, RunProgress
    <2>3. RunRevoking'
      BY <1>3 DEF RevokeAnswered, RunInv, RunRevoking, RunProgress
    <2>4. RunFaults'
      BY <1>3 DEF RevokeAnswered, RunInv, RunFaults
    <2>5. RunProgress'
      BY <1>3 DEF RevokeAnswered, RunInv, RunPlaces, RunCounts, RunRevoking, RunProgress, Steps
    <2>6. LeftoversHaveCauses'
      BY <1>3 DEF RevokeAnswered, RunInv, RunPlaces, RunCounts, RunRevoking, RunProgress, LeftoversHaveCauses
    <2>7. QED
      BY <2>1, <2>2, <2>3, <2>4, <2>5, <2>6, Zenon DEF RunInv
  <1>4. CASE ExitAfterCleanup
    <2>1. RunPlaces'
      BY <1>4 DEF ExitAfterCleanup, Exit, RunInv, RunPlaces, Steps
    <2>2. RunCounts'
      BY <1>4 DEF ExitAfterCleanup, Exit, RunInv, RunCounts, RunProgress
    <2>3. RunRevoking'
      BY <1>4 DEF ExitAfterCleanup, Exit, RunInv, RunRevoking, RunProgress
    <2>4. RunFaults'
      BY <1>4 DEF ExitAfterCleanup, Exit, RunInv, RunFaults
    <2>5. RunProgress'
      BY <1>4 DEF ExitAfterCleanup, Exit, RunInv, RunPlaces, RunCounts, RunRevoking, RunProgress, Steps
    <2>6. LeftoversHaveCauses'
      BY <1>4 DEF ExitAfterCleanup, Exit, RunInv, RunPlaces, RunCounts, RunRevoking, RunProgress, LeftoversHaveCauses
    <2>7. QED
      BY <2>1, <2>2, <2>3, <2>4, <2>5, <2>6, Zenon DEF RunInv
  <1>5. QED
    BY <1>1, <1>2, <1>3, <1>4

LEMMA RunInvHolds == RunSpec => []RunInv
  <1>1. RunInit => RunInv
    BY RunStarts
  <1>2. RunInv /\ [RunNext]_runVars => RunInv'
    <2> SUFFICES ASSUME RunInv, [RunNext]_runVars PROVE RunInv'
      OBVIOUS
    <2>1. CASE RunNext
      BY <2>1, StartingKeepsRunInv, SignalsKeepRunInv, EndingsKeepRunInv, RevocationKeepsRunInv,
         Zenon DEF RunNext
    <2>2. CASE UNCHANGED runVars
      BY <2>2 DEF runVars, RunInv, RunPlaces, RunCounts, RunRevoking, RunFaults, RunProgress,
         LeftoversHaveCauses
    <2>3. QED
      BY <2>1, <2>2
  <1>3. QED
    BY <1>1, <1>2, PTL DEF RunSpec

(***************************************************************************)
(* The variables of runAgent keep their types in every order of events; in *)
(* particular cleanup is entered at most twice.                            *)
(***************************************************************************)
THEOREM WrapperTypes == RunSpec => []RunTypeOK
  BY RunInvHolds, RunInvIsTyped, PTL

(***************************************************************************)
(* For every order of signals, crashes, ends of the command, failures of   *)
(* listen and spawn, and answers of the gateway: a wrapper that is gone    *)
(* has left an active agent or a running command only for one of the       *)
(* causes of LeftoversHaveCauses (cleanup and its callers in runAgent).    *)
(***************************************************************************)
THEOREM WrapperCleansUp == RunSpec => []LeftoversHaveCauses
  <1>1. RunInv => LeftoversHaveCauses
    BY DEF RunInv
  <1>2. QED
    BY <1>1, RunInvHolds, PTL

-----------------------------------------------------------------------------
(* What the tables say                                                     *)

Tabs == {"policy", "security"}

Saves(call) == call.method = "PATCH" /\ call.path = <<"admin", "config">>

Loads(call) == call.method = "GET" /\ call.path = <<"admin", "config">>

LEMMA ForwardedKeeps ==
  ASSUME NEW call \in ClientCall
  PROVE  LET to == Forwarded(call) IN
         /\ to.method = call.method /\ to.typ = call.typ /\ to.key = call.key
  BY DEF Forwarded, ClientCall

LEMMA DashboardPath ==
  ASSUME NEW call \in ClientCall, call.path = Api(<<"admin", "config">>)
  PROVE  Forwarded(call).path = <<"admin", "config">>
  <1> DEFINE names == {"api", "admin", "config"}
             rest == <<"admin", "config">>
             path == <<"api">> \o rest
  <1>1. /\ rest \in Seq(names) /\ Len(rest) = 2
        /\ <<"api">> \in Seq(names) /\ Len(<<"api">>) = 1 /\ <<"api">>[1] = "api"
    OBVIOUS
  <1>2. path \in Seq(names) /\ Len(path) = 3 /\ path[1] = "api" /\ \A i \in 1..2 : path[i + 1] = rest[i]
    <2> HIDE DEF rest
    <2>1. /\ path \in Seq(names) /\ Len(path) = 1 + 2
          /\ \A i \in 1..1 + 2 : path[i] = IF i <= 1 THEN <<"api">>[i] ELSE rest[i - 1]
      <3>1. /\ path \in Seq(names) /\ Len(path) = Len(<<"api">>) + Len(rest)
            /\ \A i \in 1..Len(<<"api">>) + Len(rest) :
                 path[i] = IF i <= Len(<<"api">>) THEN <<"api">>[i] ELSE rest[i - Len(<<"api">>)]
        BY <1>1, ConcatProperties, Zenon
      <3>2. QED
        BY <1>1, <3>1, Zenon
    <2>2. QED
      BY <1>1, <2>1
  <1>3. Head(path) = "api" /\ Tail(path) = rest /\ path # << >>
    <2> HIDE DEF path, rest, names
    <2>1. path # << >> /\ Head(path) = "api"
      BY <1>2
    <2>2. Tail(path) \in Seq(names) /\ Len(Tail(path)) = 2 /\ \A i \in 1..2 : Tail(path)[i] = rest[i]
      BY <1>2, <2>1
    <2>3. QED
      BY <1>1, <2>1, <2>2, SeqEqual, Zenon
  <1>4. QED
    BY <1>3 DEF Forwarded, ClientCall, Api

\* The settings tabs read first, and only their fourth and sixth calls save.
LEMMA TabCalls ==
  /\ SettingsTab[1].skip = 0 /\ SettingsTab[1].method = "GET"
  /\ SettingsTab[2].skip = 0 /\ SettingsTab[2].method = "GET"
  /\ Loads(Forwarded(SettingsTab[2])) /\ SettingsTab[2] # GetIssuer
  /\ SettingsTab[3].method = "GET" /\ SettingsTab[5].method = "GET"
  /\ Saves(Forwarded(SettingsTab[4])) /\ Saves(Forwarded(SettingsTab[6]))
  /\ SettingsTab \in Seq(ClientCall) /\ Len(SettingsTab) = 6
  <1>1. SettingsTab \in Seq(ClientCall) /\ SettingsTab = Programs["policy"]
    BY ProgramsAssumption
  <1>2. Len(SettingsTab) = 6
    BY DEF SettingsTab
  <1>3. SettingsTab[1] = GetIssuer /\ SettingsTab[2] = getSecuritySettings(1)
    BY DEF SettingsTab
  <1>4. SettingsTab[3] = Caught(GetIssuer, 2) /\ SettingsTab[5] = Caught(GetIssuer, 2)
    BY DEF SettingsTab
  <1>5. SettingsTab[4] = Caught(updateSecuritySettings(2), 1) /\ SettingsTab[6] = Caught(updateSecuritySettings(3), 1)
    BY DEF SettingsTab
  <1>6. \A i \in 1..6 : SettingsTab[i] \in ClientCall
    BY <1>1, <1>2
  <1>7. GetIssuer.method = "GET" /\ GetIssuer.skip = 0 /\ GetIssuer.typ = "none" /\ Caught(GetIssuer, 2).method = "GET"
    BY DEF GetIssuer, Read, Call, Caught
  <1>8. \A k : LET call == getSecuritySettings(k) IN
          call.method = "GET" /\ call.skip = 0 /\ call.typ = "host" /\ call.path = Api(<<"admin", "config">>)
    BY DEF getSecuritySettings, Host, Call
  <1>9. \A k : LET call == Caught(updateSecuritySettings(k), 1) IN
          call.method = "PATCH" /\ call.path = Api(<<"admin", "config">>)
    BY DEF updateSecuritySettings, Host, Call, Caught
  <1>10. /\ SettingsTab[2].skip = 0 /\ SettingsTab[2].method = "GET"
         /\ Loads(Forwarded(SettingsTab[2])) /\ SettingsTab[2] # GetIssuer
    BY <1>3, <1>6, <1>7, <1>8, ForwardedKeeps, DashboardPath DEF Loads
  <1>11. Saves(Forwarded(SettingsTab[4])) /\ Saves(Forwarded(SettingsTab[6]))
    BY <1>5, <1>6, <1>9, ForwardedKeeps, DashboardPath DEF Saves
  <1>12. QED
    BY <1>1, <1>2, <1>3, <1>4, <1>7, <1>10, <1>11

LEMMA VerdictIsAnswer ==
  ASSUME NEW to, NEW call, NEW sp, NEW fi, NEW re
  PROVE  Verdict(to, call, sp, fi, re) \in Answers
  BY DEF Verdict, Answers

LEMMA OnlySignedIsSpent ==
  ASSUME NEW to, NEW call, NEW sp, NEW fi, NEW re, Spends(to, Verdict(to, call, sp, fi, re))
  PROVE  call.typ # "none"
  BY DEF Verdict, Spends

-----------------------------------------------------------------------------
(* The rows of the programs                                                *)

Copies == Settings \cup {NotLoaded}

\* A program is inside its table, and a settings tab past its second call has
\* loaded the settings.
RowOK(row) ==
  /\ row \in User
  /\ row.phase # "idle" => row.run \in DOMAIN Programs
  /\ row.phase \in {"ready", "sent"} => row.at \in DOMAIN Programs[row.run]
  /\ row.run \in Tabs /\ row.phase \in {"ready", "sent"} /\ row.at > 2 => row.copy # NotLoaded
  /\ row.run \in Tabs /\ row.phase = "sent" /\ row.at = 2 /\ row.answer = "ok" => row.copy # NotLoaded

StoreOK ==
  /\ spent \subseteq Users \X (1..3)
  /\ acted \subseteq Users \X (1..6)
  /\ settings \in Settings
  /\ rules \in [enacted: SUBSET Users, removed: SUBSET Users]
  /\ overwrote \subseteq Users
  /\ discovery \in BOOLEAN

TypesInv ==
  /\ user \in [Users -> User] /\ \A u \in Users : RowOK(user[u])
  /\ StoreOK

LEMMA TypesInvIsTyped == TypesInv => ClientsTypeOK
  <1> SUFFICES ASSUME TypesInv PROVE ClientsTypeOK
    OBVIOUS
  <1>1. ASSUME NEW u \in Users
        PROVE  /\ user[u].phase \in {"ready", "sent"} => user[u].at \in DOMAIN Programs[user[u].run]
               /\ user[u].phase \in {"ready", "sent"} /\ user[u].at > 2
                    /\ user[u].run \in {"policy", "security"} => user[u].copy # NotLoaded
    BY DEF TypesInv, RowOK, Tabs
  <1>2. QED
    BY <1>1, Zenon DEF TypesInv, StoreOK, ClientsTypeOK

\* The call a program is at.
LEMMA CallOfRow ==
  ASSUME NEW run \in DOMAIN Programs, NEW at \in DOMAIN Programs[run]
  PROVE  /\ Programs[run][at] \in ClientCall /\ at \in 1..6 /\ at <= Len(Programs[run])
         /\ Programs[run][at].typ # "none" => Programs[run][at].key > 0
         /\ DOMAIN Programs[run] = 1..Len(Programs[run]) /\ Len(Programs[run]) \in Nat
  <1>1. /\ Programs[run] \in Seq(ClientCall) /\ Len(Programs[run]) \in 1..6
        /\ Programs[run][at].typ # "none" => Programs[run][at].key > 0
    BY ProgramsAssumption
  <1> HIDE DEF ClientCall
  <1>2. QED
    BY <1>1

\* An answer reaches the program.
SentRow(row, answer, copy) == [row EXCEPT !.phase = "sent", !.answer = answer, !.copy = copy]

LEMMA SentRowOK ==
  ASSUME NEW row, RowOK(row), row.phase = "ready", NEW answer \in Answers, NEW copy \in Copies,
         row.copy # NotLoaded => copy # NotLoaded,
         row.run \in Tabs /\ row.at = 2 /\ answer = "ok" => copy # NotLoaded
  PROVE  LET r == SentRow(row, answer, copy) IN
         RowOK(r) /\ r.run = row.run /\ r.phase = "sent" /\ r.at = row.at
  <1> DEFINE r == SentRow(row, answer, copy)
  <1>1. row \in User
    BY DEF RowOK
  <1>2. /\ r \in User /\ r.run = row.run /\ r.at = row.at
        /\ r.phase = "sent" /\ r.answer = answer /\ r.copy = copy
    BY <1>1 DEF User, Copies, SentRow
  <1> HIDE DEF r
  <1>3. RowOK(r)
    BY <1>2 DEF RowOK
  <1>4. QED
    BY <1>2, <1>3 DEF r

\* The program goes on, n calls further.
NextRow(row, n) ==
  [row EXCEPT !.at = row.at + n, !.answer = "none",
              !.phase = IF row.at + n > Len(Programs[row.run]) THEN "done" ELSE "ready"]

LEMMA NextRowOK ==
  ASSUME NEW row, RowOK(row), row.phase = "sent", NEW n \in 1..2,
         row.run \in Tabs /\ row.at = 1 => n = 1,
         row.run \in Tabs /\ row.at = 2 => row.answer = "ok"
  PROVE  LET r == NextRow(row, n) IN
         RowOK(r) /\ r.run = row.run /\ r.phase \in {"ready", "done"}
  <1> DEFINE r == NextRow(row, n)
             len == Len(Programs[row.run])
  <1>1. row \in User /\ row.run \in DOMAIN Programs /\ row.at \in DOMAIN Programs[row.run]
    BY DEF RowOK
  <1>2. row.at \in 1..6 /\ row.at <= len /\ DOMAIN Programs[row.run] = 1..len /\ len \in Nat
    BY <1>1, CallOfRow
  <1> HIDE DEF len
  <1>3. /\ r \in User /\ r.run = row.run /\ r.at = row.at + n /\ r.copy = row.copy
        /\ r.phase = IF row.at + n > len THEN "done" ELSE "ready"
    <2> DEFINE to == row.at + n
               phase == IF to > len THEN "done" ELSE "ready"
    <2>1. to \in Nat /\ phase \in {"idle", "ready", "sent", "done", "failed"}
      BY <1>2
    <2>2. r = [row EXCEPT !.at = to, !.answer = "none", !.phase = phase]
      BY DEF NextRow, len
    <2> HIDE DEF to, phase
    <2>3. r \in User /\ r.run = row.run /\ r.at = to /\ r.copy = row.copy /\ r.phase = phase
      BY <1>1, <2>1, <2>2 DEF User
    <2>4. QED
      BY <2>3 DEF to, phase
  <1> HIDE DEF r
  <1>4. r.phase = "ready" => r.at \in 1..len
    BY <1>2, <1>3
  <1>5. r.phase = "ready" /\ r.run \in Tabs /\ r.at > 2 => r.copy # NotLoaded
    BY <1>2, <1>3 DEF RowOK
  <1>6. r.phase \in {"ready", "done"}
    BY <1>3
  <1>7. RowOK(r)
    BY <1>1, <1>2, <1>3, <1>4, <1>5, <1>6 DEF RowOK
  <1>8. QED
    BY <1>3, <1>6, <1>7 DEF r

-----------------------------------------------------------------------------
(* Types                                                                   *)

LEMMA LoadedIsSettings ==
  /\ \A copy \in Copies : copy # NotLoaded <=> copy \in Settings
  /\ NotLoaded \in Copies /\ Boot \in Settings
  <1>1. NotLoaded \notin Settings
    BY ClientsAssumption DEF NotLoaded, Settings
  <1>2. Boot \in Settings
    BY DEF Boot, Settings
  <1>3. QED
    BY <1>1, <1>2 DEF Copies

LEMMA OneRowKeepsTypes ==
  ASSUME TypesInv, NEW u \in Users, NEW r, RowOK(r), user' = [user EXCEPT ![u] = r], StoreOK'
  PROVE  TypesInv' /\ \A w \in Users : user'[w] = IF w = u THEN r ELSE user[w]
  <1>1. user \in [Users -> User] /\ \A w \in Users : RowOK(user[w])
    BY DEF TypesInv
  <1>2. r \in User
    BY DEF RowOK
  <1>3. user' \in [Users -> User] /\ \A w \in Users : user'[w] = IF w = u THEN r ELSE user[w]
    BY <1>1, <1>2
  <1>4. ASSUME NEW w \in Users PROVE RowOK(user[w])'
    <2>1. CASE w = u
      BY <2>1, <1>3 DEF RowOK
    <2>2. CASE w # u
      BY <2>2, <1>1, <1>3 DEF RowOK
    <2>3. QED
      BY <2>1, <2>2
  <1>5. QED
    BY <1>3, <1>4 DEF TypesInv

SameStore == UNCHANGED <<spent, acted, settings, rules, overwrote, discovery>>

LEMMA SameStoreOK == StoreOK /\ SameStore => StoreOK'
  BY DEF StoreOK, SameStore

\* What a call of u that the gateway handles does to the settings: nothing, a
\* save of a Policy tab, or one that leaves the policy as it is.
HandleEffect(u) ==
  /\ acted' \in {acted, acted \cup {<<u, user[u].at>>}}
  /\ overwrote \subseteq overwrote' /\ overwrote' \subseteq overwrote \cup {u}
  /\ rules'.enacted \subseteq rules.enacted \cup settings'.policy
  /\ rules.removed \ settings'.policy \subseteq rules'.removed
  /\ \/ settings'.policy = settings.policy /\ overwrote' = overwrote
     \/ /\ user[u].run = "policy"
        /\ user[u].copy.policy \ settings'.policy \subseteq rules'.removed
        /\ settings'.policy # settings.policy /\ settings.policy # user[u].copy.policy => u \in overwrote'

\* One user's row changes, and the user stays with its program.
MovesOn(u, r) ==
  /\ user' = [user EXCEPT ![u] = r] /\ RowOK(r)
  /\ r.run = user[u].run /\ user[u].phase # "idle" /\ r.phase # "idle"

LEMMA PatchedType ==
  ASSUME TypesInv, NEW u \in Users, NEW edit \in Edits(u), NEW ipFilter \in {"open", "shut"},
         user[u].phase = "ready", Saves(Forwarded(CallOf(u)))
  PROVE  /\ Patched(u, edit, ipFilter) \in Settings
         /\ user[u].run = "policy" => Patched(u, edit, ipFilter).policy = edit
         /\ user[u].run # "policy" => Patched(u, edit, ipFilter).policy = settings.policy
         /\ Dropped(u, edit) \subseteq Users
  <1> DEFINE row == user[u]
  <1>1. RowOK(row) /\ row \in User /\ settings \in Settings
    BY DEF TypesInv, StoreOK, RowOK
  <1>2. row.run \in DOMAIN Programs /\ row.at \in DOMAIN Programs[row.run]
    BY <1>1 DEF RowOK
  <1>3. CallOf(u) \in ClientCall /\ CallOf(u).method = "PATCH" /\ row.at \in 1..6
    <2>1. CallOf(u) \in ClientCall /\ row.at \in 1..6
      BY <1>2, CallOfRow DEF CallOf
    <2>2. QED
      BY <2>1, ForwardedKeeps DEF Saves
  <1>4. CASE row.run = "policy"
    <2>1. CallOf(u) = SettingsTab[row.at]
      BY <1>4, ProgramsAssumption DEF CallOf
    <2>2. row.at \in {4, 6}
      BY <2>1, <1>3, TabCalls
    <2>3. row.copy \in Settings
      BY <2>2, <1>1, <1>4, LoadedIsSettings DEF RowOK, Tabs, User, Copies
    <2>4. row.copy.policy \subseteq Users /\ edit \subseteq Users
      BY <2>3 DEF Settings, Edits
    <2>5. Patched(u, edit, ipFilter) = [row.copy EXCEPT !.policy = edit] /\ Dropped(u, edit) = row.copy.policy \ edit
      BY <1>4 DEF Patched, Dropped
    <2> HIDE DEF row
    <2>6. QED
      BY <2>3, <2>4, <2>5, <1>4 DEF Settings, row
  <1>5. CASE row.run # "policy"
    BY <1>1, <1>5 DEF Patched, Settings, Dropped
  <1>6. QED
    BY <1>4, <1>5

LEMMA HandleStep ==
  ASSUME TypesInv, NEW u \in Users, NEW edit \in Edits(u), NEW ipFilter \in {"open", "shut"},
         NEW refusal \in Refusals, NEW delivered \in BOOLEAN,
         Handle(u, edit, ipFilter, refusal, delivered)
  PROVE  TypesInv' /\ HandleEffect(u) /\ \E r : MovesOn(u, r)
  <1> DEFINE row == user[u]
             call == Forwarded(CallOf(u))
             to == Targets[row.run][row.at]
             key == <<u, call.key>>
             verdict == Verdict(to, call, key \in spent, settings.ipFilter = "shut", refusal)
             saves == verdict = "ok" /\ Saves(call)
             loads == verdict = "ok" /\ Loads(call)
             answer == IF delivered THEN verdict ELSE "lost"
             copy == IF delivered /\ (loads \/ saves) THEN settings' ELSE row.copy
             r == SentRow(row, answer, copy)
  <1>1. RowOK(row) /\ row \in User /\ row.phase = "ready" /\ StoreOK /\ user \in [Users -> User]
    BY DEF TypesInv, RowOK, Handle
  <1>2. row.run \in DOMAIN Programs /\ row.at \in DOMAIN Programs[row.run]
    BY <1>1 DEF RowOK
  <1>3. /\ CallOf(u) \in ClientCall /\ row.at \in 1..6
        /\ CallOf(u).typ # "none" => CallOf(u).key \in 1..3
    BY <1>2, CallOfRow DEF CallOf, ClientCall
  <1>4. call.method = CallOf(u).method /\ call.typ = CallOf(u).typ /\ call.key = CallOf(u).key
    BY <1>3, ForwardedKeeps
  <1>5. verdict \in Answers /\ "lost" \in Answers
    BY VerdictIsAnswer DEF Answers
  <1>6. /\ spent' = IF Spends(to, verdict) THEN spent \cup {key} ELSE spent
        /\ acted' = IF verdict = "ok" /\ call.method # "GET" THEN acted \cup {<<u, row.at>>} ELSE acted
        /\ settings' = IF saves THEN Patched(u, edit, ipFilter) ELSE settings
        /\ rules' = IF saves THEN [enacted |-> rules.enacted \cup settings'.policy,
                                   removed |-> (rules.removed \cup Dropped(u, edit)) \ settings'.policy]
                    ELSE rules
        /\ overwrote' = IF saves /\ Overwrites(u, settings') THEN overwrote \cup {u} ELSE overwrote
        /\ discovery' \in BOOLEAN
    BY DEF Handle, Saves
  <1>7. user' = [user EXCEPT ![u] = r]
    <2>1. CASE delivered
      BY <2>1 DEF Handle, Answered, SentRow, Saves, Loads
    <2>2. CASE ~delivered
      BY <2>2 DEF Handle, Answered, SentRow
    <2>3. QED
      BY <2>1, <2>2
  <1>8. Spends(to, verdict) => call.typ # "none"
    BY OnlySignedIsSpent
  <1>9. row.run \in Tabs => CallOf(u) = SettingsTab[row.at]
    BY ProgramsAssumption DEF CallOf, Tabs
  <1>10. row.run \in Tabs /\ row.at = 2 => Loads(call)
    BY <1>9, TabCalls
  <1>11. saves => /\ Patched(u, edit, ipFilter) \in Settings
                  /\ row.run = "policy" => Patched(u, edit, ipFilter).policy = edit
                  /\ row.run # "policy" => Patched(u, edit, ipFilter).policy = settings.policy
                  /\ Dropped(u, edit) \subseteq Users
    BY <1>1, PatchedType
  <1> HIDE DEF call, verdict, to
  <1>12. settings' \in Settings
    BY <1>1, <1>6, <1>11 DEF StoreOK
  <1>13. RowOK(r) /\ r.run = row.run /\ r.phase = "sent"
    <2>1. row.copy \in Copies /\ answer \in Answers
      BY <1>1, <1>5 DEF User, Copies
    <2>2. copy \in Copies /\ (row.copy # NotLoaded => copy # NotLoaded)
      BY <1>12, <2>1, LoadedIsSettings DEF Copies
    <2>3. row.run \in Tabs /\ row.at = 2 /\ answer = "ok" => copy # NotLoaded
      BY <1>10, <1>12, LoadedIsSettings DEF Copies
    <2> HIDE DEF copy, answer, row
    <2>4. QED
      BY <2>1, <2>2, <2>3, <1>1, SentRowOK
  <1>14. StoreOK'
    <2>1. spent' \subseteq Users \X (1..3)
      BY <1>1, <1>3, <1>4, <1>6, <1>8 DEF StoreOK
    <2>2. acted' \subseteq Users \X (1..6)
      BY <1>1, <1>3, <1>6 DEF StoreOK
    <2>3. settings'.policy \subseteq Users
      BY <1>12 DEF Settings
    <2>4. rules' \in [enacted: SUBSET Users, removed: SUBSET Users]
      BY <1>1, <1>6, <1>11, <2>3 DEF StoreOK
    <2>5. overwrote' \subseteq Users
      BY <1>1, <1>6 DEF StoreOK
    <2>6. QED
      BY <2>1, <2>2, <2>4, <2>5, <1>6, <1>12 DEF StoreOK
  <1>15. HandleEffect(u)
    <2>1. acted' \in {acted, acted \cup {<<u, row.at>>}}
      BY <1>6
    <2>2. overwrote \subseteq overwrote' /\ overwrote' \subseteq overwrote \cup {u}
      BY <1>6
    <2>3. CASE ~saves
      BY <2>1, <2>2, <2>3, <1>6 DEF HandleEffect
    <2>4. ASSUME saves
          PROVE  /\ rules'.enacted = rules.enacted \cup settings'.policy
                 /\ rules'.removed = (rules.removed \cup Dropped(u, edit)) \ settings'.policy
      BY <2>4, <1>6
    <2>5. CASE saves /\ row.run = "policy"
      <3>1. Dropped(u, edit) = row.copy.policy \ edit /\ settings'.policy = edit
        BY <2>5, <1>6, <1>11 DEF Dropped
      <3>2. settings'.policy # settings.policy /\ settings.policy # row.copy.policy => u \in overwrote'
        BY <2>5, <1>6 DEF Overwrites
      <3>3. QED
        BY <2>1, <2>2, <2>4, <2>5, <3>1, <3>2 DEF HandleEffect
    <2>6. CASE saves /\ row.run # "policy"
      <3>1. settings'.policy = settings.policy /\ overwrote' = overwrote
        BY <2>6, <1>6, <1>11 DEF Overwrites
      <3>2. QED
        BY <2>1, <2>2, <2>4, <2>6, <3>1 DEF HandleEffect
    <2>7. QED
      BY <2>3, <2>5, <2>6
  <1> HIDE DEF r, row
  <1>16. MovesOn(u, r)
    BY <1>1, <1>7, <1>13 DEF MovesOn, row
  <1>17. TypesInv'
    BY <1>7, <1>13, <1>14, OneRowKeepsTypes
  <1>18. QED
    BY <1>15, <1>16, <1>17

LEMMA UndeliveredStep ==
  ASSUME TypesInv, NEW u \in Users,
         Undelivered(u, "lost") \/ Undelivered(u, "throttled") \/ FromCache(u)
  PROVE  TypesInv' /\ SameStore /\ \E r : MovesOn(u, r)
  <1> DEFINE row == user[u]
  <1>1. RowOK(row) /\ row \in User /\ StoreOK /\ user \in [Users -> User]
    BY DEF TypesInv, RowOK
  <1>2. row.copy \in Copies
    BY <1>1 DEF User, Copies
  <1>3. ASSUME NEW answer \in Answers, row.phase = "ready", Answered(u, answer, row.copy), SameStore,
               row.run \in Tabs /\ row.at = 2 => answer # "ok"
        PROVE  TypesInv' /\ SameStore /\ \E r : MovesOn(u, r)
    <2> DEFINE r == SentRow(row, answer, row.copy)
    <2>1. user' = [user EXCEPT ![u] = r]
      BY <1>3 DEF Answered, SentRow
    <2>2. StoreOK'
      BY <1>1, <1>3, SameStoreOK
    <2> HIDE DEF row
    <2>3. RowOK(r) /\ r.run = row.run /\ r.phase = "sent"
      BY <1>1, <1>2, <1>3, SentRowOK
    <2> HIDE DEF r
    <2>4. TypesInv'
      BY <2>1, <2>2, <2>3, OneRowKeepsTypes
    <2>5. MovesOn(u, r)
      BY <1>3, <2>1, <2>3 DEF MovesOn, row
    <2>6. QED
      BY <1>3, <2>4, <2>5
  <1>4. CASE Undelivered(u, "lost") \/ Undelivered(u, "throttled")
    <2>1. "lost" \in Answers /\ "throttled" \in Answers
      BY DEF Answers
    <2>2. QED
      BY <1>3, <1>4, <2>1 DEF Undelivered, SameStore
  <1>5. CASE FromCache(u)
    <2>1. row.phase = "ready" /\ Answered(u, "ok", row.copy) /\ SameStore /\ CallOf(u) = GetIssuer
      BY <1>5 DEF FromCache, SameStore
    <2>2. row.run \in Tabs => row.at # 2
      BY <2>1, ProgramsAssumption, TabCalls DEF CallOf, Tabs
    <2>3. "ok" \in Answers
      BY DEF Answers
    <2>4. QED
      BY <1>3, <2>1, <2>2, <2>3
  <1>6. QED
    BY <1>4, <1>5

LEMMA ReceiveStep ==
  ASSUME TypesInv, NEW u \in Users, Receive(u)
  PROVE  TypesInv' /\ SameStore /\ \E r : MovesOn(u, r)
  <1> DEFINE row == user[u]
  <1>1. RowOK(row) /\ row \in User /\ StoreOK /\ row.phase = "sent" /\ SameStore
    BY DEF TypesInv, RowOK, Receive, SameStore
  <1>2. row.run \in DOMAIN Programs /\ row.at \in DOMAIN Programs[row.run]
    BY <1>1 DEF RowOK
  <1>3. CallOf(u) \in ClientCall /\ CallOf(u).skip \in 0..2
    BY <1>2, CallOfRow DEF CallOf, ClientCall
  <1>4. row.run \in Tabs /\ row.at \in {1, 2} => CallOf(u).skip = 0
    BY ProgramsAssumption, TabCalls DEF CallOf, Tabs
  <1>5. ASSUME NEW n \in 1..2, Advance(u, n),
               (row.answer = "ok" /\ n = 1) \/ (row.answer # "ok" /\ n = CallOf(u).skip)
        PROVE  TypesInv' /\ \E r : MovesOn(u, r)
    <2> DEFINE r == NextRow(row, n)
    <2>1. user' = [user EXCEPT ![u] = r]
      BY <1>5 DEF Advance, NextRow
    <2>2. /\ row.run \in Tabs /\ row.at = 1 => n = 1
          /\ row.run \in Tabs /\ row.at = 2 => row.answer = "ok"
      BY <1>4, <1>5
    <2>3. StoreOK'
      BY <1>1, SameStoreOK
    <2> HIDE DEF row
    <2>4. RowOK(r) /\ r.run = row.run /\ r.phase \in {"ready", "done"}
      BY <1>1, <2>2, NextRowOK
    <2> HIDE DEF r
    <2>5. TypesInv'
      BY <2>1, <2>3, <2>4, OneRowKeepsTypes
    <2>6. MovesOn(u, r)
      BY <1>1, <2>1, <2>4 DEF MovesOn, row
    <2>7. QED
      BY <2>5, <2>6
  <1>6. ASSUME user' = [user EXCEPT ![u] = [@ EXCEPT !.phase = "failed", !.answer = "none"]]
        PROVE  TypesInv' /\ \E r : MovesOn(u, r)
    <2> DEFINE r == [row EXCEPT !.phase = "failed", !.answer = "none"]
    <2>1. user' = [user EXCEPT ![u] = r]
      BY <1>6
    <2>2. r \in User /\ r.run = row.run /\ r.phase = "failed"
      BY <1>1 DEF User
    <2>3. StoreOK'
      BY <1>1, SameStoreOK
    <2> HIDE DEF r
    <2>4. RowOK(r)
      BY <1>1, <2>2 DEF RowOK
    <2>5. TypesInv'
      BY <2>1, <2>3, <2>4, OneRowKeepsTypes
    <2>6. MovesOn(u, r)
      BY <1>1, <2>1, <2>2, <2>4 DEF MovesOn
    <2>7. QED
      BY <2>5, <2>6
  <1>7. CASE row.answer = "ok" /\ Advance(u, 1)
    <2>1. 1 \in 1..2
      OBVIOUS
    <2> HIDE DEF row
    <2>2. TypesInv' /\ \E r : MovesOn(u, r)
      BY <1>5, <1>7, <2>1, Zenon
    <2>3. QED
      BY <1>1, <2>2
  <1>8. CASE row.answer # "ok" /\ CallOf(u).skip > 0 /\ Advance(u, CallOf(u).skip)
    <2>1. CallOf(u).skip \in 1..2
      BY <1>3, <1>8
    <2>2. QED
      BY <1>1, <1>5, <1>8, <2>1
  <1>9. QED
    BY <1>1, <1>6, <1>7, <1>8 DEF Receive

LEMMA StartStep ==
  ASSUME TypesInv, NEW u \in Users, NEW run \in Runs[u], Start(u, run)
  PROVE  /\ TypesInv' /\ SameStore /\ user[u].phase = "idle"
         /\ \A w \in Users \ {u} : user'[w] = user[w]
         /\ user'[u].phase # "idle"
  <1> DEFINE row == user[u]
             r == [row EXCEPT !.run = run, !.at = 1, !.phase = "ready"]
  <1>1. row \in User /\ StoreOK /\ SameStore /\ user' = [user EXCEPT ![u] = r] /\ row.phase = "idle"
    BY DEF TypesInv, Start, SameStore
  <1>2. run \in DOMAIN Programs /\ 1 \in DOMAIN Programs[run]
    <2>1. run \in DOMAIN Programs
      BY ClientsAssumption
    <2>2. Programs[run] \in Seq(ClientCall) /\ Len(Programs[run]) \in 1..6
      BY <2>1, ProgramsAssumption
    <2> HIDE DEF ClientCall
    <2>3. QED
      BY <2>1, <2>2
  <1>3. r \in User /\ r.run = run /\ r.at = 1 /\ r.phase = "ready"
    BY <1>1, <1>2 DEF User
  <1> HIDE DEF r
  <1>4. RowOK(r)
    <2> HIDE DEF row
    <2>1. ~(1 > 2) /\ 1 # 2
      OBVIOUS
    <2>2. QED
      BY <1>2, <1>3, <2>1, Zenon DEF RowOK
  <1>5. StoreOK'
    BY <1>1, SameStoreOK
  <1>6. TypesInv' /\ \A w \in Users : user'[w] = IF w = u THEN r ELSE user[w]
    BY <1>1, <1>4, <1>5, OneRowKeepsTypes
  <1>7. QED
    BY <1>1, <1>3, <1>6

LEMMA TypesStart == ClientsInit => TypesInv
  <1> SUFFICES ASSUME ClientsInit PROVE TypesInv
    OBVIOUS
  <1> DEFINE row == [run |-> "none", at |-> 0, phase |-> "idle", answer |-> "none", copy |-> NotLoaded]
  <1>1. row \in User
    BY DEF User, Answers
  <1>2. RowOK(row)
    BY <1>1 DEF RowOK, Tabs
  <1>3. user = [u \in Users |-> row]
    BY DEF ClientsInit
  <1> HIDE DEF row
  <1>4. user \in [Users -> User] /\ \A u \in Users : RowOK(user[u])
    BY <1>1, <1>2, <1>3
  <1>5. StoreOK
    BY LoadedIsSettings DEF ClientsInit, StoreOK, NoRules
  <1>6. QED
    BY <1>4, <1>5 DEF TypesInv

\* Every step is one program's, the cache's or a restart of the gateway.
ClientsStep ==
  \/ \E u \in Users : \E run \in Runs[u] : Start(u, run)
  \/ \E u \in Users : HandleEffect(u) /\ \E r : MovesOn(u, r)
  \/ SameStore /\ \E u \in Users : \E r : MovesOn(u, r)
  \/ RestartGateway
  \/ UNCHANGED <<user, spent, acted, settings, rules, overwrote>>

LEMMA TypesStep ==
  ASSUME TypesInv, [ClientsNext]_clientVars
  PROVE  TypesInv' /\ ClientsStep
  <1>1. ASSUME NEW u \in Users, NEW run \in Runs[u], Start(u, run)
        PROVE  TypesInv' /\ ClientsStep
    BY <1>1, StartStep DEF ClientsStep
  <1>2. ASSUME NEW u \in Users, NEW edit \in Edits(u), NEW ipFilter \in {"open", "shut"},
               NEW refusal \in Refusals, NEW delivered \in BOOLEAN,
               Handle(u, edit, ipFilter, refusal, delivered)
        PROVE  TypesInv' /\ ClientsStep
    BY <1>2, HandleStep DEF ClientsStep
  <1>3. ASSUME NEW u \in Users,
               \/ Undelivered(u, "lost") \/ Undelivered(u, "throttled") \/ FromCache(u)
               \/ Receive(u)
        PROVE  TypesInv' /\ ClientsStep
    BY <1>3, UndeliveredStep, ReceiveStep DEF ClientsStep
  <1>4. CASE CacheExpires \/ UNCHANGED clientVars
    <2>1. UNCHANGED <<user, spent, acted, settings, rules, overwrote>> /\ discovery' \in {discovery, FALSE}
      BY <1>4 DEF CacheExpires, clientVars
    <2>2. StoreOK'
      BY <2>1 DEF TypesInv, StoreOK
    <2>3. TypesInv'
      BY <2>1, <2>2 DEF TypesInv, RowOK
    <2>4. QED
      BY <2>1, <2>3 DEF ClientsStep
  <1>5. CASE RestartGateway
    <2>1. StoreOK'
      BY <1>5, LoadedIsSettings DEF RestartGateway, TypesInv, StoreOK, NoRules
    <2>2. user' = user
      BY <1>5 DEF RestartGateway
    <2>3. TypesInv'
      BY <2>1, <2>2 DEF TypesInv, RowOK
    <2>4. QED
      BY <1>5, <2>3 DEF ClientsStep
  <1>6. QED
    BY <1>1, <1>2, <1>3, <1>4, <1>5, Zenon DEF ClientsNext

(***************************************************************************)
(* For any number of client programs: each stays inside its table of       *)
(* calls, every jti the gateway stores was signed, and a settings tab      *)
(* saves only what it loaded (policyTab's and the security panel's load    *)
(* before their first save).                                               *)
(***************************************************************************)
THEOREM ClientTypes == ClientsSpec => []ClientsTypeOK
  <1>1. TypesInv /\ [ClientsNext]_clientVars => TypesInv'
    BY TypesStep
  <1>2. QED
    BY <1>1, TypesStart, TypesInvIsTyped, PTL DEF ClientsSpec

-----------------------------------------------------------------------------
(* Rules that disappear                                                    *)

\* Nobody has written anything before starting, and only Policy tabs overwrite
\* a policy; a rule that was in force and is gone was taken out or overwritten.
WriterOf(w) ==
  /\ user[w].phase = "idle" => w \notin overwrote
  /\ user[w].run # "policy" => w \notin overwrote

RulesInv ==
  /\ \A w \in Users : WriterOf(w)
  /\ overwrote \subseteq Users
  /\ overwrote = {} => rules.enacted \subseteq settings.policy \cup rules.removed

LEMMA RulesOfStart ==
  ASSUME TypesInv, RulesInv, NEW u \in Users, NEW run \in Runs[u], Start(u, run)
  PROVE  RulesInv'
  <1>1. /\ SameStore /\ user[u].phase = "idle" /\ user'[u].phase # "idle"
        /\ \A w \in Users \ {u} : user'[w] = user[w]
    BY StartStep
  <1>2. ASSUME NEW w \in Users PROVE WriterOf(w)'
    <2>1. WriterOf(w)
      BY DEF RulesInv
    <2>2. CASE w = u
      BY <1>1, <2>1, <2>2 DEF WriterOf, SameStore
    <2>3. CASE w # u
      BY <1>1, <2>1, <2>3 DEF WriterOf, SameStore
    <2>4. QED
      BY <2>2, <2>3
  <1>3. QED
    BY <1>1, <1>2 DEF RulesInv, SameStore

LEMMA RulesOfMove ==
  ASSUME TypesInv, RulesInv, NEW u \in Users, NEW r, MovesOn(u, r), SameStore
  PROVE  RulesInv'
  <1>1. \A w \in Users : user'[w].run = user[w].run /\ (user'[w].phase = "idle" => user[w].phase = "idle")
    BY DEF MovesOn, TypesInv
  <1>2. ASSUME NEW w \in Users PROVE WriterOf(w)'
    BY <1>1 DEF RulesInv, WriterOf, SameStore
  <1>3. QED
    BY <1>2 DEF RulesInv, SameStore

LEMMA RulesOfHandle ==
  ASSUME TypesInv, RulesInv, NEW u \in Users, NEW r, MovesOn(u, r), HandleEffect(u)
  PROVE  RulesInv'
  <1>1. /\ \A w \in Users : user'[w].run = user[w].run /\ (user'[w].phase = "idle" => user[w].phase = "idle")
        /\ user'[u].phase # "idle"
    BY DEF MovesOn, TypesInv
  <1>2. overwrote \subseteq overwrote' /\ overwrote' \subseteq overwrote \cup {u}
    BY DEF HandleEffect
  <1>3. u \in overwrote' => u \in overwrote \/ user[u].run = "policy"
    BY DEF HandleEffect
  <1>4. ASSUME NEW w \in Users PROVE WriterOf(w)'
    <2>1. WriterOf(w)
      BY DEF RulesInv
    <2>2. CASE w = u
      BY <1>1, <1>2, <1>3, <2>1, <2>2 DEF WriterOf
    <2>3. CASE w # u
      BY <1>1, <1>2, <2>1, <2>3 DEF WriterOf
    <2>4. QED
      BY <2>2, <2>3
  <1>5. ASSUME overwrote' = {}, NEW rule \in rules'.enacted, rule \notin settings'.policy
        PROVE  rule \in rules'.removed
    <2>1. overwrote = {} /\ rule \in rules.enacted /\ u \notin overwrote'
      BY <1>2, <1>5 DEF HandleEffect
    <2>2. rule \in settings.policy \/ rule \in rules.removed
      BY <2>1 DEF RulesInv
    <2>3. CASE rule \in rules.removed
      BY <1>5, <2>3 DEF HandleEffect
    <2>4. CASE rule \in settings.policy
      <3>1. settings'.policy # settings.policy
        BY <1>5, <2>4
      <3>2. settings.policy = user[u].copy.policy /\ user[u].copy.policy \ settings'.policy \subseteq rules'.removed
        BY <2>1, <3>1 DEF HandleEffect
      <3>3. QED
        BY <1>5, <2>4, <3>2
    <2>5. QED
      BY <2>2, <2>3, <2>4
  <1>6. QED
    BY <1>2, <1>4, <1>5 DEF RulesInv

LEMMA RulesStep == TypesInv /\ RulesInv /\ ClientsStep => RulesInv'
  <1> SUFFICES ASSUME TypesInv, RulesInv, ClientsStep PROVE RulesInv'
    OBVIOUS
  <1>1. CASE UNCHANGED <<user, spent, acted, settings, rules, overwrote>>
    BY <1>1 DEF RulesInv, WriterOf
  <1>2. CASE RestartGateway
    BY <1>2 DEF RestartGateway, RulesInv, WriterOf, NoRules
  <1>3. QED
    BY <1>1, <1>2, RulesOfStart, RulesOfMove, RulesOfHandle, Zenon DEF ClientsStep

(***************************************************************************)
(* However many tabs and panels edit the settings at the same time, and    *)
(* however often the gateway restarts: a rule that was in force since it   *)
(* started disappears only when a Policy tab that had loaded it takes it   *)
(* out, or when one saves a copy older than the policy in force (PATCH     *)
(* /admin/config replaces the policy as a whole).                          *)
(***************************************************************************)
THEOREM RulesSurvivePanels == ClientsSpec => []RulesLostToPolicyTabsOnly
  <1>1. ClientsInit => RulesInv
    BY DEF ClientsInit, RulesInv, WriterOf, NoRules
  <1>2. TypesInv /\ RulesInv /\ [ClientsNext]_clientVars => TypesInv' /\ RulesInv'
    BY TypesStep, RulesStep
  <1>3. RulesInv => RulesLostToPolicyTabsOnly
    BY DEF RulesInv, WriterOf, RulesLostToPolicyTabsOnly
  <1>4. QED
    BY <1>1, <1>2, <1>3, TypesStart, PTL DEF ClientsSpec

-----------------------------------------------------------------------------
(* Refusals and partial changes                                            *)

Refusable == {"edit agent", "register connection"}

\* Answers that say nothing against the form of the call or its signature.
Unreplayed == {"ok", "lost", "throttled", "filtered", "unverified", "refused"}

LEMMA StrictlyBefore == \A i \in 1..6, n \in Nat : i <= n /\ i # n => i < n
  OBVIOUS

LEMMA SignatureOf ==
  ASSUME NEW run \in DOMAIN Programs, NEW i \in DOMAIN Programs[run], NEW j \in DOMAIN Programs[run], i < j
  PROVE  /\ run \in Refusable \/ Programs[run][j].typ = "none" \/ Programs[run][i].key # Programs[run][j].key
         /\ run = "edit agent" \/ Programs[run][j].skip # 0 \/ Programs[run][i].method = "GET"
  <1> DEFINE calls == Programs[run]
             Apart(k, l) ==
               k < l =>
                 /\ run \notin {"edit agent", "register connection"} /\ calls[l].typ # "none"
                      => calls[k].key # calls[l].key
                 /\ run # "edit agent" /\ calls[l].skip = 0 => calls[k].method = "GET"
  <1>1. \A k, l \in DOMAIN calls : Apart(k, l)
    BY SignaturesAssumption, Zenon
  <1> HIDE DEF calls
  <1>2. Apart(i, j)
    <2> HIDE DEF Apart
    <2>1. QED
      BY <1>1, Zenon DEF calls
  <1>3. QED
    BY <1>2, Zenon DEF Refusable, calls

\* The row's program has sent its i-th call, or is past it.
Handled(row, i) ==
  /\ i \in DOMAIN Programs[row.run] /\ i <= row.at
  /\ row.phase = "ready" => i < row.at

\* Keys: the signatures of the row's user that were spent; places: the calls
\* that took effect.  Both are of calls that the program has made, and it gave
\* up at a call whose failure it does not catch.
HistoryOK(row, keys, places) ==
  /\ row.phase = "idle" => keys = {} /\ places = {}
  /\ row.phase # "idle" =>
       /\ \A k \in keys : \E i : Handled(row, i) /\ Programs[row.run][i].key = k
       /\ \A i \in places : Handled(row, i) /\ Programs[row.run][i].method # "GET"
  /\ row.phase = "sent" =>
       \/ row.answer \in Unreplayed
       \/ row.answer = "replayed" /\ row.run \in Refusable
  /\ row.phase = "failed" =>
       row.at \in DOMAIN Programs[row.run] /\ Programs[row.run][row.at].skip = 0

KeysOf(u) == {k \in 1..3 : <<u, k>> \in spent}

PlacesOf(u) == {i \in 1..6 : <<u, i>> \in acted}

HistoryInv == \A u \in Users : HistoryOK(user[u], KeysOf(u), PlacesOf(u))

LEMMA HistoryOfSent ==
  ASSUME NEW row, RowOK(row), row.phase = "ready", NEW answer, NEW copy,
         NEW keys, NEW places, HistoryOK(row, keys, places),
         NEW keys2 \in SUBSET (keys \cup {Programs[row.run][row.at].key}),
         NEW places2 \in SUBSET (places \cup {row.at}),
         row.at \in places2 => Programs[row.run][row.at].method # "GET",
         \/ answer \in Unreplayed
         \/ answer = "replayed" /\ row.run \in Refusable
  PROVE  HistoryOK(SentRow(row, answer, copy), keys2, places2)
  <1> DEFINE r == SentRow(row, answer, copy)
  <1>1. row \in User /\ row.at \in DOMAIN Programs[row.run] /\ row.at \in Nat
    BY DEF RowOK, User
  <1>2. r.run = row.run /\ r.at = row.at /\ r.phase = "sent" /\ r.answer = answer
    BY <1>1 DEF SentRow, User
  <1> HIDE DEF r
  <1>3. \A i : Handled(row, i) => Handled(r, i)
    BY <1>2 DEF Handled
  <1>4. Handled(r, row.at)
    BY <1>1, <1>2 DEF Handled
  <1>5. \A k \in keys2 : \E i : Handled(r, i) /\ Programs[r.run][i].key = k
    BY <1>2, <1>3, <1>4 DEF HistoryOK
  <1>6. \A i \in places2 : Handled(r, i) /\ Programs[r.run][i].method # "GET"
    BY <1>2, <1>3, <1>4 DEF HistoryOK
  <1>7. HistoryOK(r, keys2, places2)
    BY <1>2, <1>5, <1>6 DEF HistoryOK
  <1>8. QED
    BY <1>7 DEF r

LEMMA HistoryOfNext ==
  ASSUME NEW row, RowOK(row), row.phase = "sent", NEW n \in 1..2,
         NEW keys, NEW places, HistoryOK(row, keys, places)
  PROVE  HistoryOK(NextRow(row, n), keys, places)
  <1> DEFINE r == NextRow(row, n)
             to == row.at + n
             phase == IF to > Len(Programs[row.run]) THEN "done" ELSE "ready"
  <1>1. row \in User /\ row.at \in Nat
    BY DEF RowOK, User
  <1>2. r = [row EXCEPT !.at = to, !.answer = "none", !.phase = phase] /\ to \in Nat /\ to > row.at
    BY <1>1 DEF NextRow
  <1>3. phase \in {"done", "ready"}
    OBVIOUS
  <1> HIDE DEF to, phase
  <1>4. r.run = row.run /\ r.at = to /\ r.phase \in {"done", "ready"}
    BY <1>1, <1>2, <1>3 DEF User
  <1> HIDE DEF r
  <1>5. \A i : Handled(row, i) => Handled(r, i)
    <2>1. ASSUME NEW i, Handled(row, i) PROVE Handled(r, i)
      <3>1. i \in Nat
        <4>1. row.run \in DOMAIN Programs /\ row.at \in DOMAIN Programs[row.run]
          BY DEF RowOK
        <4>2. DOMAIN Programs[row.run] = 1..Len(Programs[row.run]) /\ Len(Programs[row.run]) \in Nat
          BY <4>1, CallOfRow
        <4>3. QED
          BY <2>1, <4>2 DEF Handled
      <3>2. QED
        BY <1>1, <1>2, <1>4, <2>1, <3>1 DEF Handled
    <2>2. QED
      BY <2>1
  <1>6. HistoryOK(r, keys, places)
    BY <1>4, <1>5 DEF HistoryOK
  <1>7. QED
    BY <1>6 DEF r

\* One row changes, and of the history only what concerns its user.
LEMMA OneRowKeepsHistory ==
  ASSUME TypesInv, HistoryInv, NEW u \in Users, NEW r, user' = [user EXCEPT ![u] = r],
         HistoryOK(r, KeysOf(u)', PlacesOf(u)'),
         \A w \in Users \ {u} : KeysOf(w)' = KeysOf(w) /\ PlacesOf(w)' = PlacesOf(w)
  PROVE  HistoryInv'
  <1>1. \A w \in Users : user'[w] = IF w = u THEN r ELSE user[w]
    BY DEF TypesInv
  <1>2. ASSUME NEW w \in Users PROVE HistoryOK(user'[w], KeysOf(w)', PlacesOf(w)')
    <2>1. CASE w = u
      BY <1>1, <2>1
    <2>2. CASE w # u
      <3>1. HistoryOK(user[w], KeysOf(w), PlacesOf(w))
        BY DEF HistoryInv
      <3>2. user'[w] = user[w] /\ KeysOf(w)' = KeysOf(w) /\ PlacesOf(w)' = PlacesOf(w)
        BY <1>1, <2>2
      <3>3. QED
        BY <3>1, <3>2
    <2>3. QED
      BY <2>1, <2>2
  <1>3. QED
    BY <1>2 DEF HistoryInv, HistoryOK, Handled

LEMMA SameHistory == SameStore => \A w : KeysOf(w)' = KeysOf(w) /\ PlacesOf(w)' = PlacesOf(w)
  BY DEF SameStore, KeysOf, PlacesOf

LEMMA HistoryOfStart ==
  ASSUME TypesInv, HistoryInv, NEW u \in Users, NEW run \in Runs[u], Start(u, run)
  PROVE  HistoryInv'
  <1> DEFINE row == user[u]
             r == [row EXCEPT !.run = run, !.at = 1, !.phase = "ready"]
  <1>1. row \in User /\ row.phase = "idle" /\ user' = [user EXCEPT ![u] = r] /\ SameStore
    BY DEF TypesInv, Start, SameStore
  <1>2. r.phase = "ready"
    BY <1>1 DEF User
  <1>3. KeysOf(u) = {} /\ PlacesOf(u) = {}
    BY <1>1 DEF HistoryInv, HistoryOK
  <1> HIDE DEF r
  <1>4. HistoryOK(r, KeysOf(u)', PlacesOf(u)')
    BY <1>1, <1>2, <1>3, SameHistory DEF HistoryOK
  <1>5. QED
    BY <1>1, <1>4, SameHistory, OneRowKeepsHistory

LEMMA HistoryOfUndelivered ==
  ASSUME TypesInv, HistoryInv, NEW u \in Users,
         Undelivered(u, "lost") \/ Undelivered(u, "throttled") \/ FromCache(u)
  PROVE  HistoryInv'
  <1> DEFINE row == user[u]
  <1>1. PICK answer \in {"lost", "throttled", "ok"} : user' = [user EXCEPT ![u] = SentRow(row, answer, row.copy)]
    BY DEF Undelivered, FromCache, Answered, SentRow
  <1>2. SameStore /\ row.phase = "ready" /\ RowOK(row) /\ HistoryOK(row, KeysOf(u), PlacesOf(u))
    BY DEF Undelivered, FromCache, SameStore, TypesInv, HistoryInv
  <1>3. \A w : KeysOf(w)' = KeysOf(w) /\ PlacesOf(w)' = PlacesOf(w)
    BY <1>2, SameHistory
  <1>4. row.at \notin PlacesOf(u)
    BY <1>2 DEF HistoryOK, Handled, RowOK, User
  <1> DEFINE r == SentRow(row, answer, row.copy)
  <1>5. HistoryOK(r, KeysOf(u), PlacesOf(u))
    <2> HIDE DEF row
    <2>1. KeysOf(u) \in SUBSET (KeysOf(u) \cup {Programs[row.run][row.at].key})
      OBVIOUS
    <2>2. PlacesOf(u) \in SUBSET (PlacesOf(u) \cup {row.at})
      OBVIOUS
    <2>3. QED
      BY <1>2, <1>4, <2>1, <2>2, HistoryOfSent DEF Unreplayed
  <1> HIDE DEF r
  <1>6. HistoryOK(r, KeysOf(u)', PlacesOf(u)')
    BY <1>3, <1>5
  <1>7. user' = [user EXCEPT ![u] = r]
    BY <1>1 DEF r
  <1>8. QED
    BY <1>3, <1>6, <1>7, OneRowKeepsHistory

LEMMA HistoryOfHandle ==
  ASSUME TypesInv, HistoryInv, NEW u \in Users, NEW edit \in Edits(u), NEW ipFilter \in {"open", "shut"},
         NEW refusal \in Refusals, NEW delivered \in BOOLEAN,
         Handle(u, edit, ipFilter, refusal, delivered)
  PROVE  HistoryInv'
  <1> DEFINE row == user[u]
             call == Forwarded(CallOf(u))
             to == Targets[row.run][row.at]
             key == <<u, call.key>>
             seen == key \in spent
             filtered == settings.ipFilter = "shut"
             verdict == Verdict(to, call, seen, filtered, refusal)
             answer == IF delivered THEN verdict ELSE "lost"
  <1>1. /\ RowOK(row) /\ row \in User /\ row.phase = "ready"
        /\ HistoryOK(row, KeysOf(u), PlacesOf(u))
    BY DEF TypesInv, RowOK, Handle, HistoryInv
  <1>2. row.run \in DOMAIN Programs /\ row.at \in DOMAIN Programs[row.run] /\ CallOf(u) = Programs[row.run][row.at]
    BY <1>1 DEF RowOK, CallOf
  <1>3. CallOf(u) \in ClientCall /\ row.at \in 1..6 /\ CallOf(u).key \in 0..3
        /\ (CallOf(u).typ # "none" => CallOf(u).key > 0)
    BY <1>2, CallOfRow DEF ClientCall
  <1>4. call.method = CallOf(u).method /\ call.typ = CallOf(u).typ /\ call.key = CallOf(u).key
    BY <1>3, ForwardedKeeps
  <1>5. /\ spent' = IF Spends(to, verdict) THEN spent \cup {key} ELSE spent
        /\ acted' = IF verdict = "ok" /\ call.method # "GET" THEN acted \cup {<<u, row.at>>} ELSE acted
    BY DEF Handle
  <1>6. PICK copy : user' = [user EXCEPT ![u] = SentRow(row, answer, copy)]
    BY DEF Handle, Answered, SentRow
  <1>7. \/ verdict \in {"ok", "filtered", "unverified", "refused"}
        \/ verdict = "replayed" /\ seen /\ call.typ # "none"
    <2>1. Verdict(to, call, FALSE, FALSE, "none") = "ok"
      BY <1>2, RoutesAssumption
    <2>2. seen \in BOOLEAN /\ filtered \in BOOLEAN
      OBVIOUS
    <2> HIDE DEF call, seen, to, filtered
    <2>3. QED
      BY <2>1, <2>2 DEF Verdict
  <1> HIDE DEF call, verdict, to
  \* A signature that was seen is that of an earlier call of the same program.
  <1>8. verdict = "replayed" => row.run \in Refusable
    <2> SUFFICES ASSUME verdict = "replayed" PROVE row.run \in Refusable
      OBVIOUS
    <2>1. CallOf(u).key \in KeysOf(u) /\ CallOf(u).typ # "none"
      BY <1>3, <1>4, <1>7 DEF KeysOf
    <2>2. PICK i : Handled(row, i) /\ Programs[row.run][i].key = CallOf(u).key
      BY <1>1, <2>1 DEF HistoryOK
    <2>3. i \in DOMAIN Programs[row.run] /\ i < row.at
      BY <1>1, <2>2 DEF Handled
    <2>4. Programs[row.run][row.at].typ # "none" /\ Programs[row.run][i].key = Programs[row.run][row.at].key
      BY <1>2, <2>1, <2>2, Zenon
    <2> HIDE DEF row
    <2>5. QED
      BY <1>2, <2>3, <2>4, SignatureOf, Zenon
  <1>9. \/ answer \in Unreplayed
        \/ answer = "replayed" /\ row.run \in Refusable
    BY <1>7, <1>8 DEF Unreplayed
  <1>10. KeysOf(u)' \in SUBSET (KeysOf(u) \cup {Programs[row.run][row.at].key})
    BY <1>2, <1>4, <1>5 DEF KeysOf
  <1>11. PlacesOf(u)' \in SUBSET (PlacesOf(u) \cup {row.at})
    BY <1>5 DEF PlacesOf
  <1>12. row.at \in PlacesOf(u)' => Programs[row.run][row.at].method # "GET"
    <2>1. row.at \notin PlacesOf(u)
      BY <1>1 DEF HistoryOK, Handled, User
    <2>2. QED
      BY <1>2, <1>4, <1>5, <2>1 DEF PlacesOf
  <1>13. \A w \in Users \ {u} : KeysOf(w)' = KeysOf(w) /\ PlacesOf(w)' = PlacesOf(w)
    BY <1>5 DEF KeysOf, PlacesOf
  <1> DEFINE r == SentRow(row, answer, copy)
             keys == KeysOf(u)'
             places == PlacesOf(u)'
  <1>14. HistoryOK(r, keys, places)
    <2> HIDE DEF row, answer, keys, places
    <2>1. keys \in SUBSET (KeysOf(u) \cup {Programs[row.run][row.at].key})
      BY <1>10 DEF keys
    <2>2. places \in SUBSET (PlacesOf(u) \cup {row.at})
      BY <1>11 DEF places
    <2>3. row.at \in places => Programs[row.run][row.at].method # "GET"
      BY <1>12 DEF places
    <2>4. QED
      BY <1>1, <1>9, <2>1, <2>2, <2>3, HistoryOfSent
  <1> HIDE DEF r
  <1>15. user' = [user EXCEPT ![u] = r]
    BY <1>6 DEF r
  <1>16. QED
    BY <1>13, <1>14, <1>15, OneRowKeepsHistory

LEMMA HistoryOfReceive ==
  ASSUME TypesInv, HistoryInv, NEW u \in Users, Receive(u)
  PROVE  HistoryInv'
  <1> DEFINE row == user[u]
  <1>1. /\ RowOK(row) /\ row \in User /\ row.phase = "sent" /\ SameStore
        /\ HistoryOK(row, KeysOf(u), PlacesOf(u))
    BY DEF TypesInv, RowOK, Receive, SameStore, HistoryInv
  <1>2. row.run \in DOMAIN Programs /\ row.at \in DOMAIN Programs[row.run] /\ CallOf(u) = Programs[row.run][row.at]
    BY <1>1 DEF RowOK, CallOf
  <1>3. CallOf(u).skip \in 0..2
    BY <1>2, CallOfRow DEF ClientCall
  <1>4. \A w : KeysOf(w)' = KeysOf(w) /\ PlacesOf(w)' = PlacesOf(w)
    BY <1>1, SameHistory
  <1>5. ASSUME NEW r, user' = [user EXCEPT ![u] = r], HistoryOK(r, KeysOf(u), PlacesOf(u))
        PROVE  HistoryInv'
    BY <1>4, <1>5, OneRowKeepsHistory
  <1>6. ASSUME NEW n \in 1..2, Advance(u, n) PROVE HistoryInv'
    <2> DEFINE r == NextRow(row, n)
    <2>1. user' = [user EXCEPT ![u] = r]
      BY <1>6 DEF Advance, NextRow
    <2>2. HistoryOK(r, KeysOf(u), PlacesOf(u))
      <3> HIDE DEF row
      <3>1. QED
        BY <1>1, HistoryOfNext
    <2> HIDE DEF r
    <2>3. QED
      BY <1>5, <2>1, <2>2
  <1>7. ASSUME CallOf(u).skip = 0, user' = [user EXCEPT ![u] = [@ EXCEPT !.phase = "failed", !.answer = "none"]]
        PROVE  HistoryInv'
    <2> DEFINE r == [row EXCEPT !.phase = "failed", !.answer = "none"]
    <2>1. user' = [user EXCEPT ![u] = r]
      BY <1>7
    <2>2. r.run = row.run /\ r.at = row.at /\ r.phase = "failed"
      BY <1>1 DEF User
    <2> HIDE DEF r
    <2>3. \A i : Handled(row, i) => Handled(r, i)
      BY <2>2 DEF Handled
    <2>4. HistoryOK(r, KeysOf(u), PlacesOf(u))
      BY <1>1, <1>2, <1>7, <2>2, <2>3 DEF HistoryOK
    <2>5. QED
      BY <1>5, <2>1, <2>4
  <1>8. CASE Advance(u, 1)
    <2>1. 1 \in 1..2
      OBVIOUS
    <2>2. QED
      BY <1>6, <1>8, <2>1, Zenon
  <1>9. CASE CallOf(u).skip > 0 /\ Advance(u, CallOf(u).skip)
    <2>1. CallOf(u).skip \in 1..2
      BY <1>3, <1>9
    <2>2. QED
      BY <1>6, <1>9, <2>1, Zenon
  <1>10. QED
    BY <1>7, <1>8, <1>9, Zenon DEF Receive

LEMMA HistoryStart == ClientsInit => HistoryInv
  <1> SUFFICES ASSUME ClientsInit, NEW u \in Users PROVE HistoryOK(user[u], KeysOf(u), PlacesOf(u))
    BY DEF HistoryInv
  <1>1. user[u].phase = "idle" /\ KeysOf(u) = {} /\ PlacesOf(u) = {}
    BY DEF ClientsInit, KeysOf, PlacesOf
  <1>2. QED
    BY <1>1 DEF HistoryOK

LEMMA HistoryStep ==
  ASSUME TypesInv, HistoryInv, [ClientsNext]_clientVars
  PROVE  HistoryInv'
  <1>1. CASE CacheExpires \/ RestartGateway \/ UNCHANGED clientVars
    <2>1. UNCHANGED <<user, spent, acted>>
      BY <1>1 DEF CacheExpires, RestartGateway, clientVars
    <2>2. QED
      BY <2>1 DEF HistoryInv, HistoryOK, Handled, KeysOf, PlacesOf
  <1>2. QED
    BY <1>1, HistoryOfStart, HistoryOfHandle, HistoryOfUndelivered, HistoryOfReceive, Zenon DEF ClientsNext

LEMMA HistoryHolds == ClientsSpec => [](TypesInv /\ HistoryInv)
  <1>1. TypesInv /\ HistoryInv /\ [ClientsNext]_clientVars => TypesInv' /\ HistoryInv'
    BY TypesStep, HistoryStep
  <1>2. QED
    BY <1>1, TypesStart, HistoryStart, PTL DEF ClientsSpec

(***************************************************************************)
(* For any number of client programs, every loss of requests and answers   *)
(* and every refusal of the pipeline, the state check and the handlers:    *)
(* no call is sent to a route that does not know it, with the wrong kind   *)
(* of token or without a field, and none is refused as a replay but in the *)
(* two dashboard forms that sign once for two calls.  That each call fits  *)
(* a route when its token is fresh is RoutesAssumption, that no other      *)
(* program sends a signature twice SignaturesAssumption, both evaluated by *)
(* TLC on the tables; proved is that no order of calls, losses, refusals   *)
(* and failures makes the gateway see a token again.                       *)
(***************************************************************************)
THEOREM OnlyReplaysAreRefused == ClientsSpec => []RefusalsAreReplays
  <1>1. HistoryInv => RefusalsAreReplays
    BY DEF HistoryInv, HistoryOK, Refusable, Unreplayed, RefusalsAreReplays
  <1>2. QED
    BY <1>1, HistoryHolds, PTL

(***************************************************************************)
(* A program that reports failure has changed nothing before the call it   *)
(* failed at, whatever was lost or refused on the way; the edit form is    *)
(* the exception (save of EditAgentForm.tsx).                              *)
(***************************************************************************)
THEOREM FailuresLeaveNothing == ClientsSpec => []PartialOnlyEdits
  <1>1. TypesInv /\ HistoryInv => PartialOnlyEdits
    <2> SUFFICES ASSUME TypesInv, HistoryInv, NEW u \in Users, user[u].phase = "failed",
                        NEW i \in 1..6, <<u, i>> \in acted, i # user[u].at, user[u].run # "edit agent"
                 PROVE  FALSE
      BY DEF PartialOnlyEdits
    <2> DEFINE row == user[u]
    <2>1. HistoryOK(row, KeysOf(u), PlacesOf(u)) /\ row.run \in DOMAIN Programs /\ row.at \in Nat
      BY DEF HistoryInv, TypesInv, RowOK, User
    <2>2. Handled(row, i) /\ Programs[row.run][i].method # "GET"
      BY <2>1 DEF HistoryOK, PlacesOf
    <2>3. row.at \in DOMAIN Programs[row.run] /\ Programs[row.run][row.at].skip = 0
      BY <2>1 DEF HistoryOK
    <2>4. i \in DOMAIN Programs[row.run] /\ i <= row.at
      BY <2>2 DEF Handled
    <2>5. i < row.at
      <3>1. i # row.at
        OBVIOUS
      <3>2. QED
        BY <2>1, <2>4, <3>1, StrictlyBefore, Zenon
    <2>6. QED
      BY <2>1, <2>2, <2>3, <2>4, <2>5, SignatureOf, Zenon
  <1>2. QED
    BY <1>1, HistoryHolds, PTL
=============================================================================
