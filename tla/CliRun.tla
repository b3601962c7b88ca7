------------------------------- MODULE CliRun -------------------------------
(***************************************************************************)
(* `conduit run -- <agent-command>`: the wrapper registers a fresh agent,  *)
(* starts the identity proxy, spawns the command with the proxy's address, *)
(* forwards signals to it and revokes the agent when it ends.  Signals, the *)
(* command's end, a crash of the wrapper and answers of the gateway come   *)
(* in any order; the gateway may be unreachable or refuse.                 *)
(***************************************************************************)
EXTENDS Naturals

VARIABLES
  step,     \* where runAgent is: "running" once the handlers are installed
  agent,    \* the agent at the gateway
  child,    \* the wrapped command; "reported" once its end was handled
  killed,   \* child.killed: a signal was sent to it
  cleaned,  \* the flag of cleanup
  revoke,   \* the one cleanup under way: where its revocation is
  endings,  \* calls of cleanup so far
  faults    \* what went wrong so far

runVars == <<step, agent, child, killed, cleaned, revoke, endings, faults>>

Steps == {"discover", "register", "answer", "listen", "spawn", "running", "exited"}

Faults == {"signalled", "unbound", "unspawned", "killed", "unanswered", "crash", "refused",
           "unreachable"}

RunTypeOK ==
  /\ step \in Steps
  /\ agent \in {"none", "active", "revoked"}
  /\ child \in {"none", "up", "failed", "down", "reported"}
  /\ child # "none" => step \in {"running", "exited"}
  /\ killed \in BOOLEAN /\ cleaned \in BOOLEAN
  /\ revoke \in {"none", "sign", "send", "commit", "returned"}
  /\ step # "exited" => (cleaned <=> revoke # "none")
  /\ endings \in 0..2
  /\ endings = 2 => step = "exited"
  /\ faults \subseteq Faults

RunInit ==
  /\ step = "discover" /\ agent = "none"
  /\ child = "none" /\ killed = FALSE /\ cleaned = FALSE
  /\ revoke = "none" /\ endings = 0 /\ faults = {}

Fault(what) == faults' = faults \cup {what}

Exit == step' = "exited"

\* A request on the wire when the process goes may still reach the gateway.
InFlight ==
  agent' \in CASE step = "register" -> {"none", "active"}
              [] revoke = "send" -> {agent, "revoked"}
              [] OTHER -> {agent}

-----------------------------------------------------------------------------
(* Starting.  fail() ends the process on any refusal.                      *)

DiscoverIssuer ==
  /\ step = "discover"
  /\ step' = "register" \/ Exit
  /\ UNCHANGED <<faults, agent, child, killed, cleaned, revoke, endings>>

Register ==
  /\ step = "register"
  /\ \/ agent' = "active" /\ step' = "answer"
     \/ agent' = agent /\ Exit
  /\ UNCHANGED <<faults, child, killed, cleaned, revoke, endings>>

RegisterAnswered ==
  /\ step = "answer"
  /\ \/ step' = "listen" /\ UNCHANGED faults
     \/ Exit /\ Fault("unanswered")
  /\ UNCHANGED <<agent, child, killed, cleaned, revoke, endings>>

\* Nobody listens to the proxy's error event yet: a proxy that cannot bind ends
\* the process.
Listen ==
  /\ step = "listen"
  /\ \/ step' = "spawn" /\ UNCHANGED faults
     \/ Exit /\ Fault("unbound")
  /\ UNCHANGED <<agent, child, killed, cleaned, revoke, endings>>

\* spawn throws for a command it cannot take, and main().catch ends the process;
\* it reports a command that cannot be started with an event.
Spawn ==
  /\ step = "spawn"
  /\ \/ step' = "running" /\ child' \in {"up", "failed"} /\ UNCHANGED faults
     \/ Exit /\ Fault("unspawned") /\ UNCHANGED child
  /\ UNCHANGED <<agent, killed, cleaned, revoke, endings>>

-----------------------------------------------------------------------------
(* Signals.                                                                *)

\* Before the handlers are installed a signal ends the wrapper; afterwards it
\* is forwarded, once.
Signal ==
  /\ \/ /\ step \in Steps \ {"running", "exited"}
        /\ Exit /\ InFlight /\ Fault("signalled") /\ UNCHANGED killed
     \/ /\ step = "running" /\ child = "up" /\ ~killed
        /\ killed' = TRUE /\ UNCHANGED <<step, agent, faults>>
  /\ UNCHANGED <<child, cleaned, revoke, endings>>

ChildEnds ==
  /\ child = "up" /\ child' = "down"
  /\ UNCHANGED <<step, agent, killed, cleaned, revoke, endings, faults>>

-----------------------------------------------------------------------------
(* Endings: cleanup().then(...).  The first caller starts the revocation;  *)
(* a later one returns at once, and its continuation exits the process.    *)

Ends ==
  /\ step = "running" /\ endings' = endings + 1
  /\ IF cleaned THEN Exit /\ InFlight /\ UNCHANGED <<cleaned, revoke>>
     ELSE cleaned' = TRUE /\ revoke' = "sign" /\ UNCHANGED <<step, agent>>
  /\ UNCHANGED <<killed>>

\* uncaughtException.
Crash == Ends /\ Fault("crash") /\ UNCHANGED child

\* The command could not be started; the command ended.
ChildErrorUnhandled ==
  /\ child = "failed" /\ child' = "reported"
  /\ UNCHANGED <<step, agent, killed, cleaned, revoke, endings, faults>>

ChildError == child = "failed" /\ child' = "reported" /\ Ends /\ UNCHANGED faults
ChildExitAtOnce ==
  /\ child = "down" /\ child' = "reported" /\ step = "running" /\ Exit
  /\ UNCHANGED <<agent, killed, cleaned, revoke, endings, faults>>

ChildExit == child = "down" /\ child' = "reported" /\ Ends /\ UNCHANGED faults

-----------------------------------------------------------------------------
(* The revocation: discovery for a host JWT, then POST /agent/revoke.  An  *)
(* answer that is not ok goes through fail(), which catch does not see; a  *)
(* network error is caught and cleanup goes on.                            *)

SignRevoke ==
  /\ step = "running" /\ revoke = "sign"
  /\ \/ revoke' = "send" /\ UNCHANGED <<step, faults>>
     \/ revoke' = "returned" /\ Fault("unreachable") /\ UNCHANGED step
     \/ Exit /\ Fault("refused") /\ UNCHANGED revoke
  /\ UNCHANGED <<agent, child, killed, cleaned, endings>>

SendRevoke ==
  /\ step = "running" /\ revoke = "send"
  /\ \/ agent' = "revoked" /\ revoke' = "commit" /\ UNCHANGED <<step, faults>>
     \/ revoke' = "returned" /\ Fault("unreachable") /\ UNCHANGED <<step, agent>>
     \/ Exit /\ Fault("refused") /\ UNCHANGED <<revoke, agent>>
  /\ UNCHANGED <<child, killed, cleaned, endings>>

RevokeAnswered ==
  /\ step = "running" /\ revoke = "commit" /\ revoke' = "returned"
  /\ UNCHANGED <<step, agent, child, killed, cleaned, endings, faults>>

\* The continuation of the cleanup that did the work.
ExitAfterCleanup ==
  /\ step = "running" /\ revoke = "returned" /\ Exit
  /\ UNCHANGED <<agent, child, killed, cleaned, revoke, endings, faults>>

-----------------------------------------------------------------------------

\* SIGKILL or power loss.
Killed ==
  /\ step # "exited" /\ Exit /\ InFlight /\ Fault("killed")
  /\ UNCHANGED <<child, killed, cleaned, revoke, endings>>

RunNext ==
  \/ DiscoverIssuer \/ Register \/ RegisterAnswered \/ Listen \/ Spawn
  \/ Signal \/ ChildEnds \/ Crash \/ ChildError \/ ChildExit
  \/ SignRevoke \/ SendRevoke \/ RevokeAnswered \/ ExitAfterCleanup
  \/ Killed

RunSpec == RunInit /\ [][RunNext]_runVars

\* Node delivers the command's end and runs the continuations; a request is
\* answered or fails.  Nothing makes the command itself end.
RunFairness ==
  /\ WF_runVars(ChildError) /\ WF_runVars(ChildExit)
  /\ WF_runVars(SignRevoke) /\ WF_runVars(SendRevoke)
  /\ WF_runVars(RevokeAnswered) /\ WF_runVars(ExitAfterCleanup)

-----------------------------------------------------------------------------

\* A wrapper that is gone has left an active agent only when the proxy could not
\* bind or spawn threw, after a signal before its handlers were installed, a
\* kill, a gateway that refused or could not be reached, or two endings, the
\* second of which cut the revocation off; and it has left the command running
\* only when it crashed or was killed.  (runAgent's comment promises more: the
\* handlers are there "so we never leave a live, unrevoked agent behind", which
\* each of these causes refutes.)
LeftoversHaveCauses ==
  step = "exited" =>
    /\ agent = "active" => endings = 2 \/ faults \ {"crash"} # {}
    /\ child = "up" => faults \cap {"crash", "killed"} # {}

\* The command's end, or its failure to start, ends the wrapper.
SessionEnds == (child \in {"failed", "down"} /\ step = "running") ~> (step = "exited")
=============================================================================
