------------------------------- MODULE Intake -------------------------------
(***************************************************************************)
(* One device uploads to one memory service that other clients use too:    *)
(* DeviceSync and Memorize composed over the requests in flight.  A call   *)
(* the device has given up on is still served, beside its own retry.       *)
(***************************************************************************)
EXTENDS DeviceSync, Memorize

CONSTANTS ClientBatches,  \* what other clients may add in a call
          MaxCalls,       \* bound: calls of other clients
          MaxFaults       \* bound: failures of every kind

ASSUME IntakeAssumption ==
    /\ None \notin Slots
    /\ Sessions = 0 .. MaxDay
    /\ MaxBatch \in Nat \ {0}
    /\ MaxCells \in {1, 2}
    /\ {MaxDay, MaxLines, MaxCalls, MaxFaults} \subseteq Nat

VARIABLES calls,  \* of other clients
          faults

environment == <<calls, faults>>
vars == <<deviceVars, serverVars, environment>>

Init == /\ InitDevice
        /\ InitServer
        /\ calls = 0
        /\ faults = 0

Fault == faults < MaxFaults /\ faults' = faults + 1
NoFault == UNCHANGED faults

-----------------------------------------------------------------------------
(* The device and the service. *)

Post(r) ==
    /\ \E n \in 1 .. Len(lines) :
          LET K == Taken(n) IN
          /\ PostBatch(n, r)
          /\ Accept(r, SessionId(K), {ToSyncMessage(k, K) : k \in K}, FALSE, FALSE)
    /\ UNCHANGED environment

(* Mutant: any answer moves the cursor. *)
Is2xx_AnyAnswer(r) == request[r].at \in {"ok", "err"}

Is2xx(r) == request[r].at = "ok"
Answered == flight # None /\ request[flight].at \in {"ok", "err"}

Acknowledged ==
    /\ Answered /\ Is2xx(flight)
    /\ SaveCursor(FALSE)
    /\ Release(flight)
    /\ UNCHANGED environment

Refused ==
    /\ Answered /\ ~ Is2xx(flight)
    /\ KeepCursor
    /\ Release(flight)
    /\ UNCHANGED environment

(* The 8 s of the device are over; the service knows nothing of it. *)
GivesUp ==
    /\ flight # None
    /\ KeepCursor
    /\ Fault
    /\ UNCHANGED <<serverVars, calls>>

SaveFails ==
    /\ \/ Answered /\ Is2xx(flight) /\ SaveCursor(TRUE) /\ Release(flight)
       \/ SkipUptime(TRUE) /\ UNCHANGED serverVars
    /\ Fault
    /\ UNCHANGED calls

PowerLoss ==
    /\ Reboot
    /\ Fault
    /\ UNCHANGED <<serverVars, calls>>

DeviceAlone ==
    /\ Remember \/ SkipUptime(FALSE) \/ NtpAnswers \/ Midnight
    /\ UNCHANGED <<serverVars, environment>>

-----------------------------------------------------------------------------
(* Other clients: a hub that adds with or without extraction, and whoever  *)
(* asks for a flush.                                                       *)

ClientCall == /\ calls < MaxCalls
              /\ calls' = calls + 1
              /\ UNCHANGED <<deviceVars, faults>>

ClientAdd(r) ==
    /\ ClientCall
    /\ \E b \in ClientBatches :
          Accept(r, b.session, b.messages, FALSE, b.deferred)

ClientFlush(r) ==
    /\ ClientCall
    /\ \E s \in Sessions : Accept(r, s, {}, TRUE, FALSE)

CallerGone(r) ==
    /\ flight # r
    /\ Release(r)
    /\ UNCHANGED <<deviceVars, environment>>

-----------------------------------------------------------------------------
ServeRequest(r) == Serve(r) /\ UNCHANGED <<deviceVars, environment>>

ServerFault ==
    /\ Crash \/ \E r \in Slots : Fails(r)
    /\ Fault
    /\ UNCHANGED <<deviceVars, calls>>

Next ==
    \/ DeviceAlone
    \/ Acknowledged \/ Refused \/ GivesUp \/ SaveFails \/ PowerLoss
    \/ \E r \in Slots : \/ Post(r) \/ ServeRequest(r)
                        \/ ClientAdd(r) \/ ClientFlush(r) \/ CallerGone(r)
    \/ ServerFault

Spec == Init /\ [][Next]_vars

(* The loop of the device calls syncNow at every interval, and the event   *)
(* loop of the service runs every handler; the model answers sooner or     *)
(* later, and a failure of any kind does not repeat for ever.              *)
Fairness ==
    /\ WF_vars(\E r \in Slots : Post(r))
    /\ WF_vars(SkipUptime(FALSE) /\ UNCHANGED <<serverVars, environment>>)
    /\ WF_vars(Acknowledged)
    /\ WF_vars(Refused)
    /\ \A r \in Slots : WF_vars(ServeRequest(r)) /\ WF_vars(CallerGone(r))

FairSpec == Spec /\ Fairness
=============================================================================
