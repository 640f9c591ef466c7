------------------------- MODULE GatewayInvariants -------------------------
(***************************************************************************)
(* Why the safety properties of Gateway hold: beside Ladder, six           *)
(* invariants that every step preserves (with the types and Ladder), all   *)
(* but PayloadIsDecided stronger than one of the properties.               *)
(***************************************************************************)
EXTENDS Gateway

(* A delivery holds its idempotency key while its row exists, while a call  *)
(* of it is under way, and for ever once it has been called: no other       *)
(* delivery ever holds the key, not even after the source was deleted with  *)
(* all its rows.                                                            *)
HoldsKey(d) ==
    \/ DeliveryExists(d)
    \/ \E a \in Actions : calls[<<d, a>>] > 0
    \/ \E g \in Goroutines : InFlight(g) /\ key[g][1] = d
KeyIsHeldOnce ==
    \A d \in Deliveries : HoldsKey(d) =>
        /\ DeliveryExists(d) \/ mode[SourceOf[d]] = "deleted"
        /\ \A e \in Deliveries : Rivals(d, e) => ~HoldsKey(e)

(* Until the operator forwards it, a delivery of a source in record mode is *)
(* in no forced message and in no request to forward, has no attempt, and   *)
(* who works on it has not passed the test of the mode.                     *)
Forwards(h, d) == /\ at[h] \in {"rearm", "force", "unarm"}
                  /\ d = req[h].id \/ d \in req[h].rest
HeldBack(d) ==
    /\ \A a \in Actions, n \in Numbers : attempt[<<d, a, n>>] = "none"
    /\ \A i \in 1 .. Len(stream) : stream[i] # Forced(d)
    /\ \A g \in Fanouts : Forced(d) \notin work[g]
    /\ \A h \in Handlers : ~Forwards(h, d)
    /\ \A g \in Goroutines : pc[g] # "idle" /\ job[g].id = d =>
          pc[g] \in {"source", "close"} /\ ~job[g].force
UnforwardedIsHeldBack ==
    edits = 0 => \A d \in Deliveries :
        mode[SourceOf[d]] = "record" /\ forwarded[d] = 0 => HeldBack(d)

(* Whether the calls carry what was posted or what a run of the script has  *)
(* made of it is decided by whether the source has a script; and a result   *)
(* is stored before the first attempt exists, for the retries to read.      *)
PayloadOf(d) == IF scripted[SourceOf[d]] THEN "transformed" ELSE "original"
Stored(d) == scripted[SourceOf[d]] => d \in transformed
Carries(g) ==
    LET d == job[g].id IN
    /\ DeliveryExists(d)
    /\ pc[g] \in {"claim", "list"} => job[g].script = scripted[SourceOf[d]]
    /\ pc[g] = "store" => scripted[SourceOf[d]]
    /\ pc[g] \in {"action", "store", "dispatch", "send", "result"} =>
          job[g].payload = PayloadOf(d)
    /\ pc[g] \in {"dispatch", "send", "result"} => Stored(d)
    /\ InFlight(g) => key[g][1] = d
PayloadIsDecided ==
    edits = 0 /\ dbFaults = 0 =>
        /\ \A d \in Deliveries : carried[d] \subseteq {PayloadOf(d)}
        /\ \A d \in transformed : scripted[SourceOf[d]]
        /\ \A k \in Keys : attempt[k] # "none" => Stored(k[1])
        /\ \A g \in Goroutines : pc[g] # "idle" => Carries(g)

(* A retry poller that goes on to clear a schedule has seen the next        *)
(* attempt into the table.                                                  *)
NextOf(k) == <<k[1], k[2], k[3] + 1>>
Retrying(g) ==
    LET k == job[g].prev IN
    /\ pc[g] \in {"action", "dispatch"} => job[g].acts = {k[2]}
    /\ InFlight(g) => job[g].acts = {} /\ key[g] = NextOf(k)
    /\ pc[g] = "clear" => attempt[NextOf(k)] # "none"
RetriesAreKept ==
    dbFaults = 0 /\ edits = 0 /\ transforms = {} =>
        Unretried \subseteq scheduled /\ \A g \in RetryPollers : Retrying(g)

(* Whoever is about to write a verdict has read it off the last attempts of *)
(* all active actions, and what was true of those stays true.               *)
Judges(g) ==
    LET d == job[g].id IN
    /\ pc[g] \in {"claim", "list"} => job[g].script = scripted[SourceOf[d]]
    /\ pc[g] = "store" => scripted[SourceOf[d]]
    /\ pc[g] = "rollAttempts" => job[g].acts = ListActiveBySource(SourceOf[d])
    /\ pc[g] = "close" /\ res[g] \in Terminal /\ ~scripted[SourceOf[d]] =>
          Earned(d, res[g])
VerdictsAreEarned ==
    /\ \A k \in Keys : attempt[k] = "success" => PairOf(k) \in acked
    /\ VerdictIsEarned
    /\ edits = 0 => \A g \in Goroutines : pc[g] # "idle" => Judges(g)

(* Who stops looking after a delivery leaves it to somebody: as soon as it  *)
(* has one attempt, every active action has been entered or is in the loop  *)
(* of a fan-out, and who made a pending attempt is there to record it.      *)
Entered(d, a) == attempt[<<d, a, 1>>] # "none"
InLoop(g) == pc[g] \in {"dispatch", "send", "result"}
Entering(g, d, a) == InLoop(g) /\ job[g].id = d /\ a \in job[g].acts
EntersAll(g) ==
    LET d == job[g].id IN
    InLoop(g) \/ pc[g] \in {"rollActions", "rollAttempts"} =>
        \A a \in ListActiveBySource(SourceOf[d]) : Entered(d, a) \/ Entering(g, d, a)
AllAreEntered(d) ==
    \A a \in ListActiveBySource(SourceOf[d]) :
        Entered(d, a) \/ \E g \in Fanouts : Entering(g, d, a)
ProcessingIsHandedOn ==
    Calm =>
        /\ ProcessingIsAttended
        /\ \A d \in Deliveries : DeliveryExists(d) => SourceExists(SourceOf[d])
        /\ \A k \in Keys : attempt[k] = "pending" =>
              \E g \in Goroutines : InFlight(g) /\ key[g] = k
        /\ \A k \in Keys : attempt[k] # "none" /\ ~scripted[SourceOf[k[1]]] =>
              AllAreEntered(k[1])
        /\ \A g \in Fanouts : pc[g] # "idle" /\ ~scripted[SourceOf[job[g].id]] =>
              EntersAll(g)
=============================================================================
