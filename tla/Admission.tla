------------------------------ MODULE Admission ------------------------------
(***************************************************************************)
(* What stands between a client and the documents of a node: the cap on    *)
(* open sockets (ws_handler, handle_socket and ConnectionGuard of          *)
(* server.rs) and the throttle of an address (extensions/throttle.rs,      *)
(* asked by on_connect at every authentication of a socket).               *)
(*                                                                         *)
(* The cap is compared before the handshake and the socket counted after   *)
(* it, so handshakes overlap.  The throttle keeps the instants of an       *)
(* address' attempts and of its ban; an instant is kept as its age.        *)
(* Addresses do not affect each other: the module follows one, and the     *)
(* sockets whose address header is empty, which are not throttled.         *)
(***************************************************************************)
EXTENDS Naturals, Sequences, FiniteSets, SequencesExt

CONSTANTS
    Sockets,        \* the connection requests
    Nameless,       \* those whose address is the empty string
    Maxima,         \* the values of config.max_connections to consider
    Throttles,      \* ... of Throttle.throttle
    BanTimes,       \* ... of Throttle.ban_time
    Considered,     \* Throttle.considered, the length of the window
    None

ASSUME AdmissionAssumption ==
    /\ IsFiniteSet(Sockets) /\ Nameless \subseteq Sockets
    /\ Maxima \subseteq Nat /\ Throttles \subseteq Nat
    /\ BanTimes \subseteq Nat \ {0}
    /\ Considered \in Nat \ {0}
    /\ None \notin Nat

VARIABLES
    max, throttle, ban_time,    \* the configuration, fixed
    socket,         \* where each request is
    active,         \* active_connections
    entry,          \* the ages of the recorded attempts
    banned,         \* the age of the ban, or None
    admitted,       \* history: the ages of the attempts let through
    peak            \* history: the most handshakes that were ever under way at once

config == <<max, throttle, ban_time>>
throttling == <<entry, banned, admitted>>
vars == <<config, socket, active, throttling, peak>>

In(state) == {s \in Sockets : socket[s] = state}
Larger(i, j) == IF i < j THEN j ELSE i

-----------------------------------------------------------------------------
(* The cap. *)

\* Mutant of AtCapacity: one too many.
AtCapacityLate == max > 0 /\ active > max

AtCapacity == max > 0 /\ active >= max

\* ws_handler up to the upgrade.
Request(s) ==
    /\ socket[s] = "new"
    /\ socket' = [socket EXCEPT ![s] = IF AtCapacity THEN "closed" ELSE "handshake"]
    /\ peak' = Larger(peak, Cardinality({t \in Sockets : socket'[t] = "handshake"}))
    /\ UNCHANGED <<config, active, throttling>>

\* The upgrade is done and handle_socket begins, or it fails: no upgrade was asked
\* for, or the client is gone.
Upgrade(s) ==
    /\ socket[s] = "handshake"
    /\ \/ /\ socket' = [socket EXCEPT ![s] = "open"]
          /\ active' = active + 1
       \/ /\ socket' = [socket EXCEPT ![s] = "closed"]
          /\ UNCHANGED active
    /\ UNCHANGED <<config, throttling, peak>>

\* Mutant of End: an exit that does not give the place back.
EndLeaks(s) ==
    /\ socket[s] = "open"
    /\ socket' = [socket EXCEPT ![s] = "closed"]
    /\ UNCHANGED <<config, active, throttling, peak>>

\* handle_socket ends, by whatever exit: the guard is dropped.
End(s) ==
    /\ socket[s] = "open"
    /\ socket' = [socket EXCEPT ![s] = "closed"]
    /\ active' = active - 1
    /\ UNCHANGED <<config, throttling, peak>>

-----------------------------------------------------------------------------
(* The throttle. *)

\* retain: the ages of the window, in their order.
Recent(ages) ==
    FoldLeft(LAMBDA kept, a : IF a < Considered THEN Append(kept, a) ELSE kept, << >>, ages)

\* Mutant of Attempts: the attempt is recorded after the length was taken.
AttemptsBefore == Recent(entry)

\* The attempts of the window, with the one that is being made.
Attempts == Recent(Append(entry, 0))

Banned == banned # None /\ banned < ban_time

\* Mutant of Record: an attempt is recorded although the address is banned.
RecordAlways ==
    /\ entry' = Attempts
    /\ banned' = IF Banned THEN banned ELSE IF Len(Attempts) > throttle THEN 0 ELSE None

\* should_block, under the mutex: a banned address is turned away without a trace;
\* otherwise an expired ban is lifted and the attempt recorded, and one too many
\* starts a ban.
Record ==
    IF Banned THEN UNCHANGED <<entry, banned>>
    ELSE /\ entry' = Attempts
         /\ banned' = IF Len(Attempts) > throttle THEN 0 ELSE None

Blocks == Banned \/ Len(Attempts) > throttle

\* on_connect for one of the documents of an open socket.  One that is blocked is
\* denied that document; the socket stays.
OnConnect(s) ==
    /\ socket[s] = "open" /\ s \notin Nameless
    /\ Record
    /\ admitted' = IF Blocks THEN admitted ELSE Append(admitted, 0)
    /\ UNCHANGED <<config, socket, active, peak>>

\* Nobody compares ages beyond these.
Older(a, cap) == IF a < cap THEN a + 1 ELSE a

Tick ==
    /\ entry' = [i \in DOMAIN entry |-> Older(entry[i], Considered)]
    /\ banned' = IF banned = None THEN None ELSE Older(banned, ban_time)
    /\ admitted' = Recent([i \in DOMAIN admitted |-> admitted[i] + 1])
    /\ UNCHANGED <<config, socket, active, peak>>

-----------------------------------------------------------------------------

Init ==
    /\ max \in Maxima /\ throttle \in Throttles /\ ban_time \in BanTimes
    /\ socket = [s \in Sockets |-> "new"]
    /\ active = 0 /\ peak = 0
    /\ entry = << >> /\ banned = None /\ admitted = << >>

Next ==
    \/ \E s \in Sockets : Request(s) \/ Upgrade(s) \/ End(s) \/ OnConnect(s)
    \/ Tick

Spec == Init /\ [][Next]_vars

-----------------------------------------------------------------------------
(* Properties. *)

\* Every variable keeps its type, and the counter is the number of open sockets.
TypeOK ==
    /\ max \in Maxima /\ throttle \in Throttles /\ ban_time \in BanTimes
    /\ socket \in [Sockets -> {"new", "handshake", "open", "closed"}]
    /\ active = Cardinality(In("open"))
    /\ entry \in Seq(0..Considered)
    /\ banned \in 0..ban_time \cup {None}
    /\ admitted \in Seq(0..Considered - 1)
    /\ peak \in 0..Cardinality(Sockets)

\* "Maximum concurrent WebSocket connections per instance", as far as the code
\* keeps it: since the comparison comes before the handshake and the count after
\* it, the cap is exceeded by at most the handshakes that were under way at once,
\* less one.  Handshakes that do not overlap never exceed it.
CapOverrun == max > 0 /\ peak > 0 => Cardinality(In("open")) <= max + peak - 1

\* "At most `throttle` connection attempts per `considered` window": no window
\* holds more attempts that were let through, across bans that start, expire
\* inside the window and start again.
RateLimited == Len(admitted) <= throttle

\* A ban that lasted at least a window is over for good: the next attempt is let
\* through, because the attempts made while banned left no trace and the earlier
\* ones are out of the window, also when both lengths are equal.
Forgiven ==
    banned # None /\ ~Banned /\ ban_time >= Considered /\ throttle > 0 => ~Blocks
=============================================================================
