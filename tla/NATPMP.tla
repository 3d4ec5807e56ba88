------------------------------- MODULE NATPMP -------------------------------
(***************************************************************************)
(* src/network/NATPMP.cpp: one client thread that keeps a port mapping on  *)
(* a gateway, over datagrams that can be late or lost.  Time passes in     *)
(* seconds.  Every call opens a socket of its own, so an answer to an      *)
(* earlier call reaches nobody.                                            *)
(*                                                                         *)
(* The two-second timer of map_port is never run: nothing calls run on its *)
(* io_context, so receive_from waits for as long as there is no answer,    *)
(* and after a lost datagram the call never returns.                       *)
(* mapping_lifetime_ is a uint16_t, and the granted lifetime a uint32_t.   *)
(* The owner decides when to call; ports and protocol do not change.       *)
(***************************************************************************)
EXTENDS Integers

CONSTANTS
  W16,         \* 2^16
  Lifetimes,   \* the lifetimes the owner asks for
  Cap          \* bound: from here on durations are not told apart

ASSUME NATAssumption ==
  /\ W16 \in Nat \ {0} /\ Lifetimes \subseteq Nat \ {0}
  /\ Cap \in Nat /\ Cap >= W16

VARIABLES
  mapped,            \* mapped_external_port_ # 0
  mapping_lifetime,  \* mapping_lifetime_
  elapsed,           \* time since last_mapping_time_
  call,              \* the call the client is in, or "idle"
  request, reply,    \* the datagrams on their way: a lifetime, or None or Rejected
  lease,             \* what is left of the gateway's mapping
  age,               \* time since the gateway last answered
  late,              \* history: how old the answer was that the client stored
  granted,           \* history: the lifetime in that answer
  unheard            \* history: the gateway has since served a request whose answer
                     \* map_port rejects

client == <<mapped, mapping_lifetime, elapsed, late, granted>>
mapping_vars == <<client, call, request, reply, lease, age, unheard>>

None == -1

\* An answer that map_port rejects: cut short, of another version or opcode, or
\* with a result code.
Rejected == -2

MappingInit ==
  /\ mapped = FALSE /\ mapping_lifetime = 0 /\ elapsed = 0 /\ late = 0 /\ granted = 0
  /\ call = "idle" /\ request = None /\ reply = None
  /\ lease = 0 /\ age = 0 /\ unheard = FALSE

-----------------------------------------------------------------------------
(* The client's calls, up to receive_from *)

Send(name, lifetime) ==
  /\ call = "idle"
  /\ call' = name /\ request' = lifetime
  /\ UNCHANGED <<client, reply, lease, age, unheard>>

\* A call that finds no gateway or cannot send returns and changes nothing.
map_port == \E l \in Lifetimes : Send("map", l)

\* Mutant: the refresh waits until the lifetime is over.
whole_lifetime == mapping_lifetime

refresh_after == (mapping_lifetime * 3) \div 4

refreshMapping == mapped /\ elapsed >= refresh_after /\ Send("refresh", mapping_lifetime)

removeMapping == mapped /\ Send("remove", 0)

\* removeMapping does not look at what map_port returns.
Forget ==
  /\ mapped' = FALSE /\ mapping_lifetime' = 0
  /\ UNCHANGED <<elapsed, late, granted>>

RemoveUnsent ==
  /\ mapped /\ call = "idle"
  /\ Forget
  /\ UNCHANGED <<call, request, reply, lease, age, unheard>>

-----------------------------------------------------------------------------
(* External: the gateway and the network *)

Answer(l, r) == lease' = l /\ reply' = r /\ age' = 0

\* A lifetime of 0 removes the mapping; another one may be shortened.
Grants == IF request = 0 THEN {0} ELSE 1 .. request

\* The gateway grants, and the answer is good or not, or it refuses.
Serve ==
  /\ request # None
  /\ \/ \E l \in Grants : Answer(l, l) /\ unheard' = FALSE
     \/ \E l \in Grants : Answer(l, Rejected) /\ unheard' = TRUE
     \/ Answer(lease, Rejected) /\ UNCHANGED unheard
  /\ request' = None
  /\ UNCHANGED <<client, call>>

LoseRequest ==
  /\ request # None
  /\ request' = None
  /\ UNCHANGED <<client, call, reply, lease, age, unheard>>

LoseReply ==
  /\ reply # None
  /\ reply' = None
  /\ UNCHANGED <<client, call, request, lease, age, unheard>>

later(d) == IF d < Cap THEN d + 1 ELSE Cap

Tick ==
  /\ elapsed' = later(elapsed) /\ age' = later(age)
  /\ lease' = IF lease > 0 THEN lease - 1 ELSE 0
  /\ UNCHANGED <<mapped, mapping_lifetime, late, granted, call, request, reply, unheard>>

-----------------------------------------------------------------------------
(* The rest of map_port, and of removeMapping *)

\* Mutant: the lifetime is kept in a signed type of the same width.
truncated_signed(l) == l % (W16 \div 2)

\* What a uint16_t keeps of it.
truncated(l) == l % W16

\* The answer to a request to remove may carry the external port 0.
Store ==
  /\ reply # Rejected /\ call # "remove"
  /\ mapped' = TRUE \/ (reply = 0 /\ mapped' = FALSE)
  /\ mapping_lifetime' = truncated(reply)
  /\ elapsed' = 0 /\ late' = age /\ granted' = reply

Receive ==
  /\ reply # None
  /\ \/ Store
     \/ call = "remove" /\ Forget
     \/ reply = Rejected /\ call # "remove" /\ UNCHANGED client
  /\ call' = "idle" /\ reply' = None
  /\ UNCHANGED <<request, lease, age, unheard>>

-----------------------------------------------------------------------------

MappingNext ==
  \/ map_port \/ refreshMapping \/ removeMapping \/ RemoveUnsent
  \/ Serve \/ LoseRequest \/ LoseReply \/ Receive \/ Tick

MappingSpec == MappingInit /\ [][MappingNext]_mapping_vars

-----------------------------------------------------------------------------
(* Properties *)

\* refreshMapping returns true without asking the gateway.
Fresh == mapped /\ call = "idle" /\ elapsed < refresh_after

\* What refreshMapping calls fresh is on the gateway, whatever calls, refusals
\* and removals came before.  The last quarter of the lifetime makes up for the
\* time the answer took, and for no more; and a client that has rejected the
\* answer to a request the gateway served goes on with the lifetime it knew.
FreshMeansLeased ==
  Fresh /\ late <= mapping_lifetime \div 4 /\ ~unheard => lease > 0

\* The gateway's mapping is cut short, other than by time, only when the owner
\* maps anew or removes, when the gateway grants less than it is asked for or
\* the client rejected an earlier answer, or by a refresh whose lifetime did not
\* fit into the uint16_t: that asks for the remainder, which may be 0, and not
\* for the "same lifetime" of the comment in refreshMapping.
CutShortOnPurpose ==
  [][lease' < lease - 1 =>
       \/ call \in {"map", "remove"}
       \/ lease' < request
       \/ unheard
       \/ granted >= W16]_mapping_vars
=============================================================================
