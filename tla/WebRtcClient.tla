---------------------------- MODULE WebRtcClient ----------------------------
(***************************************************************************)
(* The transport side of a viewer: the peer connection a WebRtcClient      *)
(* currently owns, the replacement of that connection, and the gate every  *)
(* callback of libdatachannel passes before it may run application code.   *)
(*                                                                         *)
(* A client's state is a function over Clients, so that an application     *)
(* module can own several clients.  A transport is named by its generation,*)
(* numbered from 1 in the order the client builds them; 0 is no transport. *)
(* The operations are action operators: the module that extends this one   *)
(* says which thread calls them, and when.                                 *)
(***************************************************************************)
EXTENDS Naturals, Sequences, SequencesExt, FiniteSets

CONSTANTS
  Clients,         \* the clients, one per peer session
  Events,          \* the connection states libdatachannel reports
  MaxTransports,   \* how often a client is (re)built
  MaxParked        \* callbacks of one client that wait for admission

ASSUME ClientsAssumption ==
  /\ IsFiniteSet(Clients)
  /\ Events \subseteq {"connected", "disconnected", "failed"}
  /\ MaxTransports \in Nat \ {0} /\ MaxParked \in Nat

VARIABLES
  transport,    \* the generation of the published bundle
  built,        \* nextGeneration: how many were built
  link,         \* its connection state: disconnected, connected, failed, closed
  sections,     \* its media sections, in the order of the m-lines
  negotiated,   \* the sections some offer of this client already named
  down,         \* shutdownRequested
  suppressed,   \* callbacksSuppressed
  parked,       \* callbacks that passed the currency test, not yet the gate
  body          \* the callback that runs application code; it holds
                \* callbackDispatchMutex

clientVars == <<transport, built, link, sections, negotiated, down,
                suppressed, parked, body>>
gateVars == <<suppressed, parked, body>>
bundleVars == <<transport, built, link, sections, negotiated, down>>

NoTransport == 0
NoBody == [gen |-> NoTransport, event |-> "none"]

\* A client is created with its callbacks suppressed and without a transport.
ClientInit ==
  /\ transport = [c \in Clients |-> NoTransport]
  /\ built = [c \in Clients |-> 0]
  /\ link = [c \in Clients |-> "disconnected"]
  /\ sections = [c \in Clients |-> <<>>]
  /\ negotiated = [c \in Clients |-> {}]
  /\ down = [c \in Clients |-> FALSE]
  /\ suppressed = [c \in Clients |-> TRUE]
  /\ parked = [c \in Clients |-> {}]
  /\ body = [c \in Clients |-> NoBody]

---------------------------------------------------------------------------
(* The bundle.                                                             *)

\* ensureVideoTrack and its like: one section, if its kind is wanted.
Only(m, kinds) == IF m \in kinds THEN <<m>> ELSE <<>>

\* The sections of some kinds, in the order in which they are added.
InOrder(kinds) == Only("video", kinds) \o Only("audio", kinds) \o Only("alpha", kinds)

\* Mutant of Sections: a rebuild offers what the viewer wants now.
SectionsWanted(want, known) == InOrder(want)

\* buildTransport: a section is built when the caller wants it or an earlier
\* offer named it; alpha needs video.
Kinds(want, known) ==
  LET wanted == want \cup known
  IN IF "video" \in wanted THEN wanted ELSE wanted \ {"alpha"}

Sections(want, known) == InOrder(Kinds(want, known))

\* A transport is built under operationMutex and published in one step; a
\* failed build retires the old one all the same.
SwapIn(c, want, known, ok) ==
  /\ built[c] < MaxTransports
  /\ built' = [built EXCEPT ![c] = @ + 1]
  /\ transport' = [transport EXCEPT ![c] = IF ok THEN built[c] + 1 ELSE NoTransport]
  /\ sections' = [sections EXCEPT ![c] = IF ok THEN Sections(want, known) ELSE <<>>]
  /\ negotiated' = [negotiated EXCEPT ![c] =
                      known \cup (IF ok THEN ToSet(Sections(want, known)) ELSE {})]
  /\ link' = [link EXCEPT ![c] = "disconnected"]

\* callbackDispatchMutex is free.
DispatchFree(c) == body[c] = NoBody

\* resetPeerConnection: refused once shutdown was requested.
ResetRefused(c) == DispatchFree(c) /\ down[c] /\ UNCHANGED clientVars

ResetPeerConnection(c, want, ok) ==
  /\ DispatchFree(c)
  /\ ~down[c]
  /\ SwapIn(c, want, negotiated[c], ok)
  /\ UNCHANGED <<down, gateVars>>

\* createOffer needs a transport, and may fail on one.
CreateOffer(c, ok) ==
  /\ DispatchFree(c)
  /\ ok => transport[c] # NoTransport
  /\ UNCHANGED clientVars

\* ensureMediaTracks adds the sections a viewer asks for to the current
\* transport, behind those it has.
EnsureMediaTracks(c, want) ==
  LET more == InOrder(Kinds(want, {}) \ ToSet(sections[c])) IN
  /\ ~down[c]
  /\ transport[c] # NoTransport
  /\ more # <<>>
  /\ sections' = [sections EXCEPT ![c] = @ \o more]
  /\ negotiated' = [negotiated EXCEPT ![c] = @ \cup ToSet(more)]
  /\ UNCHANGED <<transport, built, link, down, gateVars>>

---------------------------------------------------------------------------
(* The gate.                                                               *)

\* suppressCallbacksAndWait, called from no callback: nothing new is admitted,
\* and the call returns when nothing is in flight.
Suppress(c) ==
  /\ suppressed' = [suppressed EXCEPT ![c] = TRUE]
  /\ UNCHANGED <<bundleVars, parked, body>>

Quiet(c) == body[c] = NoBody

\* initialize, after suppressCallbacksAndWait: a new transport and no memory.
InitializeSwap(c, want, ok) ==
  /\ Quiet(c)
  /\ SwapIn(c, want, {}, ok)
  /\ down' = [down EXCEPT ![c] = FALSE]
  /\ UNCHANGED gateVars

Resume(c) ==
  /\ suppressed' = [suppressed EXCEPT ![c] = FALSE]
  /\ UNCHANGED <<bundleVars, parked, body>>

\* shutdown, after suppressCallbacksAndWait.
ShutdownSwap(c) ==
  /\ Quiet(c)
  /\ transport' = [transport EXCEPT ![c] = NoTransport]
  /\ sections' = [sections EXCEPT ![c] = <<>>]
  /\ link' = [link EXCEPT ![c] = "closed"]
  /\ down' = [down EXCEPT ![c] = TRUE]
  /\ UNCHANGED <<built, negotiated, gateVars>>

\* A callback is bound to its transport by the generation.
Callback(c, e) == [gen |-> transport[c], event |-> e]

\* libdatachannel reports the state of the current transport.  It is published
\* at once, only for the current bundle; the application hears of it when the
\* callback has passed the gate.
RtcEvent(c, e) ==
  /\ transport[c] # NoTransport
  /\ Callback(c, e) \notin parked[c]
  /\ Cardinality(parked[c]) < MaxParked
  /\ link[c] \notin {"failed", "closed", e}
  /\ link' = [link EXCEPT ![c] = e]
  /\ parked' = [parked EXCEPT ![c] = @ \cup {Callback(c, e)}]
  /\ UNCHANGED <<transport, built, sections, negotiated, down, suppressed, body>>

\* Mutant of Admissible: the generation is not compared.
AdmissibleAlways(c, k) == ~suppressed[c]

\* CallbackLease: refused while callbacks are suppressed, and to a retired
\* generation.
Admissible(c, k) == ~suppressed[c] /\ k.gen = transport[c]

Admit(c, k) ==
  /\ DispatchFree(c)
  /\ k \in parked[c]
  /\ parked' = [parked EXCEPT ![c] = @ \ {k}]
  /\ body' = [body EXCEPT ![c] = IF Admissible(c, k) THEN k ELSE NoBody]
  /\ UNCHANGED <<bundleVars, suppressed>>

\* The application's callback returned.
Release(c) ==
  /\ body[c] # NoBody
  /\ body' = [body EXCEPT ![c] = NoBody]
  /\ UNCHANGED <<bundleVars, suppressed, parked>>

=============================================================================
