------------------------------ MODULE Inhibitors ------------------------------
(***************************************************************************)
(* The inhibitors of SessionManager1 (src/src/dde-session/impl/            *)
(* sessionmanager.cpp, inhibitor.h): applications ask not to be logged     *)
(* out, switched away from, suspended or marked idle, get a cookie and     *)
(* give it back.  Every handler runs to its end on the main thread; calls, *)
(* answers and the deaths of clients interleave, and a client whose call   *)
(* is not answered in time, because that thread waits for a command or for *)
(* another service, goes on without the answer.  The cookie is a 32-bit    *)
(* counter that wraps around, and is the key of m_inhibitorMap as well as  *)
(* the name of the object exported on the session bus.                     *)
(***************************************************************************)
EXTENDS Naturals

CONSTANTS
    Clients,      \* applications
    SupportedBits,  \* the bits of flags: logout, user switch, suspend, idle
    OtherBits,    \* bits of flags that mean nothing
    IndexSize,    \* number of values of the counter, 2^32 in the code
    MaxInhibit    \* bound: calls of Inhibit

ASSUME IndexAssumption == IndexSize \in Nat \ {0} /\ MaxInhibit \in Nat

Flags   == SUBSET (SupportedBits \cup OtherBits)    \* the set of bits that are 1
Cookies == 0 .. (IndexSize - 1)

Inhibitor == [cookie : Cookies, client : Clients, flags : Flags]
NoCall    == [op |-> "none"]
Calls     == {NoCall}
             \cup [op : {"Inhibit"}, flags : Flags, awaited : BOOLEAN]
             \cup [op : {"answer"}, cookie : Cookies, flags : Flags]
             \cup [op : {"Uninhibit"}, cookie : Cookies]

VARIABLES
    index,       \* static uint index of Inhibit
    inhibitors,  \* m_inhibitorMap, a set of inhibitors with different cookies
    exported,    \* cookies N with an object .../Inhibitors/Inhibitor_N on the bus
    call,        \* per client: its call, or the answer to it, on the bus
    held,        \* per client: the inhibitors it knows that it has
    alive,       \* clients that have not died
    calls,       \* how many calls of Inhibit are left
    unheard      \* history: inhibitors whose client had given up the call that made them

vars == <<index, inhibitors, exported, call, held, alive, calls, unheard>>

TypeOK ==
    /\ index \in Cookies /\ inhibitors \subseteq Inhibitor /\ exported \subseteq Cookies
    /\ call \in [Clients -> Calls] /\ held \in [Clients -> SUBSET Inhibitor]
    /\ alive \subseteq Clients
    /\ calls \in Nat /\ unheard \subseteq Inhibitor

Init ==
    /\ index = 0 /\ inhibitors = {} /\ exported = {}
    /\ call = [c \in Clients |-> NoCall] /\ held = [c \in Clients |-> {}]
    /\ alive = Clients /\ calls = MaxInhibit /\ unheard = {}

Supported(flags) == flags \cap SupportedBits # {}

(* QMap::insert replaces what had the same key. *)
Insert(ih) == inhibitors' = {i \in inhibitors : i.cookie # ih.cookie} \cup {ih}

Answer(c, what) == call' = [call EXCEPT ![c] = what]

(* The cookie goes to the caller; nobody hears it when the caller has given *)
(* up.                                                                      *)
AnswerCookie(c, ih) ==
    \/ /\ call[c].awaited /\ UNCHANGED unheard
       /\ Answer(c, [op |-> "answer", cookie |-> ih.cookie, flags |-> ih.flags])
    \/ /\ ~call[c].awaited /\ unheard' = unheard \cup {ih}
       /\ Answer(c, NoCall)

New(c) == [cookie |-> index, client |-> c, flags |-> call[c].flags]
-----------------------------------------------------------------------------
(* The session manager. *)

(* Mutant: the counter is wider than its range. *)
InhibitWithoutWrap(c) ==
    /\ call[c].op = "Inhibit" /\ Supported(call[c].flags) /\ index \notin exported
    /\ index' = index + 1
    /\ exported' = exported \cup {index} /\ Insert(New(c)) /\ AnswerCookie(c, New(c))
    /\ UNCHANGED <<held, alive, calls>>

(* Mutant: the result of registerObject is not looked at. *)
InhibitUnregistered(c) ==
    /\ call[c].op = "Inhibit"
    /\ \/ /\ ~Supported(call[c].flags) /\ Answer(c, NoCall)
          /\ UNCHANGED <<index, inhibitors, exported, unheard>>
       \/ /\ Supported(call[c].flags)
          /\ index' = (index + 1) % IndexSize
          /\ exported' = exported \cup {index} /\ Insert(New(c)) /\ AnswerCookie(c, New(c))
    /\ UNCHANGED <<held, alive, calls>>

(* Inhibit.  The counter is used up even when the object cannot be          *)
(* exported because a living inhibitor has that name; the caller then gets  *)
(* an error, and flags without a supported bit never touch the counter.     *)
Inhibit(c) ==
    /\ call[c].op = "Inhibit"
    /\ \/ /\ ~Supported(call[c].flags) /\ Answer(c, NoCall)
          /\ UNCHANGED <<index, inhibitors, exported, unheard>>
       \/ /\ Supported(call[c].flags) /\ index \in exported
          /\ index' = (index + 1) % IndexSize /\ Answer(c, NoCall)
          /\ UNCHANGED <<inhibitors, exported, unheard>>
       \/ /\ Supported(call[c].flags) /\ index \notin exported
          /\ index' = (index + 1) % IndexSize
          /\ exported' = exported \cup {index} /\ Insert(New(c)) /\ AnswerCookie(c, New(c))
    /\ UNCHANGED <<held, alive, calls>>

(* Mutant: 0 is taken for the cookie of a refused Inhibit. *)
UninhibitNotZero(c) ==
    /\ call[c].op = "Uninhibit" /\ Answer(c, NoCall)
    /\ LET gone == {i \in inhibitors : i.cookie = call[c].cookie /\ i.cookie # 0}
       IN  /\ inhibitors' = inhibitors \ gone
           /\ exported' = exported \ {i.cookie : i \in gone}
    /\ UNCHANGED <<index, held, alive, calls, unheard>>

(* Mutant: the object stays on the bus. *)
UninhibitStaysExported(c) ==
    /\ call[c].op = "Uninhibit" /\ Answer(c, NoCall)
    /\ inhibitors' = {i \in inhibitors : i.cookie # call[c].cookie}
    /\ UNCHANGED <<index, exported, held, alive, calls, unheard>>

(* Uninhibit: an unknown cookie is ignored without an error. *)
Uninhibit(c) ==
    /\ call[c].op = "Uninhibit" /\ Answer(c, NoCall)
    /\ LET gone == {i \in inhibitors : i.cookie = call[c].cookie}
       IN  /\ inhibitors' = inhibitors \ gone
           /\ exported' = exported \ {i.cookie : i \in gone}
    /\ UNCHANGED <<index, held, alive, calls, unheard>>

(* IsInhibited compares the flags of every inhibitor with the argument. *)
IsInhibited(flags) == \E i \in inhibitors : i.flags = flags

(* NameOwnerChanged: the handler notices the death of a client and does     *)
(* nothing; a call that was sent is still carried out.                      *)
ClientDies(c) ==
    /\ c \in alive /\ alive' = alive \ {c}
    /\ held' = [held EXCEPT ![c] = {}]
    /\ call' = IF call[c].op = "answer" THEN [call EXCEPT ![c] = NoCall] ELSE call
    /\ UNCHANGED <<index, inhibitors, exported, calls, unheard>>
-----------------------------------------------------------------------------
(* The clients, which give back the cookies they got and no others. *)

SendInhibit(c) ==
    /\ c \in alive /\ call[c] = NoCall /\ calls > 0 /\ calls' = calls - 1
    /\ \E flags \in Flags :
          call' = [call EXCEPT ![c] = [op |-> "Inhibit", flags |-> flags, awaited |-> TRUE]]
    /\ UNCHANGED <<index, inhibitors, exported, held, alive, unheard>>

(* The call times out at the client, before it was served or while the      *)
(* answer is on the bus; the session manager serves it all the same.  What  *)
(* the client sends next is served after it, and is sent after it here.     *)
GiveUp(c) ==
    /\ c \in alive
    /\ \/ /\ call[c].op = "Inhibit" /\ call[c].awaited /\ UNCHANGED unheard
          /\ Answer(c, [op |-> "Inhibit", flags |-> call[c].flags, awaited |-> FALSE])
       \/ /\ call[c].op = "answer" /\ Answer(c, NoCall)
          /\ unheard' = unheard \cup {[cookie |-> call[c].cookie, client |-> c,
                                      flags |-> call[c].flags]}
    /\ UNCHANGED <<index, inhibitors, exported, held, alive, calls>>

ReceiveCookie(c) ==
    /\ call[c].op = "answer"
    /\ \/ /\ c \in alive
          /\ held' = [held EXCEPT ![c] = @ \cup {[cookie |-> call[c].cookie, client |-> c,
                                                  flags |-> call[c].flags]}]
       \/ c \notin alive /\ UNCHANGED held
    /\ call' = [call EXCEPT ![c] = NoCall]
    /\ UNCHANGED <<index, inhibitors, exported, alive, calls, unheard>>

SendUninhibit(c) ==
    /\ c \in alive /\ call[c] = NoCall
    /\ \E i \in held[c] :
          /\ call' = [call EXCEPT ![c] = [op |-> "Uninhibit", cookie |-> i.cookie]]
          /\ held' = [held EXCEPT ![c] = @ \ {i}]
    /\ UNCHANGED <<index, inhibitors, exported, alive, calls, unheard>>

Next ==
    \E c \in Clients :
        \/ Inhibit(c) \/ Uninhibit(c) \/ ClientDies(c)
        \/ SendInhibit(c) \/ GiveUp(c) \/ ReceiveCookie(c) \/ SendUninhibit(c)

Spec == Init /\ [][Next]_vars
-----------------------------------------------------------------------------
(* From the answer to Inhibit until the client gives its cookie back, the   *)
(* inhibitor stays in m_inhibitorMap with the flags the client asked for,   *)
(* and IsInhibited says so to whoever asks for these flags, whoever else    *)
(* comes, goes or dies, and also when the counter wraps around (lines       *)
(* 336-366).                                                                *)
InhibitedWhileHeld ==
    \A c \in Clients : \A i \in held[c] : i \in inhibitors /\ IsInhibited(i.flags)

(* An entry of m_inhibitorMap that its client, alive, cannot remove was     *)
(* made by a call that this client had given up before it heard the answer: *)
(* no other order of calls, answers and wrap-arounds leaves one behind.     *)
(* Such entries, and those of clients that died (lines 153-158), stay for   *)
(* good.  The Inhibitor object that a failing registerObject leaves in      *)
(* memory (lines 338-345) never is an entry.                                *)
LeaksOnlyUnheard ==
    \A i \in inhibitors : i.client \in alive =>
        \/ i \in held[i.client] \cup unheard
        \/ call[i.client].op = "answer" /\ call[i.client].cookie = i.cookie
        \/ call[i.client].op = "Uninhibit" /\ call[i.client].cookie = i.cookie

(* The objects on the bus are those in m_inhibitorMap, which is what makes  *)
(* a failing registerObject (line 341) protect a living inhibitor.          *)
ExportedAreListed == exported = {i.cookie : i \in inhibitors}

(* Cookies, answers, the map and the bus together keep what InhibitSpec     *)
(* promises: a client that waits for it counts on an inhibitor from the     *)
(* answer of Inhibit on, until it gives the cookie back, gives up waiting   *)
(* for it, or dies (Inhibit, Uninhibit, lines 153-158).                     *)
Promised(c) ==
    IF call[c].op = "answer"
    THEN {[cookie |-> call[c].cookie, client |-> c, flags |-> call[c].flags]} ELSE {}
Asks(c) == call[c].op = "Inhibit" /\ call[c].awaited
Registry == INSTANCE InhibitSpec WITH
    Owners <- Clients, Granted <- Inhibitor, inForce <- inhibitors, names <- exported,
    claims <- [c \in Clients |-> held[c] \cup Promised(c)], asking <- {c \in Clients : Asks(c)}
KeepsRegistry == Registry!Promise
=============================================================================
