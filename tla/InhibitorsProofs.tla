--------------------------- MODULE InhibitorsProofs ---------------------------
(***************************************************************************)
(* Theorems about Inhibitors, for any number of clients, any flags and any *)
(* size of the counter.                                                    *)
(*                                                                         *)
(* InhibitedWhileHeld is not inductive alone: a second inhibitor under the *)
(* same cookie would be removed with the first, and an answer on the bus   *)
(* or an Uninhibit on the bus says nothing about m_inhibitorMap.  The      *)
(* inductive invariant adds that cookies are keys, that every answer names *)
(* a listed inhibitor of its receiver, and that every Uninhibit names an   *)
(* inhibitor that its sender no longer counts on.  The same invariant      *)
(* makes every step one of InhibitSpec or a stutter.                       *)
(***************************************************************************)
EXTENDS Inhibitors, TLAPS

CookiesAreKeys ==
    \A i, j \in inhibitors : i.cookie = j.cookie => i = j

HeldAreMine ==
    \A c \in Clients : \A i \in held[c] : i.client = c

AnswersListed ==
    \A c \in Clients : call[c].op = "answer" =>
        [cookie |-> call[c].cookie, client |-> c, flags |-> call[c].flags] \in inhibitors

RemovalsListed ==
    \A c \in Clients : call[c].op = "Uninhibit" =>
        \E i \in inhibitors : i.cookie = call[c].cookie /\ i.client = c /\ i \notin held[c]

Listed == InhibitedWhileHeld /\ HeldAreMine /\ AnswersListed /\ RemovalsListed

IInv == TypeOK /\ ExportedAreListed /\ CookiesAreKeys /\ Listed /\ LeaksOnlyUnheard
-----------------------------------------------------------------------------
(* The counter stays in range when it wraps around. *)
LEMMA IndexWraps == ASSUME NEW n \in Cookies PROVE (n + 1) % IndexSize \in Cookies
  BY IndexAssumption DEF Cookies

(* The operations a call stands for exclude each other. *)
LEMMA CallKinds ==
    ASSUME TypeOK, NEW c \in Clients
    PROVE  /\ call[c] \in Calls
           /\ call[c].op = "Inhibit"   => call[c].flags \in Flags /\ call[c].awaited \in BOOLEAN
           /\ call[c].op = "answer"    => call[c].cookie \in Cookies /\ call[c].flags \in Flags
           /\ call[c].op = "Uninhibit" => call[c].cookie \in Cookies
  BY DEF TypeOK, Calls, NoCall

LEMMA InitIInv == ASSUME Init PROVE IInv
  BY IndexAssumption DEF Init, IInv, TypeOK, Listed, ExportedAreListed, CookiesAreKeys,
     InhibitedWhileHeld, IsInhibited, HeldAreMine, AnswersListed, RemovalsListed,
     LeaksOnlyUnheard, Calls, NoCall, Cookies
-----------------------------------------------------------------------------
(* A new inhibitor takes a cookie that no living one has; its client hears  *)
(* of it, or had given up.                                                  *)
LEMMA InhibitStep ==
    ASSUME IInv, NEW c \in Clients, Inhibit(c) PROVE IInv'
<1> USE DEF IInv, Listed
<1> DEFINE new == New(c)
           answer == [op |-> "answer", cookie |-> index, flags |-> call[c].flags]
<1>1. call[c] \in Calls /\ call[c].flags \in Flags /\ call[c].op = "Inhibit"
  BY CallKinds DEF Inhibit
<1>2. new \in Inhibitor /\ new.cookie = index /\ new.client = c /\ new.flags = call[c].flags
  BY <1>1 DEF Inhibitor, TypeOK, New
<1>3. CASE /\ inhibitors' = inhibitors /\ exported' = exported /\ unheard' = unheard
           /\ call' = [call EXCEPT ![c] = NoCall]
  <2>1. TypeOK'
    BY <1>3, IndexWraps DEF Inhibit, TypeOK, Calls
  <2>2. \A d \in Clients : call'[d] = IF d = c THEN NoCall ELSE call[d]
    BY <1>3 DEF TypeOK
  <2>3. held' = held /\ alive' = alive
    BY DEF Inhibit
  <2>4. ExportedAreListed' /\ CookiesAreKeys' /\ InhibitedWhileHeld' /\ HeldAreMine'
    BY <1>3, <2>3
       DEF ExportedAreListed, CookiesAreKeys, InhibitedWhileHeld, IsInhibited, HeldAreMine
  <2>5. AnswersListed'
    BY <1>3, <2>2, <2>3 DEF AnswersListed, NoCall
  <2>6. RemovalsListed'
    BY <1>3, <2>2, <2>3 DEF RemovalsListed, NoCall
  <2>7. LeaksOnlyUnheard'
    BY <1>1, <1>3, <2>2, <2>3 DEF LeaksOnlyUnheard, TypeOK, Inhibitor
  <2> QED BY <2>1, <2>4, <2>5, <2>6, <2>7
<1>4. CASE /\ index \notin exported
           /\ index' = (index + 1) % IndexSize
           /\ exported' = exported \cup {index}
           /\ Insert(new) /\ AnswerCookie(c, new)
  <2>1. \A i \in inhibitors : i.cookie # index
    BY <1>4 DEF ExportedAreListed
  <2>2. inhibitors' = inhibitors \cup {new} /\ new \notin inhibitors
    BY <1>2, <1>4, <2>1 DEF Insert
  <2>3. held' = held /\ alive' = alive /\ calls' = calls
    BY DEF Inhibit
  <2>4. answer \in Calls /\ NoCall \in Calls
    BY <1>1 DEF Calls, TypeOK
  <2>5. \/ call' = [call EXCEPT ![c] = answer] /\ unheard' = unheard
        \/ call' = [call EXCEPT ![c] = NoCall] /\ unheard' = unheard \cup {new}
    BY <1>2, <1>4 DEF AnswerCookie, Answer
  <2>6. TypeOK'
    BY <1>2, <1>4, <2>2, <2>3, <2>4, <2>5, IndexWraps DEF TypeOK
  <2>7. /\ \A d \in Clients : d # c => call'[d] = call[d]
        /\ (call'[c] = answer /\ unheard' = unheard)
           \/ (call'[c] = NoCall /\ unheard' = unheard \cup {new})
    BY <2>5 DEF TypeOK
  <2>8. ExportedAreListed'
    BY <1>2, <1>4, <2>2 DEF ExportedAreListed
  <2>9. CookiesAreKeys'
    BY <1>2, <2>1, <2>2 DEF CookiesAreKeys
  <2>10. InhibitedWhileHeld' /\ HeldAreMine'
    BY <2>2, <2>3 DEF InhibitedWhileHeld, IsInhibited, HeldAreMine
  <2>11. AnswersListed'
    BY <2>2, <2>7 DEF AnswersListed, NoCall, New
  <2>12. RemovalsListed'
    BY <2>2, <2>3, <2>7 DEF RemovalsListed, NoCall
  <2>13. LeaksOnlyUnheard'
    <3> SUFFICES ASSUME NEW i \in inhibitors', i.client \in alive
                 PROVE  \/ i \in held[i.client] \cup unheard'
                        \/ call'[i.client].op = "answer" /\ call'[i.client].cookie = i.cookie
                        \/ call'[i.client].op = "Uninhibit" /\ call'[i.client].cookie = i.cookie
      BY <2>3 DEF LeaksOnlyUnheard
    <3>1. CASE i = new
      BY <3>1, <1>2, <2>7
    <3>2. CASE i \in inhibitors
      <4>1. i.client \in Clients /\ unheard \subseteq unheard'
        BY <3>2, <2>7 DEF TypeOK, Inhibitor
      <4>2. CASE i.client = c
        BY <3>2, <4>1, <4>2, <1>1 DEF LeaksOnlyUnheard
      <4>3. CASE i.client # c
        BY <3>2, <4>1, <4>3, <2>7 DEF LeaksOnlyUnheard
      <4> QED BY <4>2, <4>3
    <3> QED BY <3>1, <3>2, <2>2
  <2> QED BY <2>6, <2>8, <2>9, <2>10, <2>11, <2>12, <2>13
<1> QED BY <1>3, <1>4 DEF Inhibit, Answer

(* Cookies are keys: exactly the inhibitor the sender means goes. *)
LEMMA UninhibitStep ==
    ASSUME IInv, NEW c \in Clients, Uninhibit(c) PROVE IInv'
<1> USE DEF IInv, Listed
<1>1. PICK i \in inhibitors : i.cookie = call[c].cookie /\ i.client = c /\ i \notin held[c]
  BY DEF Uninhibit, RemovalsListed
<1>2. {j \in inhibitors : j.cookie = call[c].cookie} = {i}
  BY <1>1 DEF CookiesAreKeys
<1>3. inhibitors' = inhibitors \ {i} /\ exported' = exported \ {i.cookie}
  BY <1>2 DEF Uninhibit
<1>4. /\ call' = [call EXCEPT ![c] = NoCall]
      /\ held' = held /\ alive' = alive /\ index' = index /\ calls' = calls /\ unheard' = unheard
  BY DEF Uninhibit, Answer
<1>5. \A d \in Clients : call'[d] = IF d = c THEN NoCall ELSE call[d]
  BY <1>4 DEF TypeOK
<1>6. TypeOK'
  BY <1>3, <1>4 DEF TypeOK, Calls
<1>7. ExportedAreListed' /\ CookiesAreKeys'
  BY <1>1, <1>3 DEF ExportedAreListed, CookiesAreKeys
<1>8. InhibitedWhileHeld' /\ HeldAreMine'
  BY <1>1, <1>3, <1>4 DEF InhibitedWhileHeld, IsInhibited, HeldAreMine
<1>9. AnswersListed'
  BY <1>1, <1>3, <1>5 DEF AnswersListed, NoCall
<1>10. RemovalsListed'
  BY <1>1, <1>3, <1>4, <1>5 DEF RemovalsListed, NoCall
<1>11. LeaksOnlyUnheard'
  <2> SUFFICES ASSUME NEW j \in inhibitors \ {i}, j.client \in alive
               PROVE  \/ j \in held[j.client] \cup unheard
                      \/ call'[j.client].op = "answer" /\ call'[j.client].cookie = j.cookie
                      \/ call'[j.client].op = "Uninhibit" /\ call'[j.client].cookie = j.cookie
    BY <1>3, <1>4 DEF LeaksOnlyUnheard
  <2>1. j \in inhibitors /\ j.client \in Clients /\ j.cookie # i.cookie
    BY <1>1 DEF CookiesAreKeys, TypeOK, Inhibitor
  <2>2. CASE j.client = c
    BY <2>1, <2>2, <1>1 DEF LeaksOnlyUnheard, Uninhibit
  <2>3. CASE j.client # c
    BY <2>1, <2>3, <1>5 DEF LeaksOnlyUnheard
  <2> QED BY <2>2, <2>3
<1> QED BY <1>6, <1>7, <1>8, <1>9, <1>10, <1>11

(* A client that dies leaves its inhibitors and takes its claims with it. *)
LEMMA DeathStep ==
    ASSUME IInv, NEW c \in Clients, ClientDies(c) PROVE IInv'
<1> USE DEF IInv, Listed
<1>1. /\ inhibitors' = inhibitors /\ exported' = exported /\ index' = index /\ calls' = calls
      /\ alive' = alive \ {c} /\ held' = [held EXCEPT ![c] = {}] /\ unheard' = unheard
  BY DEF ClientDies
<1>2. \A d \in Clients : /\ held'[d] = IF d = c THEN {} ELSE held[d]
                         /\ d # c => call'[d] = call[d]
                         /\ call'[d] = call[d] \/ call'[d] = NoCall
  BY <1>1 DEF ClientDies, TypeOK
<1>3. TypeOK'
  BY <1>1 DEF ClientDies, TypeOK, Calls
<1>4. ExportedAreListed' /\ CookiesAreKeys' /\ InhibitedWhileHeld' /\ HeldAreMine'
  BY <1>1, <1>2
     DEF ExportedAreListed, CookiesAreKeys, InhibitedWhileHeld, IsInhibited, HeldAreMine
<1>5. AnswersListed'
  BY <1>1, <1>2 DEF AnswersListed, NoCall
<1>6. RemovalsListed'
  BY <1>1, <1>2 DEF RemovalsListed, NoCall
<1>7. LeaksOnlyUnheard'
  BY <1>1, <1>2 DEF LeaksOnlyUnheard, TypeOK, Inhibitor
<1> QED BY <1>3, <1>4, <1>5, <1>6, <1>7

LEMMA SendInhibitStep ==
    ASSUME IInv, NEW c \in Clients, SendInhibit(c) PROVE IInv'
<1> USE DEF IInv, Listed
<1>1. PICK flags \in Flags :
          call' = [call EXCEPT ![c] = [op |-> "Inhibit", flags |-> flags, awaited |-> TRUE]]
  BY DEF SendInhibit
<1>2. /\ inhibitors' = inhibitors /\ exported' = exported /\ index' = index
      /\ alive' = alive /\ held' = held /\ calls' \in Nat /\ call[c] = NoCall
      /\ unheard' = unheard
  BY DEF SendInhibit, TypeOK
<1>3. \A d \in Clients :
          call'[d] = IF d = c THEN [op |-> "Inhibit", flags |-> flags, awaited |-> TRUE] ELSE call[d]
  BY <1>1 DEF TypeOK
<1>4. TypeOK'
  BY <1>1, <1>2 DEF TypeOK, Calls
<1>5. ExportedAreListed' /\ CookiesAreKeys' /\ InhibitedWhileHeld' /\ HeldAreMine'
  BY <1>2 DEF ExportedAreListed, CookiesAreKeys, InhibitedWhileHeld, IsInhibited, HeldAreMine
<1>6. AnswersListed' /\ RemovalsListed'
  BY <1>2, <1>3 DEF AnswersListed, RemovalsListed
<1>7. LeaksOnlyUnheard'
  BY <1>2, <1>3 DEF LeaksOnlyUnheard, TypeOK, Inhibitor, NoCall
<1> QED BY <1>4, <1>5, <1>6, <1>7

(* Who gives up no longer waits, or does not hear the answer on the bus. *)
LEMMA GiveUpStep ==
    ASSUME IInv, NEW c \in Clients, GiveUp(c) PROVE IInv'
<1> USE DEF IInv, Listed
<1> DEFINE mine == [cookie |-> call[c].cookie, client |-> c, flags |-> call[c].flags]
<1>1. /\ inhibitors' = inhibitors /\ exported' = exported /\ index' = index
      /\ alive' = alive /\ held' = held /\ calls' = calls
  BY DEF GiveUp
<1>2. ExportedAreListed' /\ CookiesAreKeys' /\ InhibitedWhileHeld' /\ HeldAreMine'
  BY <1>1 DEF ExportedAreListed, CookiesAreKeys, InhibitedWhileHeld, IsInhibited, HeldAreMine
<1>3. CASE call[c].op = "Inhibit"
  <2>1. /\ call' = [call EXCEPT ![c] = [op |-> "Inhibit", flags |-> call[c].flags, awaited |-> FALSE]]
        /\ unheard' = unheard
    BY <1>3 DEF GiveUp, Answer
  <2>2. [op |-> "Inhibit", flags |-> call[c].flags, awaited |-> FALSE] \in Calls
    BY <1>3, CallKinds DEF Calls
  <2>3. TypeOK'
    BY <1>1, <2>1, <2>2 DEF TypeOK
  <2>4. \A d \in Clients : d # c => call'[d] = call[d]
    BY <2>1 DEF TypeOK
  <2>5. call'[c].op = "Inhibit"
    BY <2>1 DEF TypeOK
  <2>6. AnswersListed' /\ RemovalsListed'
    BY <1>1, <2>4, <2>5 DEF AnswersListed, RemovalsListed
  <2>7. LeaksOnlyUnheard'
    BY <1>1, <1>3, <2>1, <2>4, <2>5 DEF LeaksOnlyUnheard, TypeOK, Inhibitor
  <2> QED BY <1>2, <2>3, <2>6, <2>7
<1>4. CASE call[c].op = "answer"
  <2>1. call' = [call EXCEPT ![c] = NoCall] /\ unheard' = unheard \cup {mine}
    BY <1>4 DEF GiveUp, Answer
  <2>2. mine \in inhibitors /\ mine.cookie = call[c].cookie
    BY <1>4 DEF AnswersListed
  <2>3. TypeOK'
    BY <1>1, <2>1, <2>2 DEF TypeOK, Calls
  <2>4. \A d \in Clients : call'[d] = IF d = c THEN NoCall ELSE call[d]
    BY <2>1 DEF TypeOK
  <2>5. AnswersListed' /\ RemovalsListed'
    BY <1>1, <2>4 DEF AnswersListed, RemovalsListed, NoCall
  <2>6. LeaksOnlyUnheard'
    <3> SUFFICES ASSUME NEW i \in inhibitors, i.client \in alive
                 PROVE  \/ i \in held[i.client] \cup unheard'
                        \/ call'[i.client].op = "answer" /\ call'[i.client].cookie = i.cookie
                        \/ call'[i.client].op = "Uninhibit" /\ call'[i.client].cookie = i.cookie
      BY <1>1 DEF LeaksOnlyUnheard
    <3>1. i.client \in Clients
      BY DEF TypeOK, Inhibitor
    <3>2. CASE i.client = c
      <4>1. i \in held[c] \cup unheard \/ i.cookie = call[c].cookie
        BY <1>4, <3>2 DEF LeaksOnlyUnheard
      <4>2. i.cookie = call[c].cookie => i = mine
        BY <2>2 DEF CookiesAreKeys
      <4> QED BY <4>1, <4>2, <2>1, <3>2
    <3>3. CASE i.client # c
      BY <2>1, <2>4, <3>1, <3>3 DEF LeaksOnlyUnheard
    <3> QED BY <3>2, <3>3
  <2> QED BY <1>2, <2>3, <2>5, <2>6
<1> QED BY <1>3, <1>4 DEF GiveUp

(* The answer becomes a claim that AnswersListed backs. *)
LEMMA ReceiveStep ==
    ASSUME IInv, NEW c \in Clients, ReceiveCookie(c) PROVE IInv'
<1> USE DEF IInv, Listed
<1> DEFINE mine == [cookie |-> call[c].cookie, client |-> c, flags |-> call[c].flags]
<1>1. /\ inhibitors' = inhibitors /\ exported' = exported /\ index' = index
      /\ alive' = alive /\ calls' = calls /\ call' = [call EXCEPT ![c] = NoCall]
      /\ mine \in inhibitors /\ call[c].op = "answer" /\ unheard' = unheard
  BY DEF ReceiveCookie, AnswersListed
<1>2. held' = held \/ held' = [held EXCEPT ![c] = @ \cup {mine}]
  BY DEF ReceiveCookie
<1>3. \A d \in Clients : /\ call'[d] = IF d = c THEN NoCall ELSE call[d]
                         /\ held'[d] = held[d] \/ (d = c /\ held'[d] = held[d] \cup {mine})
                         /\ c \in alive => mine \in held'[c]
  BY <1>1, <1>2 DEF TypeOK, ReceiveCookie
<1>4. TypeOK'
  BY <1>1, <1>2 DEF TypeOK, Calls
<1>5. ExportedAreListed' /\ CookiesAreKeys'
  BY <1>1 DEF ExportedAreListed, CookiesAreKeys
<1>6. InhibitedWhileHeld' /\ HeldAreMine'
  BY <1>1, <1>3 DEF InhibitedWhileHeld, IsInhibited, HeldAreMine
<1>7. AnswersListed'
  BY <1>1, <1>3 DEF AnswersListed, NoCall
<1>8. RemovalsListed'
  BY <1>1, <1>3 DEF RemovalsListed, NoCall
<1>9. LeaksOnlyUnheard'
  <2> SUFFICES ASSUME NEW i \in inhibitors, i.client \in alive
               PROVE  \/ i \in held'[i.client] \cup unheard
                      \/ call'[i.client].op = "answer" /\ call'[i.client].cookie = i.cookie
                      \/ call'[i.client].op = "Uninhibit" /\ call'[i.client].cookie = i.cookie
    BY <1>1 DEF LeaksOnlyUnheard
  <2>1. i.client \in Clients /\ mine.cookie = call[c].cookie
    BY DEF TypeOK, Inhibitor
  <2>2. CASE i.client = c
    <3>1. i \in held[c] \cup unheard \/ i.cookie = call[c].cookie
      BY <1>1, <2>2 DEF LeaksOnlyUnheard
    <3>2. i.cookie = call[c].cookie => i = mine
      BY <1>1, <2>1 DEF CookiesAreKeys
    <3> QED BY <3>1, <3>2, <1>3, <2>2
  <2>3. CASE i.client # c
    BY <2>1, <2>3, <1>3 DEF LeaksOnlyUnheard
  <2> QED BY <2>2, <2>3
<1> QED BY <1>4, <1>5, <1>6, <1>7, <1>8, <1>9

LEMMA SendUninhibitStep ==
    ASSUME IInv, NEW c \in Clients, SendUninhibit(c) PROVE IInv'
<1> USE DEF IInv, Listed
<1>1. PICK i \in held[c] :
          /\ call' = [call EXCEPT ![c] = [op |-> "Uninhibit", cookie |-> i.cookie]]
          /\ held' = [held EXCEPT ![c] = @ \ {i}]
  BY DEF SendUninhibit
<1>2. /\ inhibitors' = inhibitors /\ exported' = exported /\ index' = index
      /\ alive' = alive /\ calls' = calls /\ call[c] = NoCall /\ unheard' = unheard
  BY DEF SendUninhibit
<1>3. i \in inhibitors /\ i.client = c /\ i.cookie \in Cookies
  BY <1>1 DEF InhibitedWhileHeld, IsInhibited, HeldAreMine, TypeOK, Inhibitor
<1>4. \A d \in Clients :
          /\ call'[d] = IF d = c THEN [op |-> "Uninhibit", cookie |-> i.cookie] ELSE call[d]
          /\ held'[d] = IF d = c THEN held[c] \ {i} ELSE held[d]
  BY <1>1 DEF TypeOK
<1>5. TypeOK'
  BY <1>1, <1>2, <1>3 DEF TypeOK, Calls
<1>6. ExportedAreListed' /\ CookiesAreKeys' /\ InhibitedWhileHeld' /\ HeldAreMine'
  BY <1>2, <1>4
     DEF ExportedAreListed, CookiesAreKeys, InhibitedWhileHeld, IsInhibited, HeldAreMine
<1>7. AnswersListed' /\ RemovalsListed'
  BY <1>2, <1>3, <1>4 DEF AnswersListed, RemovalsListed
<1>8. LeaksOnlyUnheard'
  BY <1>2, <1>4 DEF LeaksOnlyUnheard, TypeOK, Inhibitor, NoCall
<1> QED BY <1>5, <1>6, <1>7, <1>8
-----------------------------------------------------------------------------
LEMMA NextIInv == ASSUME IInv, [Next]_vars PROVE IInv'
<1>1. CASE UNCHANGED vars
  BY <1>1 DEF vars, IInv, Listed, TypeOK, ExportedAreListed, CookiesAreKeys, InhibitedWhileHeld,
     IsInhibited, HeldAreMine, AnswersListed, RemovalsListed, LeaksOnlyUnheard
<1>2. CASE Next
  BY <1>2, InhibitStep, UninhibitStep, DeathStep, SendInhibitStep, ReceiveStep,
     SendUninhibitStep, GiveUpStep
     DEF Next
<1> QED BY <1>1, <1>2

LEMMA Invariance == Spec => []IInv
<1>1. Init => IInv
  BY InitIInv
<1>2. IInv /\ [Next]_vars => IInv'
  BY NextIInv
<1> QED BY <1>1, <1>2, PTL DEF Spec

(* Types: in particular the counter never leaves its range. *)
THEOREM TypeCorrect == Spec => []TypeOK
<1>1. IInv => TypeOK
  BY DEF IInv
<1> QED BY <1>1, Invariance, PTL

(* A client's inhibitor stays in force until the client gives it back, for  *)
(* any number of clients and however often the counter wraps around         *)
(* (Inhibit and Uninhibit).                                                 *)
THEOREM HeldInhibitorsStay == Spec => []InhibitedWhileHeld
<1>1. IInv => InhibitedWhileHeld
  BY DEF IInv, Listed
<1> QED BY <1>1, Invariance, PTL

(* Of the entries in m_inhibitorMap, only those of a client that died, and  *)
(* those made by a call whose client had given it up, cannot be removed by  *)
(* anybody (Inhibit, Uninhibit, lines 153-158).                             *)
THEOREM NoOtherLeak == Spec => []LeaksOnlyUnheard
<1>1. IInv => LeaksOnlyUnheard
  BY DEF IInv
<1> QED BY <1>1, Invariance, PTL

(* m_inhibitorMap and the exported objects agree at every moment. *)
THEOREM BusMatchesMap == Spec => []ExportedAreListed
<1>1. IInv => ExportedAreListed
  BY DEF IInv
<1> QED BY <1>1, Invariance, PTL
-----------------------------------------------------------------------------
(* The steps as InhibitSpec sees them.                                      *)

Claims == [c \in Clients |-> held[c] \cup Promised(c)]

Asking == {c \in Clients : Asks(c)}

(* Where no client starts or stops waiting. *)
LEMMA AskingStays ==
    ASSUME \A d \in Clients : Asks(d)' <=> Asks(d) PROVE Asking' = Asking
  BY DEF Asking

(* Where one client does not wait afterwards. *)
LEMMA AskingLess ==
    ASSUME NEW c \in Clients, \A d \in Clients : d # c => (Asks(d)' <=> Asks(d)), ~Asks(c)'
    PROVE  Asking' = Asking \ {c}
  BY DEF Asking

(* A step that changes what one client counts on. *)
LEMMA ClaimsChange ==
    ASSUME NEW c \in Clients, NEW S,
           \A d \in Clients : d # c => held'[d] \cup Promised(d)' = held[d] \cup Promised(d),
           held'[c] \cup Promised(c)' = S
    PROVE  Claims' = [Claims EXCEPT ![c] = S]
  BY DEF Claims

LEMMA ClaimsStay ==
    ASSUME \A d \in Clients : held'[d] \cup Promised(d)' = held[d] \cup Promised(d)
    PROVE  Claims' = Claims
  BY DEF Claims

(* An inhibitor is granted under a new name, or the client stops waiting,   *)
(* or nothing happens.                                                      *)
LEMMA InhibitGrants ==
    ASSUME IInv, NEW c \in Clients, Inhibit(c)
    PROVE  Registry!Grant(c) \/ Registry!StopAsking(c) \/ UNCHANGED Registry!specVars
<1> USE DEF IInv
<1> DEFINE new == New(c)
           answer == [op |-> "answer", cookie |-> index, flags |-> call[c].flags]
<1>1. call[c].flags \in Flags /\ call[c].op = "Inhibit"
  BY CallKinds DEF Inhibit
<1>2. new \in Inhibitor /\ new.client = c /\ new.cookie = index
  BY <1>1 DEF Inhibitor, TypeOK, New
<1>3. held' = held /\ \A d \in Clients : d # c => call'[d] = call[d]
  BY DEF Inhibit, AnswerCookie, Answer, TypeOK
<1>4. \A d \in Clients : d # c => held'[d] \cup Promised(d)' = held[d] \cup Promised(d)
  BY <1>3 DEF Promised
<1>5. Promised(c) = {}
  BY <1>1 DEF Promised
<1>6. call' = [call EXCEPT ![c] = NoCall] \/ call' = [call EXCEPT ![c] = answer]
  BY DEF Inhibit, AnswerCookie, Answer, New
<1>7. call'[c] \in {NoCall, answer}
  BY <1>6 DEF TypeOK
<1>8. ~Asks(c)'
  BY <1>7 DEF Asks, NoCall
<1>9. Asking' = Asking \ {c}
  BY <1>3, <1>8, AskingLess DEF Asks
<1>10. Asks(c) <=> call[c].awaited
  BY <1>1 DEF Asks
<1>11. ASSUME call' = [call EXCEPT ![c] = NoCall] PROVE Claims' = Claims
  <2>1. call'[c].op = "none"
    BY <1>11 DEF TypeOK, NoCall
  <2>2. Promised(c)' = {}
    BY <2>1 DEF Promised
  <2> QED BY <1>3, <1>4, <1>5, <2>2, ClaimsStay
<1>12. CASE UNCHANGED <<inhibitors, exported>> /\ call' = [call EXCEPT ![c] = NoCall]
  <2>1. CASE Asks(c)
    <3>1. c \in Asking
      BY <2>1 DEF Asking
    <3> QED BY <1>9, <1>11, <1>12, <3>1 DEF Registry!StopAsking, Claims, Asking
  <2>2. CASE ~Asks(c)
    <3>1. Asking' = Asking
      BY <1>9, <2>2 DEF Asking
    <3> QED BY <1>11, <1>12, <3>1 DEF Registry!specVars, Claims, Asking
  <2> QED BY <2>1, <2>2
<1>13. CASE index \notin exported /\ exported' = exported \cup {index} /\ Insert(new)
            /\ AnswerCookie(c, new)
  <2>1. inhibitors' = inhibitors \cup {new}
    <3>1. \A i \in inhibitors : i.cookie # index
      BY <1>13 DEF ExportedAreListed
    <3> QED BY <1>2, <1>13, <3>1 DEF Insert
  <2>2. Claims' = IF c \in Asking THEN [Claims EXCEPT ![c] = @ \cup {new}] ELSE Claims
    <3>1. CASE call[c].awaited
      <4>1. call'[c] = answer
        BY <1>13, <3>1 DEF AnswerCookie, Answer, New, TypeOK
      <4>2. Promised(c)' = {new}
        BY <4>1 DEF Promised, New
      <4>3. Claims[c] = held[c] /\ held'[c] \cup Promised(c)' = held[c] \cup {new}
        BY <1>3, <1>5, <4>2 DEF Claims
      <4>4. Claims' = [Claims EXCEPT ![c] = Claims[c] \cup {new}]
        BY <1>4, <4>3, ClaimsChange
      <4>5. c \in Asking
        BY <1>10, <3>1 DEF Asking
      <4> QED BY <4>4, <4>5
    <3>2. CASE ~call[c].awaited
      <4>1. c \notin Asking
        BY <1>10, <3>2 DEF Asking
      <4>2. call' = [call EXCEPT ![c] = NoCall]
        BY <1>13, <3>2 DEF AnswerCookie, Answer
      <4> QED BY <1>11, <4>1, <4>2
    <3> QED BY <3>1, <3>2
  <2>3. exported' = exported \cup {new.cookie} /\ new.cookie \notin exported
    BY <1>2, <1>13
  <2> HIDE DEF new
  <2> QED BY <1>2, <1>9, <2>1, <2>2, <2>3 DEF Registry!Grant, Claims, Asking
<1> QED BY <1>12, <1>13 DEF Inhibit, Answer

(* What goes is what nobody counts on. *)
LEMMA UninhibitRemoves ==
    ASSUME IInv, NEW c \in Clients, Uninhibit(c) PROVE Registry!Remove
<1> USE DEF IInv, Listed
<1>1. PICK i \in inhibitors : i.cookie = call[c].cookie /\ i.client = c /\ i \notin held[c]
  BY DEF Uninhibit, RemovalsListed
<1>2. {j \in inhibitors : j.cookie = call[c].cookie} = {i}
  BY <1>1 DEF CookiesAreKeys
<1>3. inhibitors' = inhibitors \ {i} /\ exported' = exported \ {i.cookie}
  BY <1>2 DEF Uninhibit
<1>4. call[c].op = "Uninhibit" /\ call' = [call EXCEPT ![c] = NoCall] /\ held' = held
  BY DEF Uninhibit, Answer
<1>5. Promised(c) = {} /\ Promised(c)' = {}
  BY <1>4 DEF Promised, TypeOK, NoCall
<1>6. \A d \in Clients : d # c => i \notin held[d] /\ i \notin Promised(d)
  BY <1>1 DEF HeldAreMine, Promised
<1>7. \A d \in Clients : i \notin Claims[d]
  BY <1>1, <1>5, <1>6 DEF Claims
<1>8. \A d \in Clients : held'[d] \cup Promised(d)' = held[d] \cup Promised(d)
  BY <1>4, <1>5 DEF Promised, TypeOK
<1>9. Claims' = Claims
  BY <1>8, ClaimsStay
<1>10. Asking' = Asking
  BY <1>4, AskingStays DEF Asks, TypeOK, NoCall, Uninhibit
<1> QED BY <1>1, <1>3, <1>7, <1>9, <1>10 DEF Registry!Remove, Claims, Asking

(* Dying gives up every claim, also that of an answer on the bus. *)
LEMMA DeathAbandons ==
    ASSUME IInv, NEW c \in Clients, ClientDies(c)
    PROVE  Registry!Abandon(c) \/ UNCHANGED Registry!specVars
<1> USE DEF IInv
<1>1. held'[c] = {} /\ call'[c].op # "answer"
  BY DEF ClientDies, TypeOK, NoCall
<1>2. Promised(c)' = {}
  BY <1>1 DEF Promised
<1>3. \A d \in Clients : d # c => held'[d] = held[d] /\ call'[d] = call[d]
  BY DEF ClientDies, TypeOK
<1>4. \A d \in Clients : d # c => held'[d] \cup Promised(d)' = held[d] \cup Promised(d)
  BY <1>3 DEF Promised
<1>5. Claims' = [Claims EXCEPT ![c] = {}]
  BY <1>1, <1>2, <1>4, ClaimsChange
<1>6. UNCHANGED <<inhibitors, exported>> /\ Asking' = Asking
  <2>1. \A d \in Clients : Asks(d)' <=> Asks(d)
    BY <1>3 DEF ClientDies, Asks, TypeOK, NoCall
  <2> QED BY <2>1, AskingStays DEF ClientDies
<1>7. CASE Claims[c] = {}
  <2>1. Claims' = Claims
    BY <1>5, <1>7 DEF Claims
  <2> QED BY <1>6, <2>1 DEF Registry!specVars, Claims, Asking
<1>8. CASE Claims[c] # {}
  BY <1>5, <1>6, <1>8 DEF Registry!Abandon, Claims, Asking
<1> QED BY <1>7, <1>8

LEMMA SendInhibitAsks ==
    ASSUME IInv, NEW c \in Clients, SendInhibit(c) PROVE Registry!Ask(c)
<1> USE DEF IInv
<1>1. PICK flags \in Flags :
          call' = [call EXCEPT ![c] = [op |-> "Inhibit", flags |-> flags, awaited |-> TRUE]]
  BY DEF SendInhibit
<1>2. held' = held /\ call[c].op = "none" /\ UNCHANGED <<inhibitors, exported>>
  BY DEF SendInhibit, NoCall
<1>3. /\ call'[c] = [op |-> "Inhibit", flags |-> flags, awaited |-> TRUE]
      /\ \A d \in Clients : d # c => call'[d] = call[d]
  BY <1>1 DEF TypeOK
<1>4. \A d \in Clients : held'[d] \cup Promised(d)' = held[d] \cup Promised(d)
  BY <1>2, <1>3 DEF Promised
<1>5. Claims' = Claims
  BY <1>4, ClaimsStay
<1>6. ~Asks(c) /\ Asks(c)' /\ \A d \in Clients : d # c => (Asks(d)' <=> Asks(d))
  BY <1>2, <1>3 DEF Asks
<1>7. c \notin Asking /\ Asking' = Asking \cup {c}
  BY <1>6 DEF Asking
<1> QED BY <1>2, <1>5, <1>7 DEF Registry!Ask, Claims, Asking

(* Who gives up does not wait any more, or gives the answer back unheard. *)
LEMMA GiveUpStops ==
    ASSUME IInv, NEW c \in Clients, GiveUp(c)
    PROVE  Registry!StopAsking(c) \/ Registry!GiveBack(c) \/ UNCHANGED Registry!specVars
<1> USE DEF IInv
<1> DEFINE mine == [cookie |-> call[c].cookie, client |-> c, flags |-> call[c].flags]
           given == [op |-> "Inhibit", flags |-> call[c].flags, awaited |-> FALSE]
<1>1. held' = held /\ UNCHANGED <<inhibitors, exported>>
  BY DEF GiveUp
<1>2. \A d \in Clients : d # c => call'[d] = call[d]
  BY DEF GiveUp, Answer, TypeOK
<1>3. \A d \in Clients : d # c => held'[d] \cup Promised(d)' = held[d] \cup Promised(d)
  BY <1>1, <1>2 DEF Promised
<1>4. \A d \in Clients : d # c => (Asks(d)' <=> Asks(d))
  BY <1>2 DEF Asks
<1>5. CASE call[c].op = "Inhibit" /\ call[c].awaited /\ Answer(c, given)
  <2>1. call'[c] = given
    BY <1>5 DEF Answer, TypeOK
  <2>2. Promised(c) = {} /\ Promised(c)' = {}
    BY <1>5, <2>1 DEF Promised
  <2>3. Claims' = Claims
    BY <1>1, <1>3, <2>2, ClaimsStay
  <2>4. Asks(c) /\ ~Asks(c)'
    BY <1>5, <2>1 DEF Asks
  <2>5. c \in Asking /\ Asking' = Asking \ {c}
    BY <1>4, <2>4, AskingLess DEF Asking
  <2> QED BY <1>1, <2>3, <2>5 DEF Registry!StopAsking, Claims, Asking
<1>6. CASE call[c].op = "answer" /\ Answer(c, NoCall)
  <2>1. call'[c].op = "none"
    BY <1>6 DEF Answer, TypeOK, NoCall
  <2>2. Promised(c) = {mine} /\ Promised(c)' = {}
    BY <1>6, <2>1 DEF Promised
  <2>3. ~Asks(c) /\ ~Asks(c)'
    BY <1>6, <2>1 DEF Asks
  <2>4. Asking' = Asking
    BY <1>4, <2>3, AskingStays
  <2>5. Claims[c] = held[c] \cup {mine}
    BY <2>2 DEF Claims
  <2>6. Claims' = [Claims EXCEPT ![c] = held[c]]
    BY <1>1, <1>3, <2>2, ClaimsChange
  <2>7. CASE mine \in held[c]
    <3>1. Claims' = Claims
      BY <2>5, <2>6, <2>7 DEF Claims
    <3> QED BY <1>1, <2>4, <3>1 DEF Registry!specVars, Claims, Asking
  <2>8. CASE mine \notin held[c]
    <3>1. mine \in Claims[c] /\ held[c] = Claims[c] \ {mine}
      BY <2>5, <2>8
    <3>2. Claims' = [Claims EXCEPT ![c] = Claims[c] \ {mine}]
      BY <2>6, <3>1
    <3> QED BY <1>1, <2>4, <3>1, <3>2 DEF Registry!GiveBack, Claims, Asking
  <2> QED BY <2>7, <2>8
<1> QED BY <1>5, <1>6 DEF GiveUp

(* A claim passes from the answer to the client that lives; what a dead one *)
(* was to receive is given back.                                            *)
LEMMA ReceiveKeepsClaim ==
    ASSUME IInv, NEW c \in Clients, ReceiveCookie(c)
    PROVE  Registry!GiveBack(c) \/ UNCHANGED Registry!specVars
<1> USE DEF IInv
<1> DEFINE mine == [cookie |-> call[c].cookie, client |-> c, flags |-> call[c].flags]
<1>1. Promised(c) = {mine}
  BY DEF ReceiveCookie, Promised
<1>2. Promised(c)' = {}
  BY DEF ReceiveCookie, Promised, TypeOK, NoCall
<1>3. \A d \in Clients : d # c => held'[d] = held[d] /\ call'[d] = call[d]
  BY DEF ReceiveCookie, TypeOK
<1>4. \A d \in Clients : d # c => held'[d] \cup Promised(d)' = held[d] \cup Promised(d)
  BY <1>3 DEF Promised
<1>5. UNCHANGED <<inhibitors, exported>> /\ Asking' = Asking
  <2>1. \A d \in Clients : Asks(d)' <=> Asks(d)
    BY <1>3 DEF ReceiveCookie, Asks, TypeOK, NoCall
  <2> QED BY <2>1, AskingStays DEF ReceiveCookie
<1>6. Claims[c] = held[c] \cup {mine}
  BY <1>1 DEF Claims
<1>7. CASE held'[c] = held[c] \cup {mine}
  <2>1. Claims' = Claims
    BY <1>1, <1>2, <1>4, <1>7, ClaimsStay
  <2> QED BY <1>5, <2>1 DEF Registry!specVars, Claims, Asking
<1>8. CASE held' = held
  <2>1. Claims' = [Claims EXCEPT ![c] = held[c]]
    BY <1>2, <1>4, <1>8, ClaimsChange
  <2>2. CASE mine \in held[c]
    <3>1. Claims' = Claims
      BY <1>6, <2>1, <2>2 DEF Claims
    <3> QED BY <1>5, <3>1 DEF Registry!specVars, Claims, Asking
  <2>3. CASE mine \notin held[c]
    <3>1. mine \in Claims[c] /\ held[c] = Claims[c] \ {mine}
      BY <1>6, <2>3
    <3>2. Claims' = [Claims EXCEPT ![c] = Claims[c] \ {mine}]
      BY <2>1, <3>1
    <3> QED BY <1>5, <3>1, <3>2 DEF Registry!GiveBack, Claims, Asking
  <2> QED BY <2>2, <2>3
<1> QED BY <1>7, <1>8 DEF ReceiveCookie, TypeOK

LEMMA SendUninhibitGivesBack ==
    ASSUME IInv, NEW c \in Clients, SendUninhibit(c) PROVE Registry!GiveBack(c)
<1> USE DEF IInv
<1>1. PICK i \in held[c] :
          /\ call' = [call EXCEPT ![c] = [op |-> "Uninhibit", cookie |-> i.cookie]]
          /\ held' = [held EXCEPT ![c] = @ \ {i}]
  BY DEF SendUninhibit
<1>2. call[c].op # "answer" /\ call'[c].op # "answer"
  BY <1>1 DEF SendUninhibit, TypeOK, NoCall
<1>3. Promised(c) = {} /\ Promised(c)' = {}
  BY <1>2 DEF Promised
<1>4. \A d \in Clients : d # c => held'[d] = held[d] /\ call'[d] = call[d]
  BY <1>1 DEF TypeOK
<1>5. \A d \in Clients : d # c => held'[d] \cup Promised(d)' = held[d] \cup Promised(d)
  BY <1>4 DEF Promised
<1>6. Claims[c] = held[c] /\ held'[c] \cup Promised(c)' = Claims[c] \ {i}
  BY <1>1, <1>3 DEF Claims, TypeOK
<1>7. Claims' = [Claims EXCEPT ![c] = Claims[c] \ {i}]
  BY <1>5, <1>6, ClaimsChange
<1>8. Asking' = Asking
  <2>1. ~Asks(c) /\ ~Asks(c)'
    BY <1>1 DEF SendUninhibit, Asks, TypeOK, NoCall
  <2> QED BY <1>4, <2>1, AskingStays DEF Asks
<1>9. UNCHANGED <<inhibitors, exported>>
  BY DEF SendUninhibit
<1> QED BY <1>1, <1>6, <1>7, <1>8, <1>9 DEF Registry!GiveBack, Claims, Asking

LEMMA StepKeepsRegistry ==
    ASSUME IInv, [Next]_vars PROVE [Registry!SpecNext]_(Registry!specVars)
<1>1. CASE UNCHANGED vars
  BY <1>1 DEF vars, Registry!specVars, Promised, Asks
<1>2. CASE Next
  BY <1>2, InhibitGrants, UninhibitRemoves, DeathAbandons, SendInhibitAsks,
     GiveUpStops, ReceiveKeepsClaim, SendUninhibitGivesBack DEF Next, Registry!SpecNext
<1> QED BY <1>1, <1>2

(* For any clients, flags and counter, the session manager and its clients  *)
(* implement InhibitSpec: every step is one of its steps or a stutter.      *)
THEOREM Refinement == Spec => KeepsRegistry
<1>1. Init => Registry!SpecInit
  <2> SUFFICES ASSUME Init PROVE Registry!SpecInit
    OBVIOUS
  <2>1. \A c \in Clients : held[c] \cup Promised(c) = {}
    BY DEF Init, Promised, NoCall
  <2>2. Asking = {}
    BY DEF Init, Asking, Asks, NoCall
  <2> QED BY <2>1, <2>2 DEF Init, Registry!SpecInit, Asking
<1>2. IInv /\ [Next]_vars => [Registry!SpecNext]_(Registry!specVars)
  BY StepKeepsRegistry
<1> QED BY <1>1, <1>2, Invariance, PTL DEF Spec, KeepsRegistry, Registry!Promise
=============================================================================
