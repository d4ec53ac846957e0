-------------------------- MODULE Delegation_proofs --------------------------
(***************************************************************************)
(* Proofs about Delegation, for any number of calls and assets.            *)
(*                                                                         *)
(* A call acts on what it has read, and nobody holds the chain still for   *)
(* it.  Two facts about stale reads carry the proof: what a call has seen  *)
(* of a record was so at some moment of the call (Saw), and the agent's    *)
(* own record, once seen, can only have gone by a revocation (SelfSeen).   *)
(***************************************************************************)
EXTENDS Delegation, TLAPS

\* A call in the process knows a registered asset; one that has read its
\* configuration is about an asset.
KnowsAsset ==
  \A c \in Call :
    /\ pc[c] \in {"card", "reading", "approval", "landed"} => registered \in Asset
    /\ pc[c] \in {"reading", "approval", "landed", "late", "ok"} => asset[c] \in Asset
    /\ pc[c] = "card" => tool[c] = "delegate" \/ asset[c] \in Asset

\* All is unread before the reads, and nothing after them; what is unread is not
\* seen; a delegation is about both executives.
ReadsOnce ==
  \A c \in Call :
    /\ pc[c] = "card" => target[c] \subseteq unread[c] /\ seen[c] = {}
    /\ pc[c] \in {"approval", "late"} => unread[c] = {}
    /\ pc[c] # "idle" => seen[c] \cap unread[c] = {}
    /\ pc[c] # "idle" /\ tool[c] = "delegate" => target[c] = Executive

Deciding(c) == pc[c] \in {"reading", "approval", "late"}

\* What a call has read, and in the end all that its answer speaks of, was so.
Saw(c) ==
  /\ pc[c] \in {"reading", "approval"} =>
       \A e \in target[c] \ unread[c] : (e \in seen[c] <=> tool[c] = "delegate") => e \in was[c]
  /\ pc[c] \in {"landed", "ok"} => target[c] \subseteq was[c]

AllSaw == \A c \in Call : Saw(c)

SelfSeen ==
  \A c \in Call : Deciding(c) /\ "self" \in seen[c] =>
    <<asset[c], "self">> \in records \/ asset[c] \in severed

\* The two halves of PairedDelegation, the second for every asset.
Paired ==
  \A a \in Asset :
    /\ <<a, "plumber">> \in records => <<a, "self">> \in records \/ a \in severed
    /\ <<a, "self">> \in records => a \notin severed

Inv == TypeOK /\ KnowsAsset /\ ReadsOnce /\ AllSaw /\ SelfSeen /\ Paired

-----------------------------------------------------------------------------

LEMMA InitInv == ASSUME Init PROVE Inv
BY ConstantsAssumption
  DEF Init, IdentityInit, Inv, TypeOK, KnowsAsset, ReadsOnce, Deciding, AllSaw, Saw, SelfSeen,
      Paired, Account, Executive

\* The history of a call that works or answers only grows, and a call that works
\* sees the records as they are.
LEMMA WasGrows ==
  ASSUME Observe, NEW c \in Call
  PROVE  /\ Working(c) \/ pc'[c] = "ok" => was[c] \subseteq was'[c]
         /\ Working(c)' => AsAnswered(c)' \subseteq was'[c]
BY DEF Observe

\* A call that the step does not move has still seen what it saw.
LEMMA SawStays ==
  ASSUME Inv, Observe, NEW c \in Call,
         /\ pc'[c] = pc[c] /\ tool'[c] = tool[c] /\ target'[c] = target[c]
         /\ unread'[c] = unread[c] /\ seen'[c] = seen[c]
  PROVE  Saw(c)'
<1>1. Working(c) \/ pc'[c] = "ok" => was[c] \subseteq was'[c]
  BY WasGrows
<1>2. Saw(c)
  BY DEF Inv, AllSaw
<1> QED
  BY <1>1, <1>2 DEF Saw, Working

\* A call that keeps nothing is of no concern to the invariant.
LEMMA ErrsInv ==
  ASSUME Inv, Observe, was' \in [Call -> SUBSET Executive],
         NEW c \in Call, Errs(c), UNCHANGED <<registered, chain>>
  PROVE  Inv'
<1>1. TypeOK'
  BY DEF Errs, Holds, chain, Inv, TypeOK
<1>2. /\ \A d \in Call : d # c =>
           /\ pc'[d] = pc[d] /\ tool'[d] = tool[d] /\ asset'[d] = asset[d]
           /\ target'[d] = target[d] /\ unread'[d] = unread[d] /\ seen'[d] = seen[d]
      /\ pc'[c] = "idle"
  BY DEF Errs, Holds, Inv, TypeOK
<1>3. KnowsAsset' /\ ReadsOnce'
  BY <1>2 DEF Inv, KnowsAsset, ReadsOnce
<1>4. SelfSeen' /\ Paired'
  BY <1>2 DEF Inv, SelfSeen, Deciding, Paired, chain
<1>5. AllSaw'
  <2>1. Saw(c)'
    BY <1>2 DEF Saw
  <2>2. QED
    BY <1>2, <2>1, SawStays DEF AllSaw
<1>6. QED
  BY <1>1, <1>3, <1>4, <1>5 DEF Inv

\* A call begins: it has read nothing.
LEMMA BeginInv ==
  ASSUME Inv, Observe, was' \in [Call -> SUBSET Executive],
         NEW c \in Call, DelegateToNori(c) \/ RevokeDelegate(c)
  PROVE  Inv'
<1>1. PICK t \in {"delegate", "revoke"}, a \in Asset \cup {None}, execs \in SUBSET Executive,
           accounts \in SUBSET Account, where \in {"card", "reading"} :
        /\ Begin(c, where)
        /\ Holds(c, t, a, execs, accounts)
        /\ execs \subseteq accounts
        /\ where = "reading" => a \in Asset
        /\ t = "delegate" \/ a \in Asset
        /\ t = "delegate" => execs = Executive
  BY DEF DelegateToNori, RevokeDelegate, Begin, Account, Executive
<1>2. TypeOK'
  BY <1>1 DEF Begin, Holds, chain, Inv, TypeOK
<1>3. /\ \A d \in Call : d # c =>
           /\ pc'[d] = pc[d] /\ tool'[d] = tool[d] /\ asset'[d] = asset[d]
           /\ target'[d] = target[d] /\ unread'[d] = unread[d] /\ seen'[d] = seen[d]
      /\ pc'[c] = where /\ tool'[c] = t /\ asset'[c] = a
      /\ target'[c] = execs /\ unread'[c] = accounts /\ seen'[c] = {}
      /\ registered \in Asset
      /\ UNCHANGED <<registered, chain>>
  BY <1>1 DEF Begin, Holds, Inv, TypeOK
<1>4. KnowsAsset' /\ ReadsOnce'
  BY <1>1, <1>3 DEF Inv, KnowsAsset, ReadsOnce
<1>5. SelfSeen' /\ Paired'
  BY <1>1, <1>3 DEF Inv, SelfSeen, Deciding, Paired, chain
<1>6. AllSaw'
  <2>1. Saw(c)'
    BY <1>1, <1>3 DEF Saw
  <2>2. QED
    BY <1>3, <2>1, SawStays DEF AllSaw
<1>7. QED
  BY <1>2, <1>4, <1>5, <1>6 DEF Inv

LEMMA CardInv ==
  ASSUME Inv, Observe, was' \in [Call -> SUBSET Executive], NEW c \in Call, CardArrives(c)
  PROVE  Inv'
<1>1. TypeOK'
  BY DEF CardArrives, chain, Inv, TypeOK, KnowsAsset
<1>2. /\ \A d \in Call : d # c => pc'[d] = pc[d] /\ asset'[d] = asset[d]
      /\ pc[c] = "card" /\ pc'[c] = "reading" /\ asset'[c] \in Asset
      /\ UNCHANGED <<registered, records, severed, tool, target, unread, seen>>
  BY DEF CardArrives, chain, Inv, TypeOK, KnowsAsset
<1>3. KnowsAsset' /\ ReadsOnce'
  BY <1>2 DEF Inv, KnowsAsset, ReadsOnce
<1>4. SelfSeen' /\ Paired'
  BY <1>2 DEF Inv, ReadsOnce, SelfSeen, Deciding, Paired
<1>5. AllSaw'
  <2>1. Saw(c)'
    BY <1>2 DEF Inv, ReadsOnce, Saw
  <2>2. QED
    BY <1>2, <2>1, SawStays DEF AllSaw
<1>6. QED
  BY <1>1, <1>3, <1>4, <1>5 DEF Inv

LEMMA ReadInv ==
  ASSUME Inv, Observe, was' \in [Call -> SUBSET Executive],
         NEW c \in Call, NEW x \in Account, Read(c, x)
  PROVE  Inv'
<1>1. TypeOK'
  BY DEF Read, chain, Inv, TypeOK
<1>2. /\ \A d \in Call : d # c => unread'[d] = unread[d] /\ seen'[d] = seen[d]
      /\ pc[c] = "reading" /\ unread'[c] = unread[c] \ {x}
      /\ seen'[c] = seen[c] \cup {y \in {x} : Exists(c, x)}
      /\ UNCHANGED <<registered, records, severed, pc, tool, asset, target>>
  BY DEF Read, chain, Inv, TypeOK
<1>3. KnowsAsset' /\ ReadsOnce' /\ Paired'
  BY <1>2 DEF Inv, KnowsAsset, ReadsOnce, Paired
<1>4. \A e \in Executive : e # "profile"
  BY DEF Executive
<1>5. AllSaw'
  <2>1. Saw(c)'
    <3>1. Working(c) /\ Working(c)'
      BY <1>2 DEF Working
    <3>2. was[c] \subseteq was'[c] /\ AsAnswered(c)' \subseteq was'[c]
      BY <3>1, WasGrows
    <3>3. SUFFICES ASSUME NEW e \in target[c] \ unread'[c], e \in seen'[c] <=> tool[c] = "delegate"
                   PROVE  e \in was'[c]
      BY <1>2 DEF Saw
    <3>4. CASE e # x
      <4>1. e \notin unread[c] /\ (e \in seen'[c] <=> e \in seen[c])
        BY <1>2, <3>3, <3>4
      <4>2. QED
        BY <1>2, <3>2, <3>3, <4>1 DEF Inv, AllSaw, Saw
    <3>5. CASE e = x
      <4>1. e \in Executive /\ e \in unread[c] /\ e \notin seen[c]
        BY <1>2, <3>3, <3>5 DEF Read, Inv, TypeOK, ReadsOnce
      <4>2. e \in seen'[c] <=> <<asset[c], e>> \in records
        BY <1>2, <1>4, <3>5, <4>1 DEF Exists
      <4>3. e \in AsAnswered(c)'
        BY <1>2, <3>3, <4>2 DEF AsAnswered
      <4>4. QED
        BY <3>2, <4>3
    <3>6. QED
      BY <3>4, <3>5
  <2>2. QED
    BY <1>2, <2>1, SawStays DEF AllSaw
<1>6. SelfSeen'
  BY <1>2 DEF Inv, SelfSeen, Deciding, Exists
<1>7. QED
  BY <1>1, <1>3, <1>5, <1>6 DEF Inv

\* A decision moves the call only; one that there is nothing to do is right.
LEMMA DecideInv ==
  ASSUME Inv, Observe, was' \in [Call -> SUBSET Executive], NEW c \in Call, Decide(c)
  PROVE  Inv'
<1>1. CASE Errs(c)
  BY <1>1, ErrsInv DEF Decide
<1>2. CASE NothingToDo(c) /\ Goes(c, "ok")
  <2>1. TypeOK'
    BY <1>2 DEF Goes, call, Decide, chain, Inv, TypeOK
  <2>2. /\ \A d \in Call : d # c => pc'[d] = pc[d]
        /\ pc[c] = "reading" /\ unread[c] = {} /\ pc'[c] = "ok"
        /\ UNCHANGED <<registered, records, severed, tool, asset, target, unread, seen>>
    BY <1>2 DEF Goes, call, Decide, chain, Inv, TypeOK
  <2>3. KnowsAsset' /\ ReadsOnce' /\ Paired'
    BY <2>2 DEF Inv, KnowsAsset, ReadsOnce, Paired
  <2>4. SelfSeen'
    BY <2>2 DEF Inv, SelfSeen, Deciding
  <2>5. AllSaw'
    <3>1. was[c] \subseteq was'[c]
      BY <2>2, WasGrows
    <3>2. \A e \in target[c] : e \in seen[c] <=> tool[c] = "delegate"
      BY <1>2 DEF NothingToDo, Inv, TypeOK
    <3>3. Saw(c)'
      BY <2>2, <3>1, <3>2 DEF Inv, AllSaw, Saw
    <3>4. QED
      BY <2>2, <3>3, SawStays DEF AllSaw
  <2>6. QED
    BY <2>1, <2>3, <2>4, <2>5 DEF Inv
<1>3. CASE Goes(c, "approval")
  <2>1. TypeOK'
    BY <1>3 DEF Goes, call, Decide, chain, Inv, TypeOK
  <2>2. /\ \A d \in Call : d # c => pc'[d] = pc[d]
        /\ pc[c] = "reading" /\ unread[c] = {} /\ pc'[c] = "approval"
        /\ UNCHANGED <<registered, records, severed, tool, asset, target, unread, seen>>
    BY <1>3 DEF Goes, call, Decide, chain, Inv, TypeOK
  <2>3. KnowsAsset' /\ ReadsOnce' /\ Paired'
    BY <2>2 DEF Inv, KnowsAsset, ReadsOnce, Paired
  <2>4. SelfSeen'
    BY <2>2 DEF Inv, SelfSeen, Deciding
  <2>5. AllSaw'
    <3>1. was[c] \subseteq was'[c]
      BY <2>2, WasGrows DEF Working
    <3>2. Saw(c)'
      BY <2>2, <3>1 DEF Inv, AllSaw, Saw
    <3>3. QED
      BY <2>2, <3>2, SawStays DEF AllSaw
  <2>6. QED
    BY <2>1, <2>3, <2>4, <2>5 DEF Inv
<1>4. QED
  BY <1>1, <1>2, <1>3 DEF Decide

\* A transaction lands: what its call has not seen of the records it now finds done.
LEMMA LandsInv ==
  ASSUME Inv, Observe, was' \in [Call -> SUBSET Executive], NEW c \in Call, Lands(c)
  PROVE  Inv'
<1>1. /\ pc[c] \in {"approval", "late"} /\ unread[c] = {} /\ asset[c] \in Asset
      /\ Writes(c) \subseteq Asset \X Executive
  BY DEF Lands, Writes, Inv, KnowsAsset, ReadsOnce, TypeOK, Executive
<1>2. \A d \in Call :
        /\ d # c => /\ pc'[d] = pc[d] /\ tool'[d] = tool[d] /\ asset'[d] = asset[d]
                    /\ target'[d] = target[d] /\ unread'[d] = unread[d] /\ seen'[d] = seen[d]
  BY DEF Lands, Goes, call, Errs, Holds, Inv, TypeOK
<1>3. \/ /\ pc[c] = "approval" /\ pc'[c] = "landed"
         /\ UNCHANGED <<tool, asset, target, unread, seen>>
      \/ pc'[c] = "idle"
  BY <1>1 DEF Lands, Goes, call, Errs, Inv, TypeOK
<1>4. /\ registered' = registered
      /\ records' = IF tool[c] = "delegate" THEN records \cup Writes(c) ELSE records \ Writes(c)
      /\ severed' = IF tool[c] = "delegate" THEN severed \ Touched(c) ELSE severed \cup Touched(c)
  BY DEF Lands
<1>5. Touched(c) = {a \in Asset : <<a, "self">> \in Writes(c)}
  <2>1. \A w \in Writes(c) : w = <<asset[c], w[2]>> /\ w[1] = asset[c]
    BY DEF Writes
  <2>2. \A a \in Asset : <<a, "self">> \in Writes(c) => a \in Touched(c)
    <3>1. SUFFICES ASSUME NEW a \in Asset, <<a, "self">> \in Writes(c)
                   PROVE  a \in Touched(c)
      OBVIOUS
    <3>2. <<a, "self">>[1] = a /\ <<a, "self">>[2] = "self"
      OBVIOUS
    <3>3. QED
      BY <3>1, <3>2 DEF Touched
  <2>3. \A a \in Touched(c) : a \in Asset /\ <<a, "self">> \in Writes(c)
    BY <1>1, <2>1 DEF Touched
  <2>4. QED
    BY <2>2, <2>3
<1>6. TypeOK'
  <2>1. /\ records' \subseteq Asset \X Executive /\ severed' \subseteq Asset
        /\ profile' \in BOOLEAN
    BY <1>1, <1>4, <1>5 DEF Lands, Inv, TypeOK
  <2>2. /\ pc' \in [Call -> {"idle", "card", "reading", "approval", "landed", "late", "ok"}]
        /\ tool' \in [Call -> {"delegate", "revoke"}]
        /\ asset' \in [Call -> Asset \cup {None}]
        /\ target' \in [Call -> SUBSET Executive]
        /\ unread' \in [Call -> SUBSET Account]
        /\ seen' \in [Call -> SUBSET Account]
    <3>1. CASE pc[c] = "approval"
      BY <3>1 DEF Lands, Goes, call, Inv, TypeOK
    <3>2. CASE pc[c] # "approval"
      BY <3>2 DEF Lands, Errs, Holds, Inv, TypeOK
    <3>3. QED
      BY <3>1, <3>2
  <2>3. QED
    BY <1>4, <2>1, <2>2 DEF Inv, TypeOK
<1>7. KnowsAsset' /\ ReadsOnce'
  BY <1>2, <1>3, <1>4 DEF Inv, KnowsAsset, ReadsOnce
<1>8. \A d \in Call : Deciding(d)' => d # c /\ Deciding(d)
  BY <1>2, <1>3 DEF Deciding
<1>9. SelfSeen'
  <2>1. SUFFICES ASSUME NEW d \in Call, Deciding(d)', "self" \in seen'[d]
                 PROVE  <<asset'[d], "self">> \in records' \/ asset'[d] \in severed'
    BY DEF SelfSeen
  <2>2. /\ d # c /\ Deciding(d) /\ asset'[d] = asset[d] /\ asset[d] \in Asset
        /\ <<asset[d], "self">> \in records \/ asset[d] \in severed
    BY <1>2, <1>8, <2>1 DEF Inv, SelfSeen, KnowsAsset, Deciding
  <2>3. QED
    BY <1>4, <1>5, <2>2
<1>10. AllSaw'
  <2>1. Saw(c)'
    <3>1. CASE pc'[c] = "idle"
      BY <3>1 DEF Saw
    <3>2. CASE /\ pc[c] = "approval" /\ pc'[c] = "landed"
               /\ UNCHANGED <<tool, asset, target, unread, seen>>
      <4>1. was[c] \subseteq was'[c] /\ AsAnswered(c)' \subseteq was'[c]
        BY <3>2, WasGrows DEF Working
      <4>2. SUFFICES ASSUME NEW e \in target[c]
                     PROVE  e \in was'[c]
        BY <3>2 DEF Saw
      <4>3. CASE e \in seen[c] <=> tool[c] = "delegate"
        BY <1>1, <3>2, <4>1, <4>3 DEF Inv, AllSaw, Saw
      <4>4. CASE <<asset[c], e>> \in Writes(c)
        BY <1>4, <3>2, <4>1, <4>4 DEF AsAnswered
      <4>5. QED
        BY <4>3, <4>4 DEF Writes, Inv, TypeOK
    <3>3. QED
      BY <1>3, <3>1, <3>2
  <2>2. QED
    BY <1>2, <2>1, SawStays DEF AllSaw
<1>11. Paired'
  <2>1. SUFFICES ASSUME NEW a \in Asset
                 PROVE  /\ <<a, "plumber">> \in records' =>
                             <<a, "self">> \in records' \/ a \in severed'
                        /\ <<a, "self">> \in records' => a \notin severed'
    BY DEF Paired
  <2>2. /\ <<a, "plumber">> \in records => <<a, "self">> \in records \/ a \in severed
        /\ <<a, "self">> \in records => a \notin severed
        /\ a \in Touched(c) <=> <<a, "self">> \in Writes(c)
    BY <1>5 DEF Inv, Paired
  <2>3. CASE tool[c] = "revoke"
    BY <1>4, <2>2, <2>3
  <2>4. CASE tool[c] = "delegate"
    <3>1. CASE <<a, "plumber">> \notin Writes(c) \/ <<a, "self">> \in Writes(c)
      BY <1>4, <2>2, <2>4, <3>1
    <3>2. CASE <<a, "plumber">> \in Writes(c) /\ <<a, "self">> \notin Writes(c)
      <4>1. a = asset[c] /\ "self" \in seen[c]
        BY <1>1, <2>4, <3>2 DEF Writes, Inv, ReadsOnce, Executive
      <4>2. <<a, "self">> \in records \/ a \in severed
        BY <1>1, <4>1 DEF Inv, SelfSeen, Deciding
      <4>3. QED
        BY <1>4, <2>2, <2>4, <3>2, <4>2
    <3>3. QED
      BY <3>1, <3>2
  <2>5. QED
    BY <2>3, <2>4 DEF Inv, TypeOK
<1>12. QED
  BY <1>6, <1>7, <1>9, <1>10, <1>11 DEF Inv

\* A call waits, or its transaction goes on without it.
LEMMA WaitInv ==
  ASSUME Inv, Observe, was' \in [Call -> SUBSET Executive], NEW c \in Call,
         Confirmed(c) \/ (Rejected(c) /\ ~Errs(c))
  PROVE  Inv'
<1>1. TypeOK'
  BY DEF Confirmed, Rejected, Goes, call, chain, Inv, TypeOK
<1>2. /\ \A d \in Call : d # c => pc'[d] = pc[d]
      /\ \/ pc[c] = "landed" /\ pc'[c] = "ok"
         \/ pc[c] = "approval" /\ pc'[c] = "late"
      /\ UNCHANGED <<registered, records, severed, tool, asset, target, unread, seen>>
  BY DEF Confirmed, Rejected, Goes, call, chain, Inv, TypeOK
<1>3. KnowsAsset' /\ ReadsOnce'
  BY <1>2 DEF Inv, KnowsAsset, ReadsOnce
<1>4. SelfSeen' /\ Paired'
  BY <1>2 DEF Inv, SelfSeen, Deciding, Paired
<1>5. AllSaw'
  <2>1. Saw(c)'
    <3>1. CASE pc'[c] = "late"
      BY <3>1 DEF Saw
    <3>2. CASE pc[c] = "landed" /\ pc'[c] = "ok"
      BY <1>2, <3>2, WasGrows DEF Inv, AllSaw, Saw
    <3>3. QED
      BY <1>2, <3>1, <3>2
  <2>2. QED
    BY <1>2, <2>1, SawStays DEF AllSaw
<1>6. QED
  BY <1>1, <1>3, <1>4, <1>5 DEF Inv

\* The process ends: what is left of the calls is late.
LEMMA EndInv ==
  ASSUME Inv, Observe, was' \in [Call -> SUBSET Executive], End, CallsEnd, UNCHANGED chain
  PROVE  Inv'
<1>1. TypeOK'
  BY DEF End, CallsEnd, chain, Inv, TypeOK
<1>2. /\ \A c \in Call :
           \/ /\ pc[c] \in {"approval", "late"} /\ pc'[c] = "late"
              /\ tool'[c] = tool[c] /\ asset'[c] = asset[c] /\ target'[c] = target[c]
              /\ unread'[c] = unread[c] /\ seen'[c] = seen[c]
           \/ pc'[c] = "idle"
      /\ UNCHANGED <<records, severed>>
  BY DEF CallsEnd, chain
<1>3. KnowsAsset' /\ ReadsOnce'
  BY <1>2 DEF Inv, KnowsAsset, ReadsOnce
<1>4. SelfSeen' /\ Paired'
  BY <1>2 DEF Inv, SelfSeen, Deciding, Paired
<1>5. AllSaw'
  BY <1>2 DEF AllSaw, Saw
<1>6. QED
  BY <1>1, <1>3, <1>4, <1>5 DEF Inv

\* Another process, or another asset.
LEMMA IdentityInv ==
  ASSUME Inv, Observe, was' \in [Call -> SUBSET Executive],
         (Start \/ Register) /\ UNCHANGED <<chain, pc, call>>
  PROVE  Inv'
<1>1. /\ registered' \in Asset \cup {None, Down}
      /\ registered \in Asset => registered' \in Asset
      /\ UNCHANGED <<records, profile, severed, pc, tool, asset, target, unread, seen>>
  BY ConstantsAssumption DEF Start, Register, chain, call, Inv, TypeOK
<1>2. TypeOK' /\ KnowsAsset' /\ ReadsOnce'
  BY <1>1 DEF Inv, TypeOK, KnowsAsset, ReadsOnce
<1>3. AllSaw' /\ SelfSeen' /\ Paired'
  BY <1>1, SawStays DEF Inv, AllSaw, SelfSeen, Deciding, Paired
<1>4. QED
  BY <1>2, <1>3 DEF Inv

\* The history stays within the executives.
LEMMA WasTyped ==
  ASSUME Inv, Step, Observe
  PROVE  was' \in [Call -> SUBSET Executive]
<1>1. target' \in [Call -> SUBSET Executive]
  <2>1. target \in [Call -> SUBSET Executive]
    BY DEF Inv, TypeOK
  <2>2. CASE UNCHANGED call
    BY <2>1, <2>2 DEF call
  <2>3. CASE CallsEnd
    BY <2>1, <2>3 DEF CallsEnd
  <2>4. ASSUME NEW c \in Call, CallStep(c)
        PROVE  target' \in [Call -> SUBSET Executive]
    <3>1. CASE \E execs \in SUBSET Executive : target' = [target EXCEPT ![c] = execs]
      BY <2>1, <3>1
    <3>2. CASE target' = target
      BY <2>1, <3>2
    <3>3. CASE DelegateToNori(c) \/ RevokeDelegate(c)
      BY <3>1, <3>3 DEF DelegateToNori, RevokeDelegate, Holds, Executive
    <3>4. CASE CardArrives(c) \/ \E x \in Account : Read(c, x)
      BY <3>2, <3>4 DEF CardArrives, Read
    <3>5. CASE Errs(c)
      BY <3>1, <3>5 DEF Errs, Holds
    <3>6. CASE \E where \in {"ok", "approval", "landed", "late"} : Goes(c, where)
      BY <3>2, <3>6 DEF Goes, call
    <3>7. QED
      BY <2>4, <3>3, <3>4, <3>5, <3>6
         DEF CallStep, CardFails, ReadFails, Decide, Lands, Confirmed, Rejected, Expires
  <2>5. QED
    BY <2>2, <2>3, <2>4 DEF Step, call
<1>2. QED
  BY <1>1 DEF Observe, AsAnswered, Inv, TypeOK

LEMMA StepInv == ASSUME Inv, [Next]_vars PROVE Inv'
<1>1. CASE UNCHANGED vars
  BY <1>1
     DEF vars, chain, call, Inv, TypeOK, KnowsAsset, ReadsOnce, Deciding, AllSaw, Saw, SelfSeen,
         Paired
<1> SUFFICES ASSUME Next PROVE Inv'
  BY <1>1
<1>2. Observe /\ was' \in [Call -> SUBSET Executive]
  BY WasTyped DEF Next
<1>3. CASE (Start \/ Register) /\ UNCHANGED <<chain, pc, call>>
  BY <1>2, <1>3, IdentityInv
<1>4. CASE End /\ CallsEnd /\ UNCHANGED chain
  BY <1>2, <1>4, EndInv
<1>5. ASSUME NEW c \in Call, CallStep(c) PROVE Inv'
  <2>1. CASE DelegateToNori(c) \/ RevokeDelegate(c)
    BY <1>2, <2>1, BeginInv
  <2>2. CASE CardArrives(c)
    BY <1>2, <2>2, CardInv
  <2>3. CASE CardFails(c) \/ ReadFails(c) \/ Expires(c)
    BY <1>2, <2>3, ErrsInv DEF CardFails, ReadFails, Expires
  <2>4. CASE \E x \in Account : Read(c, x)
    BY <1>2, <2>4, ReadInv
  <2>5. CASE Decide(c)
    BY <1>2, <2>5, DecideInv
  <2>6. CASE Lands(c)
    BY <1>2, <2>6, LandsInv
  <2>7. CASE Confirmed(c) \/ Rejected(c)
    <3>1. CASE Rejected(c) /\ Errs(c)
      BY <1>2, <3>1, ErrsInv DEF Rejected
    <3>2. QED
      BY <1>2, <2>7, <3>1, WaitInv
  <2>8. QED
    BY <1>5, <2>1, <2>2, <2>3, <2>4, <2>5, <2>6, <2>7 DEF CallStep
<1>6. QED
  BY <1>3, <1>4, <1>5 DEF Next, Step

LEMMA SpecInv == Spec => []Inv
<1>1. Init => Inv
  BY InitInv
<1>2. Inv /\ [Next]_vars => Inv'
  BY StepInv
<1>3. QED
  BY <1>1, <1>2, PTL DEF Spec

-----------------------------------------------------------------------------

\* Every variable keeps its type.
THEOREM TypeCorrect == Spec => []TypeOK
<1>1. Inv => TypeOK
  BY DEF Inv
<1>2. QED
  BY <1>1, SpecInv, PTL

\* What the "ok" of a tool says of each record was so at some moment of the call,
\* however many calls overtake one another, and whatever assets come and answers
\* get lost.
THEOREM AnswersAreTrue == Spec => []AnswersHold
<1>1. Inv => AnswersHold
  BY DEF Inv, AllSaw, Saw, AnswersHold
<1>2. QED
  BY <1>1, SpecInv, PTL

\* Plumber's record never stands alone, unless the agent's own was revoked.
THEOREM DelegatedInPairs == Spec => []PairedDelegation
<1>1. Inv => PairedDelegation
  BY DEF Inv, Paired, PairedDelegation
<1>2. QED
  BY <1>1, SpecInv, PTL
=============================================================================
