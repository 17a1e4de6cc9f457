------------------------- MODULE NameAuthority_proofs -------------------------
(***************************************************************************)
(* Theorems about NameAuthority, for any labels, names, registrations and  *)
(* texts.                                                                  *)
(***************************************************************************)
EXTENDS NameAuthority, SequenceTheorems, TLAPS

--------------------------------------------------------------------------------
(* The authority against its reference definition.                             *)

LEMMA CanonicalTyped ==
  ASSUME NEW s \in Names
  PROVE  canonical(s) \in Seq(Labels) /\ Len(canonical(s)) > 0
<1>1. s \in Seq(Labels) /\ s # <<>> /\ Fold \in [Labels -> Labels]
  BY NameAssumption
<1>2. Len(s) \in Nat \ {0} /\ \A i \in 1..Len(s) : s[i] \in Labels
  BY <1>1, EmptySeq, ElementOfSeq
<1> DEFINE t == IF Len(s) > 1 /\ s[Len(s)] = "" THEN Front(s) ELSE s
<1>3. t \in Seq(Labels) /\ Len(t) \in Nat \ {0}
  <2>1. CASE Len(s) > 1
    <3>1. 1 \in Int /\ Len(s) - 1 \in Int /\ 1 <= Len(s) - 1
          /\ \A i \in 1..(Len(s) - 1) : s[i] \in Labels
      BY <1>2, <2>1
    <3>2. Front(s) \in Seq(Labels) /\ Len(Front(s)) = Len(s) - 1
      BY <3>1, SubSeqProperties DEF Front
    <3>3. Len(Front(s)) \in Nat \ {0}
      BY <3>1, <3>2
    <3>4. t = Front(s) \/ t = s
      OBVIOUS
    <3> HIDE DEF t
    <3> QED
      BY <1>1, <1>2, <3>2, <3>3, <3>4
  <2>2. CASE ~(Len(s) > 1)
    BY <1>1, <1>2, <2>2
  <2> QED
    BY <2>1, <2>2
<1>4. canonical(s) = [i \in 1..Len(t) |-> Fold[t[i]]]
  BY DEF canonical
<1> HIDE DEF t
<1>5. t \in [1..Len(t) -> Labels]
  BY <1>3, LenProperties
<1>6. canonical(s) \in [1..Len(t) -> Labels]
  BY <1>1, <1>4, <1>5
<1>7. canonical(s) \in Seq(Labels)
  BY <1>3, <1>6, SeqDef
<1>8. Len(canonical(s)) = Len(t)
  <2>1. DOMAIN canonical(s) = 1..Len(canonical(s)) /\ Len(canonical(s)) \in Nat
    BY <1>7, LenProperties
  <2> QED
    BY <1>3, <1>6, <2>1
<1> QED
  BY <1>3, <1>7, <1>8

(* Taking a sequence apart after its first element, and putting it together.   *)
LEMMA Prepended ==
  ASSUME NEW S, NEW l \in S, NEW t \in Seq(S)
  PROVE  /\ <<l>> \o t \in Seq(S) /\ Len(<<l>> \o t) = Len(t) + 1
         /\ (<<l>> \o t)[1] = l /\ Tail(<<l>> \o t) = t
<1> DEFINE g == <<l>> \o t
<1>1. <<l>> \in Seq(S) /\ Len(<<l>>) = 1 /\ <<l>>[1] = l /\ Len(t) \in Nat
  BY LenProperties
<1>2. /\ g \in Seq(S) /\ Len(g) = 1 + Len(t)
      /\ \A i \in 1..(1 + Len(t)) : g[i] = IF i <= 1 THEN <<l>>[i] ELSE t[i - 1]
  BY <1>1, ConcatProperties
<1> HIDE DEF g
<1>3. g # <<>>
  BY <1>1, <1>2, EmptySeq
<1>4. /\ Tail(g) \in Seq(S) /\ Len(Tail(g)) = Len(g) - 1
      /\ \A i \in 1..Len(Tail(g)) : Tail(g)[i] = g[i + 1]
  BY <1>2, <1>3, HeadTailProperties
<1>5. Len(Tail(g)) = Len(t)
  BY <1>1, <1>2, <1>4
<1>6. ASSUME NEW i \in 1..Len(Tail(g)) PROVE Tail(g)[i] = t[i]
  <2>1. i + 1 \in 1..(1 + Len(t)) /\ ~(i + 1 <= 1) /\ (i + 1) - 1 = i
    BY <1>1, <1>5
  <2>2. g[i + 1] = t[(i + 1) - 1]
    BY <1>2, <2>1
  <2> QED
    BY <1>4, <2>1, <2>2
<1>7. Tail(g) = t
  BY <1>4, <1>5, <1>6, SeqEqual
<1>8. g[1] = l /\ Len(g) = Len(t) + 1
  BY <1>1, <1>2
<1> QED
  BY <1>2, <1>7, <1>8 DEF g

LEMMA FirstAndRest ==
  ASSUME NEW S, NEW s \in Seq(S), s # <<>>
  PROVE  s = <<s[1]>> \o Tail(s) /\ s[1] \in S
<1>1. Len(s) \in Nat \ {0}
  BY EmptySeq
<1>2. 1 \in 1..Len(s) /\ Len(s) \in 1..Len(s)
  BY <1>1
<1>3. SubSeq(s, 1, Len(s)) = <<s[1]>> \o SubSeq(s, 1 + 1, Len(s))
  BY <1>2, SubSeqRecursiveFirst
<1>4. SubSeq(s, 1, Len(s)) = s /\ Tail(s) = SubSeq(s, 2, Len(s))
  BY SubSeqFull, TailIsSubSeq
<1>5. s[1] \in S
  BY <1>2, ElementOfSeq
<1> QED
  BY <1>3, <1>4, <1>5

LEMMA Longer == ~(1 > 1) /\ \A a, b : b \in Nat /\ b > 1 /\ a = (b - 1) + 1 => a > 1
OBVIOUS

(* A name has one label before what follows the pattern's wildcard exactly if  *)
(* it is that label put there.                                                 *)
LEMMA OneLabelIsPrepended ==
  ASSUME NEW h \in Seq(Labels), NEW p \in Seq(Labels), Len(h) > 0, IsPrefix(p)
  PROVE  /\ OneLabel(h, p) => h = <<h[1]>> \o Tail(p) /\ h[1] \in Labels /\ h[1] # ""
         /\ \A l \in Labels \ {""} : h = <<l>> \o Tail(p) => OneLabel(h, p) /\ h[1] = l
<1>1. Len(p) \in Nat /\ Len(p) > 1 /\ p # <<>> /\ h # <<>>
  BY LenProperties, EmptySeq DEF IsPrefix
<1>2. Tail(p) \in Seq(Labels) /\ Len(Tail(p)) = Len(p) - 1
  BY <1>1, HeadTailProperties
<1>3. h = <<h[1]>> \o Tail(h) /\ h[1] \in Labels
  BY <1>1, FirstAndRest
<1>4. OneLabel(h, p) => Tail(h) = Tail(p) /\ h[1] # ""
  BY DEF OneLabel
<1>5. ASSUME NEW l \in Labels \ {""}, h = <<l>> \o Tail(p)
      PROVE  OneLabel(h, p) /\ h[1] = l
  <2>1. h[1] = l /\ Tail(h) = Tail(p) /\ Len(h) = Len(Tail(p)) + 1
    BY <1>2, <1>5, Prepended, Zenon
  <2>2. Len(h) = (Len(p) - 1) + 1
    BY <1>2, <2>1, Zenon
  <2>3. Len(h) > 1
    BY <1>1, <2>2, Longer, Zenon
  <2> QED
    BY <2>1, <2>3, Zenon DEF OneLabel
<1>6. OneLabel(h, p) => h = <<h[1]>> \o Tail(p)
  BY <1>3, <1>4, Zenon
<1> QED
  BY <1>3, <1>4, <1>5, <1>6, Zenon

LEMMA Exact ==
  ASSUME NEW n \in Names, NEW patterns \in SUBSET Names
  PROVE  Allowed(n, patterns) <=> Granted(n, patterns)
<1> DEFINE h == canonical(n)
<1>1. h \in Seq(Labels) /\ Len(h) > 0
  BY CanonicalTyped
<1>2. \A pat \in patterns : canonical(pat) \in Seq(Labels) /\ Len(canonical(pat)) > 0
  BY CanonicalTyped
<1>3. Allowed(n, patterns) <=>
        ~Blank(h) /\ \E pat \in patterns :
            ~Blank(canonical(pat))
            /\ (h = canonical(pat) \/ (~Wild(h) /\ OneLabel(h, canonical(pat))))
  BY DEF Allowed
<1>4. Granted(n, patterns) <=>
        /\ ~Blank(h)
        /\ \E pat \in patterns : h \in Grant(canonical(pat))
        /\ Wild(h) => \E pat \in patterns : canonical(pat) = h
  <2> DEFINE U == UNION {Grant(canonical(p)) : p \in patterns}
  <2>1. h \in U <=> \E pat \in patterns : h \in Grant(canonical(pat))
    OBVIOUS
  <2>2. Granted(n, patterns) <=>
          h \in U \ {<<"">>} /\ (Wild(h) => \E pat \in patterns : canonical(pat) = h)
    BY Zenon DEF Granted
  <2> HIDE DEF U
  <2>3. h \in U \ {<<"">>} <=> h \in U /\ ~Blank(h)
    BY DEF Blank
  <2> QED
    BY <2>1, <2>2, <2>3, Zenon
<1> HIDE DEF h
<1>5. ASSUME Allowed(n, patterns) PROVE Granted(n, patterns)
  <2>1. PICK pat \in patterns :
          h = canonical(pat) \/ (~Wild(h) /\ OneLabel(h, canonical(pat)))
    BY <1>3, <1>5
  <2>2. CASE h = canonical(pat)
    BY <1>3, <1>4, <1>5, <2>2 DEF Grant
  <2>3. CASE ~Wild(h) /\ OneLabel(h, canonical(pat))
    <3>1. IsPrefix(canonical(pat))
      BY <2>3 DEF OneLabel
    <3>2. h = <<h[1]>> \o Tail(canonical(pat)) /\ h[1] \in Labels /\ h[1] # ""
      BY <1>1, <1>2, <2>3, <3>1, OneLabelIsPrepended
    <3>3. h[1] \notin Starred
      BY <1>1, <2>3 DEF Wild
    <3>4. h \in Grant(canonical(pat))
      BY <3>1, <3>2, <3>3 DEF Grant
    <3> QED
      BY <1>3, <1>4, <1>5, <2>3, <3>4
  <2> QED
    BY <2>1, <2>2, <2>3
<1>6. ASSUME Granted(n, patterns) PROVE Allowed(n, patterns)
  <2>1. CASE \E pat \in patterns : canonical(pat) = h
    BY <1>3, <1>4, <1>6, <2>1
  <2>2. CASE ~\E pat \in patterns : canonical(pat) = h
    <3>1. PICK pat \in patterns : h \in Grant(canonical(pat))
      BY <1>4, <1>6
    <3>2. ~Wild(h) /\ IsPrefix(canonical(pat))
          /\ \E l \in Labels \ (Starred \cup {""}) : h = <<l>> \o Tail(canonical(pat))
      BY <1>4, <1>6, <2>2, <3>1 DEF Grant
    <3>3. OneLabel(h, canonical(pat))
      BY <1>1, <1>2, <3>2, OneLabelIsPrepended
    <3>4. ~Blank(canonical(pat))
      <4>1. Len(<<"">>) = 1
        OBVIOUS
      <4>2. Len(canonical(pat)) > 1
        BY <3>2 DEF IsPrefix
      <4> QED
        BY <4>1, <4>2, Longer, Zenon DEF Blank
    <3> QED
      BY <1>3, <1>4, <1>6, <3>2, <3>3, <3>4
  <2> QED
    BY <2>1, <2>2
<1> QED
  BY <1>5, <1>6

--------------------------------------------------------------------------------
(* Types, and what the pass holds in its hands.                                *)

Regs  == Configs \cup {EmptySnap.tc}
Class == [label : BOOLEAN, ctrl : {"us", "other"}, ann : SUBSET Names, accepted : BOOLEAN]
Pub(k) == {Absent} \cup {t \in [Fields[k] -> SUBSET Names] :
                            /\ k = "ingress" => t.rules # {}
                            /\ k = "gateway" => t.listeners # {}}

(* A pass reads the registration and the objects as they are.                  *)
ReadTyped ==
    /\ tc \in Configs
    /\ DOMAIN wrote = Kinds /\ wrote = [k \in Kinds |-> wrote[k]]
    /\ \A k \in Kinds : wrote[k] \in Texts[k]
    /\ snap = [tc |-> snap.tc, wrote |-> snap.wrote, found |-> snap.found]
    /\ snap.tc \in Regs
    /\ DOMAIN snap.wrote = Kinds /\ snap.wrote = [k \in Kinds |-> snap.wrote[k]]
    /\ \A k \in Kinds : snap.wrote[k] \in Texts[k] \cup {Absent}

PubTyped ==
    /\ DOMAIN pub = Kinds /\ pub = [k \in Kinds |-> pub[k]]
    /\ \A k \in Kinds : pub[k] \in Pub(k)

LEMMA RegsTyped ==
  ASSUME NEW r \in Regs
  PROVE  r.domains \in SUBSET Names /\ r.class \in Classes \cup {NoClassName}
<1>1. CASE r \in Configs
  BY <1>1, NameAssumption
<1>2. CASE r = EmptySnap.tc
  BY <1>2 DEF EmptySnap
<1> QED
  BY <1>1, <1>2 DEF Regs

LEMMA TextsTyped ==
  ASSUME NEW k \in Kinds, NEW t \in Texts[k], NEW f \in Fields[k]
  PROVE  t[f] \in SUBSET Names
<1>1. Texts[k] \subseteq [Fields[k] -> SUBSET Names]
  BY NameAssumption
<1>2. t \in [Fields[k] -> SUBSET Names]
  BY <1>1
<1> QED
  BY <1>2

LEMMA KindFields ==
  /\ Kinds = {"ingress", "gateway", "route"}
  /\ Fields["ingress"] = {"rules", "tls"} /\ Fields["gateway"] = {"listeners"}
  /\ Fields["route"] = {"hostnames"}
BY DEF Kinds, Fields

(* What the mapping makes of a listed object: its granted names, field by      *)
(* field, or nothing.                                                          *)
LEMMA WantIsMapped ==
  ASSUME ReadTyped, NEW k \in Kinds, Want(k) # Absent
  PROVE  /\ Want(k) = Mapped(k) /\ snap.wrote[k] \in Texts[k]
         /\ k = "ingress" => Kept(k, "rules") # {}
         /\ k = "gateway" => Kept(k, "listeners") # {}
         /\ k = "route" /\ Kept(k, "hostnames") = {} => snap.wrote[k].hostnames = {}
<1>1. Listed(k)
  BY DEF Want
<1>2. snap.wrote[k] \in Texts[k]
  BY <1>1 DEF ReadTyped, Listed
<1>3. CASE k = "ingress"
  BY <1>1, <1>2, <1>3 DEF Want, mapIngress
<1>4. CASE k = "gateway"
  BY <1>1, <1>2, <1>4 DEF Want, mapGateway
<1>5. CASE k = "route"
  BY <1>1, <1>2, <1>5 DEF Want, mapHTTPRoute
<1> QED
  BY <1>3, <1>4, <1>5 DEF Kinds

LEMMA WantTyped ==
  ASSUME ReadTyped, NEW k \in Kinds
  PROVE  Want(k) \in Pub(k)
<1>1. CASE Want(k) = Absent
  BY <1>1 DEF Pub
<1>2. CASE Want(k) # Absent
  <2>1. Want(k) = Mapped(k) /\ snap.wrote[k] \in Texts[k]
    BY <1>2, WantIsMapped
  <2>2. \A f \in Fields[k] : Kept(k, f) \in SUBSET Names
    BY <2>1, TextsTyped DEF Kept
  <2>3. Mapped(k) \in [Fields[k] -> SUBSET Names] /\ \A f \in Fields[k] : Mapped(k)[f] = Kept(k, f)
    BY <2>2 DEF Mapped
  <2>4. k = "ingress" => Mapped(k).rules # {}
    BY <1>2, <2>3, WantIsMapped, KindFields
  <2>5. k = "gateway" => Mapped(k).listeners # {}
    BY <1>2, <2>3, WantIsMapped, KindFields
  <2> QED
    BY <2>1, <2>3, <2>4, <2>5 DEF Pub
<1> QED
  BY <1>1, <1>2

LEMMA InitRead == Init => ReadTyped /\ PubTyped
<1> SUFFICES ASSUME Init PROVE ReadTyped /\ PubTyped
  OBVIOUS
<1>1. snap = EmptySnap /\ EmptySnap.tc \in Regs
  BY DEF Init, Regs
<1>2. ReadTyped
  BY <1>1 DEF Init, ReadTyped, EmptySnap
<1>3. PubTyped
  BY DEF Init, PubTyped, Pub
<1> QED
  BY <1>2, <1>3

(* The registration and the objects in a pass's hands come from the lists      *)
(* alone; the class in its hands is another matter.                            *)
LEMMA SnapKeepsRead ==
  ASSUME ReadTyped, UNCHANGED <<tc, wrote>>,
         snap' = EmptySnap \/ (\E c : snap' = [snap EXCEPT !.found = c]) \/ snap' = snap
  PROVE  ReadTyped'
<1>1. EmptySnap.tc \in Regs
  BY DEF Regs
<1>2. CASE snap' = EmptySnap
  BY <1>1, <1>2 DEF ReadTyped, EmptySnap
<1>3. CASE (\E c : snap' = [snap EXCEPT !.found = c]) \/ snap' = snap
  <2>1. snap'.tc = snap.tc /\ snap'.wrote = snap.wrote
        /\ snap' = [tc |-> snap'.tc, wrote |-> snap'.wrote, found |-> snap'.found]
    BY <1>3 DEF ReadTyped
  <2> QED
    BY <2>1 DEF ReadTyped
<1> QED
  BY <1>2, <1>3

LEMMA GatherKeepsRead ==
  ASSUME ReadTyped, NEW k \in Kinds, UNCHANGED <<tc, wrote>>,
         snap' = snap \/ snap' = [snap EXCEPT !.wrote[k] = wrote[k]]
  PROVE  ReadTyped'
<1>1. CASE snap' = snap
  BY <1>1 DEF ReadTyped
<1>2. CASE snap' = [snap EXCEPT !.wrote[k] = wrote[k]]
  <2>1. /\ snap' = [tc |-> snap'.tc, wrote |-> snap'.wrote, found |-> snap'.found]
        /\ snap'.tc = snap.tc /\ snap'.wrote = [snap.wrote EXCEPT ![k] = wrote[k]]
    BY <1>2 DEF ReadTyped
  <2>2. /\ DOMAIN snap'.wrote = Kinds /\ snap'.wrote = [j \in Kinds |-> snap'.wrote[j]]
        /\ \A j \in Kinds : snap'.wrote[j] \in Texts[j] \cup {Absent}
    BY <2>1 DEF ReadTyped
  <2> QED
    BY <2>1, <2>2 DEF ReadTyped
<1> QED
  BY <1>1, <1>2

LEMMA NextRead == ReadTyped /\ [Next]_vars => ReadTyped'
<1> SUFFICES ASSUME ReadTyped, [Next]_vars PROVE ReadTyped'
  OBVIOUS
<1>1. CASE BeginPass
  <2>1. snap' = [tc |-> tc, wrote |-> EmptySnap.wrote, found |-> NoClass]
    BY <1>1 DEF BeginPass, EmptySnap
  <2>2. snap'.tc \in Regs /\ UNCHANGED <<tc, wrote>>
    BY <1>1, <2>1 DEF BeginPass, ReadTyped, Regs
  <2> QED
    BY <2>1, <2>2 DEF ReadTyped, EmptySnap
<1>2. CASE gatherIngresses \/ gatherGateways \/ gatherRoutes
  BY <1>2, GatherKeepsRead DEF gatherIngresses, gatherGateways, gatherRoutes, Gather, Kinds
<1>3. CASE GetClass
  BY <1>3, SnapKeepsRead DEF GetClass
<1>4. CASE CreateClass
  BY <1>4, SnapKeepsRead DEF CreateClass, Hold
<1>5. CASE RecreateClass
  BY <1>5, SnapKeepsRead DEF RecreateClass, Hold
<1>6. CASE UpdateClass
  BY <1>6, SnapKeepsRead DEF UpdateClass, Hold
<1>7. CASE EndPass \/ Abort
  BY <1>7, SnapKeepsRead DEF EndPass, Abort, EndOfPass
<1>8. CASE UNCHANGED <<tc, wrote, snap>>
  BY <1>8, SnapKeepsRead
<1>9. CASE Reconfigure
  BY <1>9 DEF Reconfigure, ReadTyped, run
<1>10. ASSUME NEW k \in Kinds, Rewrite(k) PROVE ReadTyped'
  BY <1>10 DEF Rewrite, ReadTyped
<1>11. ASSUME ListClasses \/ (\E c \in Classes : DeleteClass(c)) \/ ReplaceClass \/ AcceptClass
              \/ SkipApply \/ Prune \/ WriteRefusals
              \/ (\E k \in Kinds : ApplyObject(k) \/ PruneObject(k) \/ WriteRefusal(k))
              \/ (\E c \in Classes : Tamper(c)) \/ UNCHANGED vars
       PROVE  UNCHANGED <<tc, wrote, snap>>
  BY <1>11 DEF ListClasses, DeleteClass, ReplaceClass, AcceptClass, SkipApply, Prune, WriteRefusals,
               ApplyObject, PruneObject, WriteRefusal, Tamper, vars, run
<1> QED
  BY <1>1, <1>2, <1>3, <1>4, <1>5, <1>6, <1>7, <1>8, <1>9, <1>10, <1>11 DEF Next, Pass, Tenant

LEMMA AlwaysRead == Spec => []ReadTyped
<1>1. Init => ReadTyped
  BY InitRead
<1> QED
  BY <1>1, NextRead, PTL DEF Spec

(* Of every name there is, a pass allows exactly those that the registration   *)
(* it reads grants.                                                            *)
THEOREM AuthorityExactHolds == Spec => AuthorityExact
<1>1. ReadTyped /\ [Next]_vars =>
        (pc = "idle" /\ pc' # "idle" =>
          \A h \in Names : Allowed(h, snap'.tc.domains) <=> Granted(h, snap'.tc.domains))
  <2> SUFFICES ASSUME ReadTyped, [Next]_vars, NEW h \in Names
               PROVE  Allowed(h, snap'.tc.domains) <=> Granted(h, snap'.tc.domains)
    OBVIOUS
  <2>1. snap'.tc.domains \in SUBSET Names
    BY NextRead, RegsTyped DEF ReadTyped
  <2> QED
    BY <2>1, Exact
<1> QED
  BY <1>1, AlwaysRead, PTL DEF Spec, AuthorityExact

(* Only applying and pruning write to the host.                                *)
LEMMA HostSteps ==
  ASSUME [Next]_vars
  PROVE  pub' = pub \/ \E k \in Kinds : \E v \in {Want(k), Absent} : pub' = [pub EXCEPT ![k] = v]
<1>1. ASSUME NEW k \in Kinds, ApplyObject(k) \/ PruneObject(k)
      PROVE  pub' = pub \/ \E v \in {Want(k), Absent} : pub' = [pub EXCEPT ![k] = v]
  BY <1>1 DEF ApplyObject, Applied, PruneObject
<1>2. BeginPass \/ gatherIngresses \/ gatherGateways \/ gatherRoutes \/ ListClasses
      \/ (\E c \in Classes : DeleteClass(c)) \/ GetClass \/ CreateClass \/ ReplaceClass
      \/ RecreateClass \/ UpdateClass \/ AcceptClass => pub' = pub
  BY DEF BeginPass, gatherIngresses, gatherGateways, gatherRoutes, Gather, ListClasses,
         DeleteClass, GetClass, CreateClass, ReplaceClass, RecreateClass, UpdateClass, AcceptClass
<1>3. SkipApply \/ Prune \/ WriteRefusals \/ EndPass \/ Abort \/ Reconfigure \/ Tenant
      \/ (\E j \in Kinds : WriteRefusal(j)) \/ UNCHANGED vars => pub' = pub
  BY DEF SkipApply, Prune, WriteRefusals, EndPass, Abort, Reconfigure, Tenant, Rewrite, Tamper,
         WriteRefusal, vars
<1> QED
  BY <1>1, <1>2, <1>3 DEF Next, Pass

LEMMA NextPub == ReadTyped /\ PubTyped /\ [Next]_vars => PubTyped'
<1> SUFFICES ASSUME ReadTyped, PubTyped, [Next]_vars PROVE PubTyped'
  OBVIOUS
<1>1. \A k \in Kinds : Want(k) \in Pub(k) /\ Absent \in Pub(k)
  BY WantTyped DEF Pub
<1> QED
  BY <1>1, HostSteps DEF PubTyped

LEMMA AlwaysPub == Spec => []PubTyped
<1>1. Init => PubTyped
  BY InitRead
<1> QED
  BY <1>1, NextPub, AlwaysRead, PTL DEF Spec

(* A host object is written with names the tenant wrote and the registration   *)
(* grants, and a route is left to inherit its listeners' names only if that is *)
(* what the tenant wrote.                                                      *)
THEOREM PublishedAsWrittenHolds == Spec => PublishedAsWritten
<1>1. ASSUME ReadTyped, PubTyped, [Next]_vars, NEW k \in Kinds,
             pub'[k] # pub[k], pub'[k] # Absent
      PROVE  pub'[k] = Want(k)
  BY <1>1, HostSteps DEF PubTyped
<1>2. ASSUME ReadTyped, NEW k \in Kinds, Want(k) # Absent, NEW f \in Fields[k]
      PROVE  /\ Want(k)[f] \subseteq {n \in snap.wrote[k][f] : Granted(n, snap.tc.domains)}
             /\ k = "route" /\ Want(k)[f] = {} => snap.wrote[k][f] = {}
  <2>1. Want(k)[f] = Kept(k, f) /\ snap.wrote[k][f] \in SUBSET Names
    BY <1>2, WantIsMapped, TextsTyped DEF Mapped
  <2>2. snap.tc.domains \in SUBSET Names
    BY <1>2, RegsTyped DEF ReadTyped
  <2>3. \A n \in Kept(k, f) : n \in snap.wrote[k][f] /\ Granted(n, snap.tc.domains)
    BY <2>1, <2>2, Exact DEF Kept
  <2>4. k = "route" /\ Want(k)[f] = {} => snap.wrote[k][f] = {}
    BY <1>2, <2>1, WantIsMapped, KindFields
  <2> QED
    BY <2>1, <2>3, <2>4
<1>3. ReadTyped /\ PubTyped /\ [Next]_vars =>
        \A k \in Kinds : pub'[k] # pub[k] /\ pub'[k] # Absent =>
          \A f \in Fields[k] :
             /\ pub'[k][f] \subseteq {n \in snap.wrote[k][f] : Granted(n, snap.tc.domains)}
             /\ k = "route" /\ pub'[k][f] = {} => snap.wrote[k][f] = {}
  BY <1>1, <1>2
<1> QED
  BY <1>3, AlwaysRead, AlwaysPub, PTL DEF Spec, PublishedAsWritten

--------------------------------------------------------------------------------
(* The rest of the state.  The class in the pass's hands is the one on the     *)
(* server as long as the tenant has not touched it.                            *)
ClassTyped ==
    /\ DOMAIN gclass = Classes /\ gclass = [c \in Classes |-> gclass[c]]
    /\ \A c \in Classes : gclass[c] \in Class \cup {NoClass}
    /\ snap.found \in Class \cup {NoClass}
    /\ pc \in {"classWrite", "classRecreate", "classAccept"} => Wanted(snap.tc) \in Classes
    /\ pc = "classAccept" => snap.found \in Class
    /\ pc \in {"classWrite", "classAccept"} /\ Wanted(snap.tc) \notin stale
          => gclass[Wanted(snap.tc)] = snap.found

RestTyped ==
    /\ DOMAIN told = Kinds /\ told = [k \in Kinds |-> told[k]]
    /\ \A k \in Kinds : told[k] \in SUBSET Names
    /\ pc \in PCs
    /\ left \subseteq Kinds \cup Classes /\ stale \subseteq Kinds \cup Classes
    /\ pc = "refusals" => \A k \in left \cap Kinds : Listed(k)
    /\ edits \in 0..MaxEdits /\ faults \in 0..MaxFaults

LEMMA Bounds == MaxEdits \in Nat /\ MaxFaults \in Nat
BY NameAssumption

LEMMA FaultTyped ==
  ASSUME NEW failed, Fault(failed), faults \in 0..MaxFaults
  PROVE  faults' \in 0..MaxFaults
BY Bounds DEF Fault

LEMMA RefusalsTyped ==
  ASSUME ReadTyped, NEW k \in Kinds, Listed(k)
  PROVE  Refusals(k) \in SUBSET Names
<1>1. \A f \in Fields[k] : Dropped(k, f) \in SUBSET Names
  BY TextsTyped DEF ReadTyped, Listed, Dropped
<1> QED
  BY <1>1, KindFields DEF Refusals

Typed == ReadTyped /\ PubTyped /\ ClassTyped /\ RestTyped

LEMMA MirrorTyped ==
  ASSUME ReadTyped
  PROVE  /\ Mirror(snap.tc.domains) \in Class
         /\ \A c \in Class : [c EXCEPT !.label = TRUE, !.ann = snap.tc.domains] \in Class
         /\ \A c \in Class : [c EXCEPT !.accepted = TRUE] \in Class
         /\ Wanted(snap.tc) \in Classes \cup {NoClassName}
<1>1. snap.tc.domains \in SUBSET Names /\ snap.tc.class \in Classes \cup {NoClassName}
  BY RegsTyped DEF ReadTyped
<1> QED
  BY <1>1 DEF Mirror, Class, Wanted

LEMMA FoundKinds ==
  ASSUME ClassTyped
  PROVE  /\ NoClass.ctrl = "none" /\ NoClass \notin Class
         /\ snap.found.ctrl \in {"us", "other"} => snap.found \in Class
BY DEF ClassTyped, Class, NoClass

(* Gathering, and the class.                                                   *)
LEMMA GatherTyped ==
  ASSUME Typed, BeginPass \/ gatherIngresses \/ gatherGateways \/ gatherRoutes
  PROVE  ClassTyped' /\ RestTyped'
<1> USE DEF Typed
<1>1. CASE BeginPass
  BY <1>1 DEF BeginPass, ClassTyped, RestTyped, EmptySnap, PCs
<1>2. ASSUME NEW k \in Kinds, NEW sync, NEW from, NEW to \in {"gateways", "routes", "classes"},
             Gather(k, sync, from, to)
      PROVE  ClassTyped' /\ RestTyped'
  <2>1. snap'.found = snap.found
    BY <1>2 DEF Gather, ReadTyped
  <2> QED
    BY <1>2, <2>1 DEF Gather, ClassTyped, RestTyped, PCs
<1> QED
  BY <1>1, <1>2 DEF gatherIngresses, gatherGateways, gatherRoutes, Kinds

LEMMA DoneTyped ==
  ASSUME NEW to \in PCs, Done(to)
  PROVE  pc' = to /\ left' \subseteq Kinds \cup Classes
BY DEF Done

(* A step on the class that leaves it, or puts a typed one in the pass's hands *)
(* and on the server.                                                          *)
LEMMA LeavesClass ==
  ASSUME Typed, UNCHANGED <<gclass, snap, stale>>,
         NEW to \in {"apply", "classDelete", "classAccept"}, pc' = to,
         to = "classAccept" => pc = "classWrite" /\ snap.found \in Class
  PROVE  ClassTyped'
BY DEF Typed, ClassTyped

LEMMA HoldsClass ==
  ASSUME Typed, NEW c \in Class, Hold(Wanted(snap.tc), c), pc' = "classAccept",
         pc \in {"classWrite", "classRecreate"}
  PROVE  ClassTyped' /\ stale' \subseteq Kinds \cup Classes
<1>1. Wanted(snap.tc) \in Classes
  BY DEF Typed, ClassTyped
<1>2. snap'.found = c /\ snap'.tc = snap.tc
  BY DEF Hold, Typed, ReadTyped
<1>3. Wanted(snap'.tc) = Wanted(snap.tc)
  BY <1>2 DEF Wanted
<1> QED
  BY <1>1, <1>2, <1>3 DEF Typed, ClassTyped, RestTyped, Hold

LEMMA ClassStepTyped ==
  ASSUME Typed, \/ ListClasses \/ (\E c \in Classes : DeleteClass(c)) \/ GetClass
                \/ CreateClass \/ ReplaceClass \/ RecreateClass \/ UpdateClass \/ AcceptClass
  PROVE  ClassTyped' /\ RestTyped'
<1> DEFINE w == Wanted(snap.tc)
<1> USE DEF Typed
<1>0. ASSUME NEW to \in PCs, pc' = to, to # "refusals", left' \subseteq Kinds \cup Classes,
             stale' \subseteq Kinds \cup Classes, UNCHANGED <<told, edits>>,
             faults' \in 0..MaxFaults
      PROVE  RestTyped'
  BY <1>0 DEF RestTyped
<1>1. CASE ListClasses
  <2>1. PICK failed \in BOOLEAN :
          /\ Fault(failed)
          /\ IF failed THEN Done("apply")
             ELSE pc' = "classDelete" /\ left' = Withdrawn({c \in Classes : gclass[c].label})
    BY <1>1 DEF ListClasses
  <2>2. faults' \in 0..MaxFaults /\ UNCHANGED <<gclass, snap, stale, told, edits>>
    BY <1>1, <2>1, FaultTyped DEF ListClasses, RestTyped
  <2>3. pc' \in {"apply", "classDelete"} /\ left' \subseteq Kinds \cup Classes
    BY <2>1, DoneTyped DEF Withdrawn, PCs
  <2>4. ClassTyped'
    BY <2>2, <2>3, LeavesClass
  <2> QED
    BY <1>0, <2>2, <2>3, <2>4 DEF RestTyped, PCs
<1>2. CASE \E c \in Classes : DeleteClass(c)
  <2>1. PICK c \in Classes : DeleteClass(c)
    BY <1>2
  <2>2. faults' \in 0..MaxFaults
    BY <2>1, FaultTyped DEF DeleteClass, RestTyped
  <2>3. ClassTyped'
    BY <2>1 DEF DeleteClass, ClassTyped
  <2>4. RestTyped'
    BY <2>1, <2>2 DEF DeleteClass, RestTyped
  <2> QED
    BY <2>3, <2>4
<1>3. CASE GetClass
  <2>1. CASE w = NoClassName
    <3>1. Done("apply") /\ UNCHANGED <<gclass, snap, stale, faults, told, edits>>
      BY <1>3, <2>1 DEF GetClass
    <3>2. pc' = "apply" /\ left' \subseteq Kinds \cup Classes
      BY <3>1, DoneTyped DEF PCs
    <3> QED
      BY <1>0, <3>1, <3>2, LeavesClass DEF RestTyped, PCs
  <2>2. CASE w # NoClassName
    <3>1. PICK failed \in BOOLEAN :
            /\ Fault(failed)
            /\ IF failed THEN Done("apply") /\ UNCHANGED <<snap, stale>>
               ELSE /\ Done("classWrite")
                    /\ snap' = [snap EXCEPT !.found = gclass[w]]
                    /\ stale' = stale \ {w}
      BY <1>3, <2>2 DEF GetClass
    <3>2. faults' \in 0..MaxFaults /\ UNCHANGED <<gclass, told, edits>>
      BY <1>3, <3>1, FaultTyped DEF GetClass, RestTyped
    <3>3. w \in Classes
      BY <2>2, MirrorTyped
    <3>4. CASE failed
      <4>1. pc' = "apply" /\ left' \subseteq Kinds \cup Classes
        BY <3>1, <3>4, DoneTyped DEF PCs
      <4> QED
        BY <1>0, <3>1, <3>2, <3>4, <4>1, LeavesClass DEF RestTyped, PCs
    <3>5. CASE ~failed
      <4>1. pc' = "classWrite" /\ left' \subseteq Kinds \cup Classes
        BY <3>1, <3>5, DoneTyped DEF PCs
      <4>2. snap'.tc = snap.tc /\ snap'.found = gclass[w] /\ stale' \subseteq stale
        BY <3>1, <3>5 DEF ReadTyped
      <4>3. Wanted(snap'.tc) = w
        BY <4>2 DEF Wanted
      <4>4. ClassTyped'
        BY <3>2, <3>3, <4>1, <4>2, <4>3 DEF ClassTyped
      <4> QED
        BY <1>0, <3>2, <4>1, <4>2, <4>4 DEF RestTyped, PCs
    <3> QED
      BY <3>4, <3>5
  <2> QED
    BY <2>1, <2>2
<1>4. CASE CreateClass
  <2> DEFINE m == Mirror(snap.tc.domains)
  <2>1. PICK failed \in BOOLEAN :
          /\ Fault(failed)
          /\ IF failed THEN Done("apply") /\ UNCHANGED <<gclass, snap, stale>>
             ELSE /\ Done("classAccept")
                  /\ IF gclass[w] = NoClass THEN Hold(w, m)
                     ELSE /\ snap' = [snap EXCEPT !.found = m]
                          /\ stale' = stale \cup {w} /\ UNCHANGED gclass
    BY <1>4 DEF CreateClass
  <2>2. /\ faults' \in 0..MaxFaults /\ UNCHANGED <<told, edits>> /\ pc = "classWrite"
        /\ w \in Classes /\ m \in Class
    BY <1>4, <2>1, FaultTyped, MirrorTyped DEF CreateClass, RestTyped, ClassTyped
  <2>3. CASE failed
    <3>1. pc' = "apply" /\ left' \subseteq Kinds \cup Classes
      BY <2>1, <2>3, DoneTyped DEF PCs
    <3> QED
      BY <1>0, <2>1, <2>2, <2>3, <3>1, LeavesClass DEF RestTyped, PCs
  <2>4. CASE ~failed
    <3>1. pc' = "classAccept" /\ left' \subseteq Kinds \cup Classes
      BY <2>1, <2>4, DoneTyped DEF PCs
    <3>2. CASE gclass[w] = NoClass
      BY <1>0, <2>1, <2>2, <2>4, <3>1, <3>2, HoldsClass DEF PCs
    <3>3. CASE gclass[w] # NoClass
      <4>1. /\ snap' = [snap EXCEPT !.found = m] /\ stale' = stale \cup {w} /\ UNCHANGED gclass
        BY <2>1, <2>4, <3>3
      <4>2. snap'.tc = snap.tc /\ snap'.found = m
        BY <4>1 DEF ReadTyped
      <4>3. Wanted(snap'.tc) = w
        BY <4>2 DEF Wanted
      <4>4. ClassTyped'
        BY <2>2, <3>1, <4>1, <4>2, <4>3 DEF ClassTyped
      <4> QED
        BY <1>0, <2>2, <3>1, <4>1, <4>4 DEF RestTyped, PCs
    <3> QED
      BY <3>2, <3>3
  <2> QED
    BY <2>3, <2>4
<1>5. CASE ReplaceClass
  <2>1. PICK failed \in BOOLEAN :
          /\ Fault(failed)
          /\ IF failed THEN Done("apply") /\ UNCHANGED gclass
             ELSE Done("classRecreate") /\ gclass' = [gclass EXCEPT ![w] = NoClass]
    BY <1>5 DEF ReplaceClass
  <2>2. faults' \in 0..MaxFaults /\ UNCHANGED <<told, edits, snap, stale>> /\ pc = "classWrite"
    BY <1>5, <2>1, FaultTyped DEF ReplaceClass, RestTyped
  <2>3. pc' = (IF failed THEN "apply" ELSE "classRecreate") /\ left' \subseteq Kinds \cup Classes
    BY <2>1, DoneTyped DEF PCs
  <2>4. ClassTyped'
    BY <2>1, <2>2, <2>3 DEF ClassTyped
  <2> QED
    BY <1>0, <2>2, <2>3, <2>4 DEF RestTyped, PCs
<1>6. CASE RecreateClass
  <2>1. PICK failed \in BOOLEAN :
          /\ Fault(failed)
          /\ IF failed \/ gclass[w] # NoClass
             THEN Done("apply") /\ UNCHANGED <<gclass, snap, stale>>
             ELSE Done("classAccept") /\ Hold(w, Mirror(snap.tc.domains))
    BY <1>6 DEF RecreateClass
  <2>2. faults' \in 0..MaxFaults /\ UNCHANGED <<told, edits>> /\ pc = "classRecreate"
    BY <1>6, <2>1, FaultTyped DEF RecreateClass, RestTyped
  <2>3. CASE failed \/ gclass[w] # NoClass
    <3>1. pc' = "apply" /\ left' \subseteq Kinds \cup Classes
      BY <2>1, <2>3, DoneTyped DEF PCs
    <3> QED
      BY <1>0, <2>1, <2>2, <2>3, <3>1, LeavesClass DEF RestTyped, PCs
  <2>4. CASE ~(failed \/ gclass[w] # NoClass)
    <3>1. pc' = "classAccept" /\ left' \subseteq Kinds \cup Classes
      BY <2>1, <2>4, DoneTyped DEF PCs
    <3> QED
      BY <1>0, <2>1, <2>2, <2>4, <3>1, HoldsClass, MirrorTyped DEF PCs
  <2> QED
    BY <2>3, <2>4
<1>7. CASE UpdateClass
  <2>1. pc = "classWrite" /\ snap.found \in Class /\ UNCHANGED <<told, edits>>
    BY <1>7, FoundKinds DEF UpdateClass
  <2>2. CASE ~Drifted(snap.found)
    <3>1. Done("classAccept") /\ UNCHANGED <<gclass, snap, stale, faults>>
      BY <1>7, <2>2 DEF UpdateClass
    <3>2. pc' = "classAccept" /\ left' \subseteq Kinds \cup Classes
      BY <3>1, DoneTyped DEF PCs
    <3> QED
      BY <1>0, <2>1, <3>1, <3>2, LeavesClass DEF RestTyped, PCs
  <2>3. CASE Drifted(snap.found)
    <3> DEFINE u == [snap.found EXCEPT !.label = TRUE, !.ann = snap.tc.domains]
    <3>1. PICK failed \in BOOLEAN :
            /\ Fault(failed)
            /\ IF failed \/ w \in stale
               THEN Done("apply") /\ UNCHANGED <<gclass, snap, stale>>
               ELSE Done("classAccept") /\ Hold(w, u)
      BY <1>7, <2>3 DEF UpdateClass
    <3>2. faults' \in 0..MaxFaults /\ u \in Class
      BY <2>1, <3>1, FaultTyped, MirrorTyped DEF RestTyped
    <3>3. CASE failed \/ w \in stale
      <4>1. pc' = "apply" /\ left' \subseteq Kinds \cup Classes
        BY <3>1, <3>3, DoneTyped DEF PCs
      <4> QED
        BY <1>0, <2>1, <3>1, <3>2, <3>3, <4>1, LeavesClass DEF RestTyped, PCs
    <3>4. CASE ~(failed \/ w \in stale)
      <4> HIDE DEF u
      <4>1. pc' = "classAccept" /\ left' \subseteq Kinds \cup Classes
        BY <3>1, <3>4, DoneTyped DEF PCs
      <4> QED
        BY <1>0, <2>1, <3>1, <3>2, <3>4, <4>1, HoldsClass DEF PCs
    <3> QED
      BY <3>3, <3>4
  <2> QED
    BY <2>2, <2>3
<1>8. CASE AcceptClass
  <2>1. /\ pc = "classAccept" /\ snap.found \in Class /\ w \in Classes /\ Done("apply")
        /\ UNCHANGED <<told, edits, snap, stale>>
    BY <1>8 DEF AcceptClass, ClassTyped
  <2>2. pc' = "apply" /\ left' \subseteq Kinds \cup Classes
    BY <2>1, DoneTyped DEF PCs
  <2>3. faults' \in 0..MaxFaults
    BY <1>8, FaultTyped DEF AcceptClass, RestTyped
  <2>4. gclass' = gclass \/ (w \notin stale /\ gclass' = [gclass EXCEPT ![w].accepted = TRUE])
    BY <1>8 DEF AcceptClass
  <2>5. w \notin stale => [gclass[w] EXCEPT !.accepted = TRUE] \in Class
    BY <2>1, MirrorTyped DEF ClassTyped
  <2>6. ClassTyped'
    BY <2>1, <2>2, <2>4, <2>5 DEF ClassTyped
  <2> QED
    BY <1>0, <2>1, <2>2, <2>3, <2>6 DEF RestTyped, PCs
<1> QED
  BY <1>1, <1>2, <1>3, <1>4, <1>5, <1>6, <1>7, <1>8

(* Applying, pruning, telling, and the others.                                 *)
LEMMA ApplyTyped ==
  ASSUME Typed, \/ SkipApply \/ Prune \/ WriteRefusals \/ EndPass \/ Abort
                \/ \E k \in Kinds : ApplyObject(k) \/ PruneObject(k) \/ WriteRefusal(k)
  PROVE  ClassTyped' /\ RestTyped'
<1> USE DEF Typed, ClassTyped, RestTyped
<1>1. CASE SkipApply
  <2>1. faults' \in 0..MaxFaults
    BY <1>1, FaultTyped DEF SkipApply
  <2> QED
    BY <1>1, <2>1 DEF SkipApply
<1>2. CASE Prune
  BY <1>2 DEF Prune, PCs
<1>3. CASE WriteRefusals
  BY <1>3 DEF WriteRefusals, PCs, Listed
<1>4. CASE EndPass
  BY <1>4 DEF EndPass, EndOfPass, EmptySnap, PCs
<1>5. CASE Abort
  <2>1. faults' \in 0..MaxFaults
    BY <1>5, FaultTyped DEF Abort
  <2> QED
    BY <1>5, <2>1 DEF Abort, EndOfPass, EmptySnap, PCs
<1>6. ASSUME NEW k \in Kinds, ApplyObject(k) \/ PruneObject(k) PROVE ClassTyped' /\ RestTyped'
  <2>1. faults' \in 0..MaxFaults
    BY <1>6, FaultTyped DEF ApplyObject, PruneObject
  <2> QED
    BY <1>6, <2>1 DEF ApplyObject, PruneObject
<1>7. ASSUME NEW k \in Kinds, WriteRefusal(k) PROVE ClassTyped' /\ RestTyped'
  <2>1. faults' \in 0..MaxFaults
    BY <1>7, FaultTyped DEF WriteRefusal
  <2>2. Refusals(k) \in SUBSET Names
    BY <1>7, RefusalsTyped DEF WriteRefusal
  <2>3. told' = told \/ told' = [told EXCEPT ![k] = Refusals(k)]
    BY <1>7 DEF WriteRefusal
  <2>4. /\ DOMAIN told' = Kinds /\ told' = [j \in Kinds |-> told'[j]]
        /\ \A j \in Kinds : told'[j] \in SUBSET Names
    BY <2>2, <2>3
  <2>5. ClassTyped'
    BY <1>7 DEF WriteRefusal
  <2>6. left' \subseteq left /\ UNCHANGED <<pc, snap, stale, edits>>
    BY <1>7 DEF WriteRefusal
  <2>7. RestTyped'
    BY <2>1, <2>4, <2>6 DEF Listed
  <2> QED
    BY <2>5, <2>7
<1> QED
  BY <1>1, <1>2, <1>3, <1>4, <1>5, <1>6, <1>7

LEMMA OthersTyped ==
  ASSUME Typed, Reconfigure \/ Tenant \/ UNCHANGED vars
  PROVE  ClassTyped' /\ RestTyped'
<1> USE Bounds DEF Typed, ClassTyped, RestTyped
<1>1. CASE Reconfigure
  BY <1>1 DEF Reconfigure, Edit, run, Listed
<1>2. ASSUME NEW k \in Kinds, Rewrite(k) PROVE ClassTyped' /\ RestTyped'
  BY <1>2 DEF Rewrite, Edit, Listed
<1>3. ASSUME NEW c \in Classes, Tamper(c) PROVE ClassTyped' /\ RestTyped'
  <2>1. Tampered(gclass[c]) \subseteq Class \cup {NoClass}
    <3> DEFINE g == gclass[c]
    <3>1. g \in Class \cup {NoClass}
      OBVIOUS
    <3>2. [NoClass EXCEPT !.ctrl = "other"] \in Class
      BY DEF Class, NoClass
    <3>3. g \in Class => [g EXCEPT !.label = FALSE] \in Class /\ [g EXCEPT !.ann = {}] \in Class
      BY DEF Class
    <3> HIDE DEF g
    <3>4. Tampered(g) \subseteq Class \cup {NoClass}
      BY <3>1, <3>2, <3>3 DEF Tampered
    <3> QED
      BY <3>4 DEF g
  <2>2. PICK d \in Class \cup {NoClass} : gclass' = [gclass EXCEPT ![c] = d]
    BY <1>3, <2>1 DEF Tamper
  <2>3. ClassTyped'
    BY <1>3, <2>2 DEF Tamper
  <2>4. RestTyped'
    BY <1>3 DEF Tamper, Edit, Listed
  <2> QED
    BY <2>3, <2>4
<1>4. CASE UNCHANGED vars
  BY <1>4 DEF vars, run, Listed
<1> QED
  BY <1>1, <1>2, <1>3, <1>4 DEF Tenant

(* Every state is typed; in particular no Ingress without a rule and no        *)
(* Gateway without a listener is ever published.                               *)
THEOREM TypeCorrect == Spec => []TypeOK
<1>1. Init => Typed
  <2> SUFFICES ASSUME Init PROVE ClassTyped /\ RestTyped
    BY InitRead DEF Typed
  <2>1. ClassTyped
    BY DEF Init, ClassTyped, EmptySnap
  <2>2. RestTyped
    BY Bounds DEF Init, RestTyped, PCs
  <2> QED
    BY <2>1, <2>2
<1>2. Typed /\ [Next]_vars => Typed'
  <2> SUFFICES ASSUME Typed, [Next]_vars PROVE ClassTyped' /\ RestTyped'
    BY NextRead, NextPub DEF Typed
  <2> QED
    BY GatherTyped, ClassStepTyped, ApplyTyped, OthersTyped DEF Next, Pass
<1>3. Typed => TypeOK
  <2> SUFFICES ASSUME Typed PROVE TypeOK
    OBVIOUS
  <2>1. \A k \in Kinds :
           /\ pub[k] # Absent => pub[k] \in [Fields[k] -> SUBSET Names]
           /\ k = "ingress" /\ pub[k] # Absent => pub[k].rules # {}
           /\ k = "gateway" /\ pub[k] # Absent => pub[k].listeners # {}
    BY DEF Typed, PubTyped, Pub
  <2>2. "ingress" \in Kinds /\ "gateway" \in Kinds
    BY DEF Kinds
  <2> QED
    BY <2>1, <2>2 DEF Typed, ReadTyped, ClassTyped, RestTyped, TypeOK, Class
<1> QED
  BY <1>1, <1>2, <1>3, PTL DEF Spec
================================================================================
