---------------------------- MODULE GadgetProofs ----------------------------
(***************************************************************************)
(* Proofs about Gadget, for any number of faults and exits.                *)
(*                                                                         *)
(* What a phase has reached is the number k of its calls that are over.    *)
(* IInv says what the first k calls of create have made, what the first k  *)
(* calls of destroy on a gadget still bound must have missed, and what     *)
(* main's second look can therefore find.                                  *)
(***************************************************************************)
EXTENDS Gadget, SequenceTheorems, TLAPS

-----------------------------------------------------------------------------
(* The calls, one by one.                                                  *)

Ops   == {"clearUdc", "mkdir", "write", "link", "bind", "unlink", "rmdir"}
Calls == [op : Ops, on : Attributes]

\* A call on what it is meant for.
Legal(c) ==
  /\ c \in Calls
  /\ c.op \in {"link", "unlink"} => c.on \in Functions
  /\ c.op \in {"mkdir", "rmdir"} => c.on \in Dirs

LEMMA CallIs ==
  ASSUME NEW op, NEW on
  PROVE  Call(op, on).op = op /\ Call(op, on).on = on
BY DEF Call

\* The elements of a concatenation, counted from the front of each part.
Joined(s, t) == s \o t

LEMMA JoinedElements ==
  ASSUME NEW s \in Seq(Calls), NEW t \in Seq(Calls)
  PROVE  /\ Joined(s, t) \in Seq(Calls)
         /\ Len(Joined(s, t)) = Len(s) + Len(t)
         /\ \A j \in 1..Len(s) : Joined(s, t)[j] = s[j]
         /\ \A j \in 1..Len(t) : Joined(s, t)[Len(s) + j] = t[j]
<1>1. /\ Joined(s, t) \in Seq(Calls)
      /\ Len(Joined(s, t)) = Len(s) + Len(t)
      /\ \A i \in 1..(Len(s) + Len(t)) :
           Joined(s, t)[i] = IF i <= Len(s) THEN s[i] ELSE t[i - Len(s)]
  BY ConcatProperties DEF Joined
<1>2. Len(s) \in Nat /\ Len(t) \in Nat  OBVIOUS
<1>3. \A j \in 1..Len(s) : j \in 1..(Len(s) + Len(t)) /\ j <= Len(s)
  BY <1>2
<1>4. \A j \in 1..Len(t) : /\ Len(s) + j \in 1..(Len(s) + Len(t))
                           /\ ~(Len(s) + j <= Len(s))
                           /\ (Len(s) + j) - Len(s) = j
  BY <1>2
<1>5. \A j \in 1..Len(s) : Joined(s, t)[j] = s[j]  BY <1>1, <1>3
<1>6. \A j \in 1..Len(t) : Joined(s, t)[Len(s) + j] = t[j]  BY <1>1, <1>4
<1> QED  BY <1>1, <1>5, <1>6

LEMMA TeardownCalls ==
  /\ Teardown \in Seq(Calls) /\ Len(Teardown) = 8
  /\ \A j \in 1..8 : /\ Legal(Teardown[j])
                     /\ Teardown[j].op \in {"clearUdc", "unlink", "rmdir"}
  /\ Teardown[2] = Call("unlink", "hid") /\ Teardown[3] = Call("unlink", "uac")
<1>1. \A op \in Ops, on \in Attributes : Call(op, on) \in Calls
  BY DEF Call, Calls
<1>2. Teardown \in Seq(Calls) /\ Len(Teardown) = 8
  BY <1>1 DEF Teardown, Ops, Attributes, Dirs, Functions
<1>3. /\ Teardown[1] = Call("clearUdc", "root")
      /\ Teardown[2] = Call("unlink", "hid")
      /\ Teardown[3] = Call("unlink", "uac")
      /\ Teardown[4] = Call("rmdir", "hid")
      /\ Teardown[5] = Call("rmdir", "uac")
      /\ Teardown[6] = Call("rmdir", "config")
      /\ Teardown[7] = Call("rmdir", "strings")
      /\ Teardown[8] = Call("rmdir", "root")
  BY DEF Teardown
<1>4. \A j \in 1..8 : /\ Legal(Teardown[j])
                      /\ Teardown[j].op \in {"clearUdc", "unlink", "rmdir"}
  <2> TAKE j \in 1..8
  <2>1. j \in {1, 2, 3, 4, 5, 6, 7, 8}  OBVIOUS
  <2>2. Teardown[j] \in Calls  BY <1>2, ElementOfSeq
  <2> QED
    BY <1>3, <2>1, <2>2, CallIs DEF Legal, Dirs, Functions
<1> QED  BY <1>2, <1>3, <1>4

LEMMA ConstructionCalls ==
  /\ Construction \in Seq(Calls) /\ Len(Construction) = 14
  /\ \A j \in 1..14 : /\ Legal(Construction[j])
                      /\ Construction[j].op
                           \in {"mkdir", "write", "link", "bind"}
                      /\ Construction[j].op = "bind" <=> j = 14
  /\ Construction[1] = Call("mkdir", "root")
  /\ Construction[2] = Call("write", "root")
  /\ Construction[3] = Call("mkdir", "strings")
  /\ Construction[4] = Call("write", "strings")
  /\ Construction[5] = Call("mkdir", "config")
  /\ Construction[6] = Call("write", "config")
  /\ Construction[7] = Call("mkdir", "uac")
  /\ Construction[8] = Call("write", "uac")
  /\ Construction[9] = Call("mkdir", "hid")
  /\ Construction[10] = Call("write", "hid")
  /\ Construction[11] = Call("write", "desc")
  /\ Construction[12] = Call("link", "hid")
  /\ Construction[13] = Call("link", "uac")
<1>1. \A op \in Ops, on \in Attributes : Call(op, on) \in Calls
  BY DEF Call, Calls
<1>2. /\ MakeGadget \in Seq(Calls) /\ Len(MakeGadget) = 6
      /\ MakeFunctions \in Seq(Calls) /\ Len(MakeFunctions) = 5
      /\ LinkAndBind \in Seq(Calls) /\ Len(LinkAndBind) = 3
  BY <1>1
  DEF MakeGadget, MakeFunctions, LinkAndBind, Ops, Attributes, Dirs, Functions
<1> DEFINE first == Joined(MakeGadget, MakeFunctions)
<1>3. /\ first \in Seq(Calls) /\ Len(first) = 11
      /\ \A j \in 1..6 : first[j] = MakeGadget[j]
      /\ \A j \in 1..5 : first[6 + j] = MakeFunctions[j]
  <2>1. /\ first \in Seq(Calls)
        /\ Len(first) = Len(MakeGadget) + Len(MakeFunctions)
        /\ \A j \in 1..Len(MakeGadget) : first[j] = MakeGadget[j]
        /\ \A j \in 1..Len(MakeFunctions) :
             first[Len(MakeGadget) + j] = MakeFunctions[j]
     BY <1>2, JoinedElements
  <2> HIDE DEF first
  <2> QED  BY <1>2, <2>1
<1> HIDE DEF first
<1> DEFINE all == Joined(first, LinkAndBind)
<1>4. /\ all \in Seq(Calls) /\ Len(all) = 14
      /\ \A j \in 1..11 : all[j] = first[j]
      /\ \A j \in 1..3 : all[11 + j] = LinkAndBind[j]
  <2>1. /\ all \in Seq(Calls)
        /\ Len(all) = Len(first) + Len(LinkAndBind)
        /\ \A j \in 1..Len(first) : all[j] = first[j]
        /\ \A j \in 1..Len(LinkAndBind) : all[Len(first) + j] = LinkAndBind[j]
    BY <1>2, <1>3, JoinedElements
  <2> HIDE DEF all
  <2> QED  BY <1>2, <1>3, <2>1
<1>5. /\ Construction \in Seq(Calls) /\ Len(Construction) = 14
      /\ \A j \in 1..11 : Construction[j] = first[j]
      /\ \A j \in 1..3 : Construction[11 + j] = LinkAndBind[j]
  <2>1. Construction = all  BY DEF Construction, Joined, first
  <2> HIDE DEF all
  <2> QED  BY <1>4, <2>1
<1>6. /\ Construction[1] = Call("mkdir", "root")
      /\ Construction[2] = Call("write", "root")
      /\ Construction[3] = Call("mkdir", "strings")
      /\ Construction[4] = Call("write", "strings")
      /\ Construction[5] = Call("mkdir", "config")
      /\ Construction[6] = Call("write", "config")
  BY <1>3, <1>5 DEF MakeGadget
<1>7. /\ Construction[7] = Call("mkdir", "uac")
      /\ Construction[8] = Call("write", "uac")
      /\ Construction[9] = Call("mkdir", "hid")
      /\ Construction[10] = Call("write", "hid")
      /\ Construction[11] = Call("write", "desc")
  <2>1. /\ Construction[7] = first[6 + 1] /\ Construction[8] = first[6 + 2]
        /\ Construction[9] = first[6 + 3] /\ Construction[10] = first[6 + 4]
        /\ Construction[11] = first[6 + 5]
    BY <1>5
  <2> QED  BY <1>3, <2>1 DEF MakeFunctions
<1>8. /\ Construction[12] = Call("link", "hid")
      /\ Construction[13] = Call("link", "uac")
      /\ Construction[14] = Call("bind", "root")
  <2>1. /\ Construction[11 + 1] = LinkAndBind[1]
        /\ Construction[11 + 2] = LinkAndBind[2]
        /\ Construction[11 + 3] = LinkAndBind[3]
    BY <1>5
  <2> QED  BY <2>1 DEF LinkAndBind
<1>9. \A j \in 1..14 : /\ Legal(Construction[j])
                       /\ Construction[j].op
                            \in {"mkdir", "write", "link", "bind"}
                       /\ Construction[j].op = "bind" <=> j = 14
  <2> TAKE j \in 1..14
  <2>1. j \in {1, 2, 3, 4, 5, 6, 7, 8, 9, 10, 11, 12, 13, 14}  OBVIOUS
  <2>2. Construction[j] \in Calls  BY <1>5, ElementOfSeq
  <2> QED
    BY <1>6, <1>7, <1>8, <2>1, <2>2, CallIs DEF Legal, Dirs, Functions
<1> QED  BY <1>5, <1>6, <1>7, <1>8, <1>9

\* The directory of an attribute group is made before the group is written, and
\* all are written before the first link.
LEMMA WritesInBetween ==
  ASSUME NEW j \in 1..14
  PROVE  /\ Construction[j].op = "link" => j \in 12..13
         /\ Construction[j].op = "write" =>
              /\ j \in 1..11
              /\ \E i \in 1..(j - 1) :
                   /\ Construction[i].op = "mkdir"
                   /\ Construction[i].on = DirOf(Construction[j].on)
<1>1. j \in {1, 3, 5, 7, 9} => Construction[j].op = "mkdir"
  BY ConstructionCalls, CallIs
<1>2. j \in {12, 13} => Construction[j].op = "link"
  BY ConstructionCalls, CallIs
<1>3. j = 14 => Construction[j].op = "bind"  BY ConstructionCalls
<1>4. CASE j \in {2, 4, 6, 8, 10, 11}
  <2>1. Construction[j].op = "write"  BY <1>4, ConstructionCalls, CallIs
  <2> DEFINE i == IF j = 11 THEN 9 ELSE j - 1
  <2>2. i \in 1..(j - 1) /\ i \in {1, 3, 5, 7, 9}  BY <1>4
  <2>3. Construction[i].op = "mkdir"  BY <2>2, ConstructionCalls, CallIs
  <2>4. Construction[i].on = DirOf(Construction[j].on)
    BY <1>4, ConstructionCalls, CallIs DEF DirOf
  <2> QED  BY <1>4, <2>1, <2>2, <2>3, <2>4
<1>5. j \in {1, 3, 5, 7, 9} \/ j \in {2, 4, 6, 8, 10, 11} \/ j \in {12, 13}
      \/ j = 14
  OBVIOUS
<1> QED  BY <1>1, <1>2, <1>3, <1>4, <1>5

\* The calls that are left after the first k.
LEMMA CallsLeft ==
  ASSUME NEW calls \in Seq(Calls), NEW k \in 0..Len(calls),
         NEW left, left = SubSeq(calls, k + 1, Len(calls))
  PROVE  /\ left = << >> <=> k = Len(calls)
         /\ Len(left) <= Len(calls)
         /\ k < Len(calls) =>
              /\ Head(left) = calls[k + 1]
              /\ Tail(left) = SubSeq(calls, (k + 1) + 1, Len(calls))
<1>1. CASE k = Len(calls)
  BY <1>1, SubSeqProperties
<1>2. CASE k < Len(calls)
  <2>1. k + 1 \in 1..Len(calls) /\ Len(calls) \in (k + 1)..Len(calls)
    BY <1>2
  <2>2. /\ Head(left) = calls[k + 1]
        /\ Tail(left) = SubSeq(calls, (k + 1) + 1, Len(calls))
    BY <2>1, HeadTailOfSubSeq
  <2>3. \A i \in (k + 1)..Len(calls) : calls[i] \in Calls
    BY ElementOfSeq
  <2>4. Len(left) = (Len(calls) - (k + 1)) + 1
    BY <2>1, <2>3, SubSeqProperties
  <2>5. Len(left) # 0 /\ Len(left) <= Len(calls)  BY <1>2, <2>4
  <2>6. left # << >>  BY <2>5
  <2> QED  BY <1>2, <2>2, <2>5, <2>6
<1> QED  BY <1>1, <1>2

-----------------------------------------------------------------------------
(* The inductive invariant.                                                *)

Trees == [dirs : SUBSET Dirs, links : SUBSET Functions,
          set : SUBSET Attributes, noOut : BOOLEAN, bound : BOOLEAN]

Unlinks == {Call("unlink", f) : f \in Functions}

WriteMissed == \E c \in missed : c.op = "write"

\* The first k calls of a phase are over.
AfterTeardown(k) ==
  k \in 0..8 /\ todo = SubSeq(Teardown, k + 1, Len(Teardown))
AfterConstruction(k) ==
  k \in 0..14 /\ todo = SubSeq(Construction, k + 1, Len(Construction))

\* A gadget still bound has seen the unlinks that are over fail.
StillBound(k) ==
  tree.bound =>
    \A j \in 1..k : Teardown[j].op = "unlink" => Teardown[j] \in missed

\* What an attribute group has once it was written: its values, or a link in
\* its way, at which create's own link will fail.
Written(a, k) ==
  \/ a \in tree.set /\ (a = "hid" => tree.noOut = noOutWanted)
  \/ /\ DirOf(a) \in tree.links
     /\ \A j \in 1..k : Construction[j] # Call("link", DirOf(a))

\* What create has made so far, unless a write was missed.
Built(k) ==
  \A j \in 1..k :
    /\ Construction[j].op = "mkdir" => Construction[j].on \in tree.dirs
    /\ Construction[j].op = "link" => Construction[j].on \in tree.links
    /\ Construction[j].op = "write" => \/ Written(Construction[j].on, k)
                                       \/ WriteMissed

ClearingGoesOn == phase \in Clearing => \E k \in 0..8 : AfterTeardown(k)

OldGadgetGoes ==
  phase = "clearOld" => \E k \in 0..8 : AfterTeardown(k) /\ StillBound(k)

BuildingGoesOn ==
  phase = "build" => \E k \in 0..14 : AfterConstruction(k) /\ Built(k)

NothingLeft ==
  phase \in {"down", "check", "created", "serving"} => todo = << >>

\* A gadget that main finds at its second look has refused to go.
FoundAgain == phase = "check" /\ Exists(tree) => Unlinks \subseteq missed

Served ==
  phase \in {"created", "serving"} /\ tree.bound =>
    AsWanted \/ WriteMissed \/ Unlinks \subseteq missed

\* Only a bound gadget is served.
ServingBound == phase = "serving" => tree.bound

IInv ==
  /\ TypeOK /\ HostSeesBothFunctions
  /\ ClearingGoesOn /\ OldGadgetGoes /\ BuildingGoesOn /\ NothingLeft
  /\ FoundAgain /\ Served /\ ServingBound

-----------------------------------------------------------------------------
(* What the system calls do.                                               *)

LEMMA EffectOf ==
  ASSUME NEW t \in Trees, NEW c, Legal(c), noOutWanted \in BOOLEAN
  PROVE  /\ Effect(c, t) \in Trees
         /\ c.op \in {"clearUdc", "mkdir", "write", "link", "rmdir"} =>
              Effect(c, t).bound = t.bound
         /\ c.op \in {"clearUdc", "mkdir", "write", "bind", "rmdir"} =>
              Effect(c, t).links = t.links
         /\ c.op = "unlink" => Effect(c, t).bound = FALSE
         /\ c.op = "link" => Effect(c, t).links = t.links \cup {c.on}
         /\ c.op \in {"mkdir", "link", "bind"} =>
              /\ Effect(c, t).set = t.set /\ Effect(c, t).noOut = t.noOut
         /\ c.op \in {"write", "link", "bind"} => Effect(c, t).dirs = t.dirs
         /\ c.op = "mkdir" => Effect(c, t).dirs = t.dirs \cup {c.on}
         /\ c.op = "write" =>
              /\ Effect(c, t).set = t.set \cup {c.on}
              /\ Effect(c, t).noOut = IF c.on = "hid" THEN noOutWanted
                                                      ELSE t.noOut
<1>1. c.op \in Ops /\ c.on \in Attributes  BY DEF Legal, Calls
<1>2. CASE c.op = "clearUdc"  BY <1>2 DEF Effect
<1>3. CASE c.op = "mkdir"
  BY <1>3 DEF Effect, Legal, Trees
<1>4. CASE c.op = "write"
  BY <1>1, <1>4 DEF Effect, Trees
<1>5. CASE c.op = "link"
  BY <1>5 DEF Effect, Legal, Trees
<1>6. CASE c.op = "bind"
  BY <1>6 DEF Effect, Trees
<1>7. CASE c.op = "unlink"
  BY <1>7 DEF Effect, Trees
<1>8. CASE c.op = "rmdir"
  BY <1>8 DEF Effect, Trees
<1> QED  BY <1>1, <1>2, <1>3, <1>4, <1>5, <1>6, <1>7, <1>8 DEF Ops

\* The calls of create only add to the tree.
LEMMA CreateAdds ==
  ASSUME NEW t \in Trees, NEW c, Legal(c), noOutWanted \in BOOLEAN,
         c.op \in {"mkdir", "write", "link", "bind"}
  PROVE  /\ t.dirs \subseteq Effect(c, t).dirs
         /\ t.links \subseteq Effect(c, t).links
         /\ t.set \subseteq Effect(c, t).set
         /\ t.noOut = noOutWanted => Effect(c, t).noOut = noOutWanted
<1>1. CASE c.op \in {"mkdir", "bind"}
  BY <1>1 DEF Effect, Trees
<1>2. CASE c.op = "link"
  BY <1>2 DEF Effect, Trees
<1>3. CASE c.op = "write"
  BY <1>3 DEF Effect, Trees
<1> QED  BY <1>1, <1>2, <1>3

\* destroy begins, or create does.
LEMMA FromTheStart ==
  /\ Teardown = SubSeq(Teardown, 0 + 1, Len(Teardown))
  /\ Construction = SubSeq(Construction, 0 + 1, Len(Construction))
  /\ Teardown # << >> /\ Construction # << >>
  /\ Len(Teardown) <= Len(Construction) /\ Len(Construction) \in Nat
<1>1. Teardown \in Seq(Calls) /\ Len(Teardown) = 8  BY TeardownCalls
<1>2. Construction \in Seq(Calls) /\ Len(Construction) = 14
  BY ConstructionCalls
<1>3. Teardown # << >> /\ Construction # << >>
  <2>1. Len(Teardown) # 0 /\ Len(Construction) # 0  BY <1>1, <1>2
  <2> QED  BY <2>1
<1>4. /\ Teardown = SubSeq(Teardown, 1, Len(Teardown))
      /\ Construction = SubSeq(Construction, 1, Len(Construction))
  BY <1>1, <1>2, SubSeqFull
<1> QED  BY <1>1, <1>2, <1>3, <1>4

LEMMA TypesOf ==
  ASSUME TypeOK
  PROVE  tree \in Trees /\ noOutWanted \in BOOLEAN
BY DEF TypeOK, Trees

LEMMA FaultCounts ==
  ASSUME TypeOK, NEW c, Fails(c)
  PROVE  faults' \in 0..MaxFaults
BY BoundAssumption DEF TypeOK, Fails

-----------------------------------------------------------------------------
(* The steps.                                                              *)

\* destroy's next call, whether it works or not.
LEMMA ClearingStep ==
  ASSUME IInv, phase \in Clearing, Works \/ FailsUnnoticed
  PROVE  IInv'
<1> USE DEF IInv
<1> DEFINE At(k) ==
      AfterTeardown(k) /\ (phase = "clearOld" => StillBound(k))
<1>1. PICK k \in 0..8 : At(k)
  BY DEF ClearingGoesOn, OldGadgetGoes
<1>2. /\ todo # << >> /\ UNCHANGED <<phase, noOutWanted, exits>>
      /\ todo' = Tail(todo)
  BY DEF Works, FailsUnnoticed
<1>3. /\ k < 8 /\ Head(todo) = Teardown[k + 1]
      /\ todo' = SubSeq(Teardown, (k + 1) + 1, Len(Teardown))
      /\ Len(todo') <= Len(Construction)
  <2>1. /\ Teardown \in Seq(Calls) /\ Len(Teardown) = 8
        /\ Len(Construction) = 14
    BY TeardownCalls, ConstructionCalls
  <2> QED  BY <1>1, <1>2, <2>1, CallsLeft DEF AfterTeardown
<1> DEFINE c == Head(todo)
<1>4. /\ c = Teardown[k + 1] /\ Legal(c)
      /\ c.op \in {"clearUdc", "unlink", "rmdir"}
  <2>1. k + 1 \in 1..8  BY <1>3
  <2> QED  BY <1>3, <2>1, TeardownCalls
<1>5. AfterTeardown(k + 1)'
  BY <1>1, <1>3 DEF AfterTeardown
<1>6. /\ tree' \in Trees
      /\ tree'.bound => tree.bound /\ tree'.links = tree.links
      /\ tree'.bound /\ c.op = "unlink" => c \in missed'
      /\ missed \subseteq missed' /\ faults' \in 0..MaxFaults
  <2> HIDE DEF c
  <2>1. CASE Works
    <3>1. tree' = Effect(c, tree) /\ missed' = missed /\ faults' = faults
      BY <2>1 DEF Works, c
    <3>2. tree \in Trees /\ noOutWanted \in BOOLEAN  BY TypesOf
    <3>3. /\ tree' \in Trees
          /\ c.op = "unlink" => tree'.bound = FALSE
          /\ c.op # "unlink" => /\ tree'.bound = tree.bound
                                /\ tree'.links = tree.links
      BY <1>4, <3>1, <3>2, EffectOf
    <3> QED  BY <3>1, <3>3 DEF TypeOK
  <2>2. CASE FailsUnnoticed
    <3>1. /\ Fails(c)
          /\ missed' = IF Permitted(c, tree) THEN missed \cup {c} ELSE missed
      BY <2>2 DEF FailsUnnoticed, c
    <3>2. tree' = tree /\ faults' \in 0..MaxFaults
      BY <3>1, FaultCounts DEF Fails
    <3>3. tree.bound /\ c.op = "unlink" => Permitted(c, tree)
      BY <1>4 DEF Permitted, HostSeesBothFunctions, Legal
    <3> QED  BY <3>1, <3>2, <3>3, TypesOf
  <2> QED  BY <2>1, <2>2
<1> HIDE DEF c
<1>7. TypeOK'
  <2>1. /\ phase' \in Clearing \cup {"down", "check", "build", "created",
                                    "serving"}
        /\ noOutWanted' \in BOOLEAN /\ exits' \in 0..MaxExits
    BY <1>2 DEF TypeOK
  <2> QED  BY <1>3, <1>6, <2>1 DEF TypeOK, Trees
<1>8. HostSeesBothFunctions'  BY <1>6 DEF HostSeesBothFunctions
<1>9. phase' = "clearOld" => StillBound(k + 1)'
  <2> SUFFICES ASSUME phase = "clearOld", tree'.bound,
                      NEW j \in 1..(k + 1), Teardown[j].op = "unlink"
               PROVE  Teardown[j] \in missed'
    BY <1>2 DEF StillBound
  <2>1. CASE j = k + 1  BY <1>4, <1>6, <2>1
  <2>2. CASE j \in 1..k  BY <1>1, <1>6, <2>2 DEF StillBound
  <2> QED  BY <2>1, <2>2
<1>10. k + 1 \in 0..8  BY <1>3
<1>11. ClearingGoesOn' /\ OldGadgetGoes'
  BY <1>5, <1>9, <1>10 DEF ClearingGoesOn, OldGadgetGoes
<1>12. /\ BuildingGoesOn' /\ NothingLeft' /\ FoundAgain' /\ Served'
       /\ ServingBound'
  BY <1>2
  DEF Clearing, BuildingGoesOn, NothingLeft, FoundAgain, Served, ServingBound
<1> QED  BY <1>7, <1>8, <1>11, <1>12

\* create's next call that works, or a write or bind whose failure is missed.
LEMMA BuildingStep ==
  ASSUME IInv, phase = "build", Works \/ FailsUnnoticed
  PROVE  IInv'
<1> USE DEF IInv
<1>1. PICK k \in 0..14 : AfterConstruction(k) /\ Built(k)
  BY DEF BuildingGoesOn
<1>2. /\ todo # << >> /\ UNCHANGED <<phase, noOutWanted, exits>>
      /\ todo' = Tail(todo)
  BY DEF Works, FailsUnnoticed
<1>3. /\ k < 14 /\ Head(todo) = Construction[k + 1]
      /\ todo' = SubSeq(Construction, (k + 1) + 1, Len(Construction))
      /\ Len(todo') <= Len(Construction)
  BY <1>1, <1>2, CallsLeft, ConstructionCalls DEF AfterConstruction
<1> DEFINE c == Head(todo)
<1>4. /\ c = Construction[k + 1] /\ Legal(c)
      /\ c.op \in {"mkdir", "write", "link", "bind"}
      /\ c.op = "bind" => k = 13
  <2>1. k + 1 \in 1..14  BY <1>3
  <2>2. /\ Legal(Construction[k + 1])
        /\ Construction[k + 1].op \in {"mkdir", "write", "link", "bind"}
        /\ Construction[k + 1].op = "bind" => k + 1 = 14
    BY <2>1, ConstructionCalls
  <2> QED  BY <1>3, <2>2
<1>5. AfterConstruction(k + 1)' /\ k + 1 \in 0..14
  BY <1>1, <1>3 DEF AfterConstruction
<1>6. tree \in Trees /\ noOutWanted \in BOOLEAN  BY TypesOf
<1> HIDE DEF c
<1>7. CASE Works
  <2>1. /\ tree' = Effect(c, tree) /\ missed' = missed /\ faults' = faults
        /\ Permitted(c, tree)
    BY <1>7 DEF Works, c
  <2>2. TypeOK'
    <3>1. tree' \in Trees  BY <1>4, <1>6, <2>1, EffectOf
    <3>2. /\ phase' = "build" /\ faults' \in 0..MaxFaults
          /\ noOutWanted' \in BOOLEAN /\ exits' \in 0..MaxExits
      BY <1>2, <2>1 DEF TypeOK
    <3> QED  BY <1>3, <3>1, <3>2 DEF TypeOK, Trees
  <2>3. HostSeesBothFunctions'
    <3>1. CASE c.op \in {"mkdir", "write"}
      BY <1>4, <1>6, <2>1, <3>1, EffectOf DEF HostSeesBothFunctions
    <3>2. CASE c.op = "link"
      <4>1. ~tree.bound  BY <2>1, <3>2 DEF Permitted
      <4> QED
        BY <1>4, <1>6, <2>1, <3>2, <4>1, EffectOf DEF HostSeesBothFunctions
    <3>3. CASE c.op = "bind"
      <4>1. 12 \in 1..k /\ 13 \in 1..k  BY <1>4, <3>3
      <4>2. "hid" \in tree.links /\ "uac" \in tree.links
        <5>1. /\ Construction[12].op = "link" /\ Construction[12].on = "hid"
              /\ Construction[13].op = "link" /\ Construction[13].on = "uac"
          BY ConstructionCalls, CallIs
        <5> QED  BY <1>1, <4>1, <5>1 DEF Built
      <4>3. tree.links = Functions  BY <1>6, <4>2 DEF Trees, Functions
      <4> QED
        BY <1>4, <1>6, <2>1, <3>3, <4>3, EffectOf DEF HostSeesBothFunctions
    <3> QED  BY <1>4, <3>1, <3>2, <3>3
  <2>0. /\ tree.dirs \subseteq tree'.dirs /\ tree.links \subseteq tree'.links
        /\ tree.set \subseteq tree'.set
        /\ tree.noOut = noOutWanted => tree'.noOut = noOutWanted
    BY <1>4, <1>6, <2>1, CreateAdds
  <2>4. \A a \in Attributes :
          Written(a, k) => Written(a, k + 1)'
    <3> SUFFICES ASSUME NEW a \in Attributes, Written(a, k)
                 PROVE  Written(a, k + 1)'
      OBVIOUS
    <3>1. CASE a \in tree.set /\ (a = "hid" => tree.noOut = noOutWanted)
      <4>1. a \in tree'.set /\ (a = "hid" => tree'.noOut = noOutWanted')
        BY <1>2, <2>0, <3>1
      <4> QED  BY <4>1 DEF Written
    <3>2. CASE /\ DirOf(a) \in tree.links
               /\ \A j \in 1..k : Construction[j] # Call("link", DirOf(a))
      <4>1. c # Call("link", DirOf(a))
        <5> SUFFICES ASSUME c = Call("link", DirOf(a))  PROVE FALSE  OBVIOUS
        <5>1. c.op = "link" /\ c.on = DirOf(a)  BY CallIs
        <5> QED  BY <2>1, <3>2, <5>1 DEF Permitted
      <4>2. \A j \in 1..(k + 1) : Construction[j] # Call("link", DirOf(a))
        BY <1>1, <1>4, <3>2, <4>1
      <4>3. DirOf(a) \in tree'.links  BY <2>0, <3>2
      <4> QED  BY <4>2, <4>3 DEF Written
    <3> QED  BY <3>1, <3>2 DEF Written
  <2>5. Built(k + 1)'
    <3> SUFFICES ASSUME NEW j \in 1..(k + 1)
                 PROVE  /\ Construction[j].op = "mkdir"
                           => Construction[j].on \in tree'.dirs
                        /\ Construction[j].op = "link"
                           => Construction[j].on \in tree'.links
                        /\ Construction[j].op = "write"
                           => \/ Written(Construction[j].on, k + 1)'
                              \/ WriteMissed'
      BY DEF Built
    <3>1. CASE j = k + 1
      <4>1. c.op = "write" => Written(Construction[k + 1].on, k + 1)'
        BY <1>2, <1>4, <1>6, <2>1, EffectOf DEF Written
      <4>2. /\ c.op = "mkdir" => c.on \in tree'.dirs
            /\ c.op = "link" => c.on \in tree'.links
        BY <1>4, <1>6, <2>1, EffectOf
      <4> QED  BY <1>4, <3>1, <4>1, <4>2
    <3>2. CASE j \in 1..k
      <4>1. Construction[j].on \in Attributes
        BY <1>3, <3>2, ConstructionCalls DEF Legal, Calls
      <4>2. WriteMissed => WriteMissed'  BY <2>1 DEF WriteMissed
      <4> QED  BY <1>1, <2>0, <2>4, <3>2, <4>1, <4>2 DEF Built
    <3> QED  BY <3>1, <3>2
  <2>6. BuildingGoesOn'  BY <1>5, <2>5 DEF BuildingGoesOn
  <2> QED
    BY <1>2, <2>2, <2>3, <2>6
    DEF Clearing, ClearingGoesOn, OldGadgetGoes, NothingLeft, FoundAgain,
        Served, ServingBound
<1>8. CASE FailsUnnoticed
  <2>1. /\ Fails(c) /\ c.op \in {"write", "bind"}
        /\ missed' = IF Permitted(c, tree) THEN missed \cup {c} ELSE missed
        /\ tree' = tree
    BY <1>8 DEF FailsUnnoticed, Fails, Clearing, c
  <2>2. TypeOK'
    <3>1. /\ phase' = "build" /\ faults' \in 0..MaxFaults
          /\ noOutWanted' \in BOOLEAN /\ exits' \in 0..MaxExits
      BY <1>2, <2>1, FaultCounts DEF TypeOK
    <3> QED  BY <1>3, <1>6, <2>1, <3>1 DEF TypeOK, Trees
  <2>3. HostSeesBothFunctions'  BY <2>1 DEF HostSeesBothFunctions
  <2>4. \A a \in Attributes : Written(a, k) => Written(a, k + 1)'
    <3> SUFFICES ASSUME NEW a \in Attributes, Written(a, k)
                 PROVE  Written(a, k + 1)'
      OBVIOUS
    <3>1. c # Call("link", DirOf(a))  BY <2>1, CallIs
    <3>2. (\A j \in 1..k : Construction[j] # Call("link", DirOf(a)))
          => \A j \in 1..(k + 1) : Construction[j] # Call("link", DirOf(a))
      BY <1>1, <1>4, <3>1
    <3> QED  BY <1>2, <2>1, <3>2 DEF Written
  <2>5. c.op = "write" => Written(Construction[k + 1].on, k + 1)'
                          \/ WriteMissed'
    <3> SUFFICES ASSUME c.op = "write"
                 PROVE  Written(Construction[k + 1].on, k + 1)' \/ WriteMissed'
      OBVIOUS
    <3>1. CASE Permitted(c, tree)
      BY <2>1, <3>1 DEF WriteMissed
    <3>2. CASE ~Permitted(c, tree)
      <4>1. DirOf(c.on) \notin tree.dirs \/ DirOf(c.on) \in tree.links
        BY <3>2 DEF Permitted
      <4>2. DirOf(c.on) \in tree.dirs
        <5>1. k + 1 \in 1..14 /\ (k + 1) - 1 = k  BY <1>3
        <5>2. PICK i \in 1..k : /\ Construction[i].op = "mkdir"
                                /\ Construction[i].on = DirOf(c.on)
          BY <1>4, <5>1, WritesInBetween
        <5> QED  BY <1>1, <5>2 DEF Built
      <4>3. \A j \in 1..(k + 1) : Construction[j] # Call("link", DirOf(c.on))
        <5>1. k + 1 \in 1..11
          <6>1. k + 1 \in 1..14  BY <1>3
          <6> QED  BY <1>4, <6>1, WritesInBetween
        <5>2. \A j \in 1..(k + 1) : j \in 1..14 /\ j \notin 12..13  BY <5>1
        <5> QED  BY <5>2, WritesInBetween, CallIs
      <4>4. /\ DirOf(Construction[k + 1].on) \in tree'.links
            /\ \A j \in 1..(k + 1) :
                 Construction[j] # Call("link", DirOf(Construction[k + 1].on))
        BY <1>4, <2>1, <4>1, <4>2, <4>3
      <4> QED  BY <4>4 DEF Written
    <3> QED  BY <3>1, <3>2
  <2>6. Built(k + 1)'
    <3> SUFFICES ASSUME NEW j \in 1..(k + 1)
                 PROVE  /\ Construction[j].op = "mkdir"
                           => Construction[j].on \in tree'.dirs
                        /\ Construction[j].op = "link"
                           => Construction[j].on \in tree'.links
                        /\ Construction[j].op = "write"
                           => \/ Written(Construction[j].on, k + 1)'
                              \/ WriteMissed'
      BY DEF Built
    <3>1. CASE j = k + 1  BY <1>4, <2>1, <2>5, <3>1
    <3>2. CASE j \in 1..k
      <4>1. Construction[j].on \in Attributes
        BY <1>3, <3>2, ConstructionCalls DEF Legal, Calls
      <4>2. WriteMissed => WriteMissed'  BY <2>1 DEF WriteMissed
      <4> QED  BY <1>1, <2>1, <2>4, <3>2, <4>1, <4>2 DEF Built
    <3> QED  BY <3>1, <3>2
  <2>7. BuildingGoesOn'  BY <1>5, <2>6 DEF BuildingGoesOn
  <2> QED
    BY <1>2, <2>2, <2>3, <2>7
    DEF Clearing, ClearingGoesOn, OldGadgetGoes, NothingLeft, FoundAgain,
        Served, ServingBound
<1> QED  BY <1>7, <1>8

\* The process ends, wherever it is; the tree stays.
LEMMA EndStep ==
  ASSUME IInv, CreateFails \/ NoUdc \/ GivenUp \/ NoHidNode \/ Exit
  PROVE  IInv'
<1> USE DEF IInv
<1>1. Ends /\ tree' = tree
  BY DEF CreateFails, Fails, NoUdc, GivenUp, NoHidNode, Exit
<1>2. faults' \in 0..MaxFaults
  <2>1. CASE CreateFails  BY <2>1, FaultCounts DEF CreateFails
  <2>2. CASE NoUdc  BY <2>2, BoundAssumption DEF NoUdc, TypeOK
  <2> QED  BY <2>1, <2>2 DEF GivenUp, NoHidNode, Exit, TypeOK
<1>3. exits' \in 0..MaxExits
  <2>1. CASE Exit  BY <2>1, BoundAssumption DEF Exit, TypeOK
  <2> QED  BY <2>1 DEF CreateFails, NoUdc, GivenUp, NoHidNode, TypeOK
<1>4. TypeOK'
  <2>1. Len(todo') <= Len(Construction)
    BY <1>1, ConstructionCalls DEF Ends
  <2> QED  BY <1>1, <1>2, <1>3, <2>1 DEF Ends, TypeOK
<1> QED
  BY <1>1, <1>4
  DEF Ends, HostSeesBothFunctions, Clearing, ClearingGoesOn, OldGadgetGoes,
      BuildingGoesOn, NothingLeft, FoundAgain, Served, ServingBound

\* main and create go from one phase to the next.
LEMMA TurnStep ==
  ASSUME IInv,
         \/ BindFails \/ Start \/ OldCleared \/ Reuse \/ Create \/ FindUdc
         \/ Build \/ Created \/ Serve
  PROVE  IInv'
<1> USE DEF IInv
<1>1. /\ tree' = tree /\ missed' = missed /\ exits' = exits
      /\ noOutWanted' \in BOOLEAN
  BY DEF BindFails, Fails, Start, OldCleared, Reuse, Create, FindUdc, Build,
     Created, Serve, Enter, TypeOK
<1>2. faults' \in 0..MaxFaults
  <2>1. CASE BindFails  BY <2>1, FaultCounts DEF BindFails
  <2> QED
    BY <2>1
    DEF Start, OldCleared, Reuse, Create, FindUdc, Build, Created, Serve, Enter,
        TypeOK
<1>3. /\ phase' \in {"clearOld", "clear", "clearAgain", "undo"}
           => todo' = Teardown
      /\ phase' = "build" => todo' = Construction
      /\ phase' \in {"check", "created", "serving"} => todo' = << >>
      /\ phase' \in {"clearOld", "clear", "clearAgain", "undo", "build",
                     "check", "created", "serving"}
  BY DEF BindFails, Start, FirstLook, OldCleared, Reuse, Create, FindUdc, Build,
     Created, Serve, Enter
<1>4. TypeOK'
  <2>1. Len(todo') <= Len(Construction)
    <3>1. /\ Len(Teardown) <= Len(Construction)
          /\ Len(Construction) <= Len(Construction)
          /\ Len(<< >>) <= Len(Construction)
      BY TeardownCalls, ConstructionCalls
    <3> QED  BY <1>3, <3>1
  <2> QED  BY <1>1, <1>2, <1>3, <2>1 DEF TypeOK, Clearing
<1>5. HostSeesBothFunctions'  BY <1>1 DEF HostSeesBothFunctions
<1>6. ClearingGoesOn' /\ OldGadgetGoes'
  <2>1. 0 \in 0..8 /\ StillBound(0)'  BY DEF StillBound
  <2>2. todo' = Teardown => AfterTeardown(0)'
    BY FromTheStart DEF AfterTeardown
  <2> QED
    BY <1>3, <2>1, <2>2 DEF ClearingGoesOn, OldGadgetGoes, Clearing
<1>7. BuildingGoesOn'
  <2>1. 0 \in 0..14 /\ Built(0)'  BY DEF Built
  <2>2. todo' = Construction => AfterConstruction(0)'
    BY FromTheStart DEF AfterConstruction
  <2> QED  BY <1>3, <2>1, <2>2 DEF BuildingGoesOn
<1>8. NothingLeft'  BY <1>3 DEF NothingLeft
<1>9. FoundAgain'
  <2> SUFFICES ASSUME phase' = "check", Exists(tree)
               PROVE  Unlinks \subseteq missed
    BY <1>1 DEF FoundAgain, Exists
  <2>1. OldCleared
    BY DEF BindFails, Start, FirstLook, OldCleared, Reuse, Create, FindUdc,
       Build, Created, Serve, Enter
  <2>2. PICK k \in 0..8 : AfterTeardown(k) /\ StillBound(k)
    BY <2>1 DEF OldCleared, Leave, OldGadgetGoes
  <2>3. k = 8
    BY <2>1, <2>2, CallsLeft, TeardownCalls
    DEF OldCleared, Leave, AfterTeardown
  <2>4. Teardown[2] \in missed /\ Teardown[3] \in missed
    BY <2>2, <2>3, TeardownCalls, CallIs DEF StillBound, Exists
  <2> QED  BY <2>4, TeardownCalls DEF Unlinks, Functions
<1>10. Served'
  <2>1. CASE Reuse
    <3>1. Unlinks \subseteq missed
      BY <2>1 DEF Reuse, Leave, FoundAgain
    <3> QED  BY <1>1, <3>1 DEF Served, Unlinks
  <2>2. CASE Created
    <3>1. phase = "build" /\ todo = << >> /\ noOutWanted' = noOutWanted
      BY <2>2 DEF Created, Leave, Enter
    <3>2. PICK k \in 0..14 : AfterConstruction(k) /\ Built(k)
      BY <3>1 DEF BuildingGoesOn
    <3>3. k = 14
      BY <3>1, <3>2, CallsLeft, ConstructionCalls DEF AfterConstruction
    <3>4. ASSUME NEW j \in 1..11, Construction[j].op = "write", ~WriteMissed
          PROVE  LET a == Construction[j].on
                 IN  a \in tree.set /\ (a = "hid" => tree.noOut = noOutWanted)
      <4> DEFINE a == Construction[j].on
      <4>1. Written(a, 14)  BY <3>2, <3>3, <3>4 DEF Built
      <4>2. Construction[12] = Call("link", "hid")
            /\ Construction[13] = Call("link", "uac")
        BY ConstructionCalls
      <4>3. DirOf(a) \notin tree.links
            \/ \E i \in 1..14 : Construction[i] = Call("link", DirOf(a))
        <5>1. tree.links \subseteq Functions  BY TypesOf DEF Trees
        <5> QED  BY <4>2, <5>1 DEF Functions
      <4> QED  BY <4>1, <4>3 DEF Written
    <3>5. WriteMissed \/ AsWanted
      <4> SUFFICES ASSUME ~WriteMissed  PROVE AsWanted  OBVIOUS
      <4>1. /\ "root" \in tree.set /\ "strings" \in tree.set
            /\ "config" \in tree.set /\ "uac" \in tree.set
            /\ "hid" \in tree.set /\ "desc" \in tree.set
            /\ tree.noOut = noOutWanted
        <5>1. \A j \in {2, 4, 6, 8, 10, 11} :
                j \in 1..11 /\ Construction[j].op = "write"
          BY ConstructionCalls, CallIs
        <5> QED  BY <3>4, <5>1, ConstructionCalls, CallIs
      <4>2. tree.set = Attributes
        <5>1. tree.set \subseteq Attributes  BY TypesOf DEF Trees
        <5> QED  BY <4>1, <5>1 DEF Attributes, Dirs, Functions
      <4> QED  BY <4>1, <4>2 DEF AsWanted
    <3> QED
      BY <1>1, <3>1, <3>5 DEF Served, AsWanted, WriteMissed
  <2>3. CASE Serve
    BY <2>3 DEF Serve, Enter, Served, AsWanted, WriteMissed, Unlinks
  <2> QED
    BY <2>1, <2>2, <2>3
    DEF BindFails, Start, FirstLook, OldCleared, Create, FindUdc, Build, Enter,
        Served
<1>11. ServingBound'
  <2>1. phase' = "serving" => Serve
    BY DEF BindFails, Start, FirstLook, OldCleared, Reuse, Create, FindUdc,
       Build, Created, Serve, Enter
  <2> QED  BY <1>1, <2>1 DEF ServingBound, Serve
<1> QED
  BY <1>4, <1>5, <1>6, <1>7, <1>8, <1>9, <1>10, <1>11

-----------------------------------------------------------------------------
(* The invariant holds, and what the run checks follows from it.           *)

LEMMA InitInvariant == Init => IInv
<1> SUFFICES ASSUME Init  PROVE IInv  OBVIOUS
<1>1. TypeOK
  <2>1. Len(todo) = 0 /\ Len(Construction) = 14
    BY ConstructionCalls DEF Init
  <2>2. tree \in [dirs : SUBSET Dirs, links : SUBSET Functions,
                  set : SUBSET Attributes, noOut : BOOLEAN, bound : BOOLEAN]
    BY DEF Init, NoGadget
  <2>3. faults \in 0..MaxFaults /\ exits \in 0..MaxExits
    BY BoundAssumption DEF Init
  <2>4. Len(todo) <= Len(Construction)  BY <2>1
  <2> QED  BY <2>2, <2>3, <2>4 DEF Init, TypeOK
<1> QED
  BY <1>1
  DEF Init, NoGadget, IInv, HostSeesBothFunctions, Clearing, ClearingGoesOn,
      OldGadgetGoes, BuildingGoesOn, NothingLeft, FoundAgain, Served,
      ServingBound

LEMMA StepInvariant == IInv /\ [Next]_vars => IInv'
<1> SUFFICES ASSUME IInv, [Next]_vars  PROVE IInv'  OBVIOUS
<1>1. CASE Works \/ FailsUnnoticed
  <2>1. todo # << >>  BY <1>1 DEF Works, FailsUnnoticed
  <2>2. phase \in Clearing \/ phase = "build"
    BY <2>1 DEF IInv, TypeOK, NothingLeft
  <2> QED  BY <1>1, <2>2, ClearingStep, BuildingStep
<1>2. CASE CreateFails \/ NoUdc \/ GivenUp \/ NoHidNode \/ Exit
  BY <1>2, EndStep
<1>3. CASE \/ BindFails \/ Start \/ OldCleared \/ Reuse \/ Create \/ FindUdc
           \/ Build \/ Created \/ Serve
  BY <1>3, TurnStep
<1>4. CASE UNCHANGED vars
  <2> USE <1>4 DEF vars, IInv
  <2>1. TypeOK' /\ HostSeesBothFunctions' /\ NothingLeft' /\ ServingBound'
    BY DEF TypeOK, HostSeesBothFunctions, NothingLeft, ServingBound
  <2>2. ClearingGoesOn' /\ OldGadgetGoes'
    BY DEF ClearingGoesOn, OldGadgetGoes, AfterTeardown, StillBound
  <2>3. BuildingGoesOn'
    BY DEF BuildingGoesOn, AfterConstruction, Built, Written, WriteMissed
  <2>4. FoundAgain' /\ Served'
    BY DEF FoundAgain, Served, WriteMissed, AsWanted, Exists
  <2> QED  BY <2>1, <2>2, <2>3, <2>4
<1> QED  BY <1>1, <1>2, <1>3, <1>4 DEF Next, Proceeds

\* The model of the gadget keeps its invariant.
THEOREM Invariance == Spec => []IInv
BY InitInvariant, StepInvariant, PTL DEF Spec

\* The variables have their types: whatever fails, create and destroy leave a
\* tree that configfs can hold.
THEOREM TypeCorrect == Spec => []TypeOK
<1>1. IInv => TypeOK  BY DEF IInv
<1> QED  BY <1>1, Invariance, PTL

\* However often system calls fail and processes die, the host never sees a
\* gadget with one function only.
THEOREM BothFunctions == Spec => []HostSeesBothFunctions
<1>1. IInv => HostSeesBothFunctions  BY DEF IInv
<1> QED  BY <1>1, Invariance, PTL

\* However often system calls fail and processes die, a process serves the
\* gadget it was asked for, unless a write was refused without a trace, or
\* both unlinks.
THEOREM AskedIsServed == Spec => []ServesWhatWasAsked
<1>1. IInv => ServesWhatWasAsked
  BY DEF IInv, Served, ServingBound, ServesWhatWasAsked, WriteMissed, Unlinks
<1> QED  BY <1>1, Invariance, PTL

=============================================================================
