--------------------------- MODULE InputPathProofs ---------------------------
(***************************************************************************)
(* Proofs about InputPath, for any number of reports.                      *)
(*                                                                         *)
(* The properties speak of everything the controller has sent, the steps   *)
(* of the next report or batch.  IInv says after every step how far each   *)
(* reader has come in what was sent; the lemmas say what one report, or a  *)
(* batch of them, adds to the presses, the headset bit and the packets.    *)
(***************************************************************************)
EXTENDS InputPath, MaxTheorems, FiniteSetTheorems, SequenceTheorems, TLAPS

-----------------------------------------------------------------------------
(* Finite sets of report numbers.                                          *)

LEMMA FiniteUpTo ==
  ASSUME NEW k \in Nat, NEW S \in SUBSET (1..k)
  PROVE  IsFiniteSet(S) /\ Cardinality(S) \in Nat
<1>1. IsFiniteSet(1..k)  BY FS_Interval
<1>2. IsFiniteSet(S)  BY <1>1, FS_Subset
<1> QED  BY <1>2, FS_CardinalityType

\* A set of n or more numbers has an n-th.
LEMMA NthExists ==
  ASSUME NEW k \in Nat, NEW P \in SUBSET (1..k),
         NEW n \in 1..Cardinality(P)
  PROVE  \E i \in P : Cardinality({j \in P : j < i}) = n - 1
<1> DEFINE Below(m) == {j \in P : j < m}
           Count(m) == Cardinality(Below(m))
<1>1. \A j \in P : j \in 1..k  OBVIOUS
<1>2. \A m \in Nat : IsFiniteSet(Below(m)) /\ Count(m) \in Nat
  <2> TAKE m \in Nat
  <2>1. Below(m) \in SUBSET (1..k)  OBVIOUS
  <2> HIDE DEF Below
  <2> QED  BY <2>1, FiniteUpTo
<1>3. \A m \in Nat : /\ m \in P => Count(m + 1) = Count(m) + 1
                     /\ m \notin P => Count(m + 1) = Count(m)
  <2> TAKE m \in Nat
  <2>1. m \notin Below(m)  OBVIOUS
  <2>2. \A j \in P : j < m + 1 <=> j < m \/ j = m  BY <1>1
  <2>3. m \in P => Below(m + 1) = Below(m) \cup {m}  BY <2>2
  <2>4. m \notin P => Below(m + 1) = Below(m)  BY <2>2
  <2> HIDE DEF Below
  <2> QED  BY <1>2, <2>1, <2>3, <2>4, FS_AddElement
<1>4. Count(0) = 0 /\ Count(k + 1) = Cardinality(P)
  <2>1. Below(0) = {}
    <3>1. \A j \in P : ~(j < 0)  BY <1>1
    <3> QED  BY <3>1
  <2>2. Below(k + 1) = P
    <3>1. \A j \in P : j < k + 1  BY <1>1
    <3> QED  BY <3>1
  <2> HIDE DEF Below
  <2> QED  BY <2>1, <2>2, FS_EmptySet
<1>5. \A m \in Nat : Count(m) \in Nat  BY <1>2
<1> HIDE DEF Count
<1> DEFINE Enough == {m \in Nat : Count(m) >= n}
<1>6. PICK m \in Enough : \A l \in Enough : m <= l
  <2>1. k + 1 \in Enough  BY <1>2, <1>4
  <2> QED  BY <2>1, LeastExists
<1>7. m - 1 \in Nat /\ m - 1 \notin Enough  BY <1>4, <1>6
<1>8. n \in Nat  BY FiniteUpTo
<1>9. Count(m - 1) \in Nat /\ Count(m - 1) < n  BY <1>5, <1>7, <1>8
<1>10. Count((m - 1) + 1) >= n  BY <1>6
<1>11. m - 1 \in P /\ Count(m - 1) = n - 1  BY <1>3, <1>7, <1>8, <1>9, <1>10
<1> QED  BY <1>11 DEF Count

\* The n-th is in the set, and numbers grow with n.
LEMMA NthInOrder ==
  ASSUME NEW k \in Nat, NEW P \in SUBSET (1..k)
  PROVE  /\ \A n \in 1..Cardinality(P) : NthOf(P, n) \in P
         /\ \A m, n \in 1..Cardinality(P) :
              m < n => NthOf(P, m) < NthOf(P, n)
<1> DEFINE Below(i) == {j \in P : j < i}
<1>1. \A n \in 1..Cardinality(P) :
        /\ NthOf(P, n) \in P
        /\ Cardinality(Below(NthOf(P, n))) = n - 1
  <2> TAKE n \in 1..Cardinality(P)
  <2>1. \E i \in P : Cardinality({j \in P : j < i}) = n - 1  BY NthExists
  <2> QED  BY <2>1 DEF NthOf
<1>2. ASSUME NEW a \in P, NEW b \in P,
             Cardinality(Below(a)) < Cardinality(Below(b))
      PROVE  a < b
  <2>1. \A i \in P : i \in Int  OBVIOUS
  <2>2. SUFFICES ASSUME b <= a  PROVE FALSE  BY <2>1
  <2>3. Below(b) \subseteq Below(a)
    <3>1. a \in Int /\ b \in Int  BY <2>1
    <3>2. \A i \in P : i < b => i < a  BY <2>1, <2>2, <3>1
    <3> QED  BY <3>2
  <2>4. Below(a) \in SUBSET (1..k) /\ Below(b) \in SUBSET (1..k)  OBVIOUS
  <2> HIDE DEF Below
  <2>5. /\ IsFiniteSet(Below(a))
        /\ Cardinality(Below(a)) \in Nat /\ Cardinality(Below(b)) \in Nat
    BY <2>4, FiniteUpTo
  <2>6. Cardinality(Below(b)) <= Cardinality(Below(a))
    BY <2>3, <2>5, FS_Subset
  <2> QED  BY <1>2, <2>5, <2>6
<1>3. ASSUME NEW m \in 1..Cardinality(P), NEW n \in 1..Cardinality(P), m < n
      PROVE  NthOf(P, m) < NthOf(P, n)
  <2>1. m - 1 < n - 1  BY <1>3, FiniteUpTo
  <2> HIDE DEF Below
  <2> QED  BY <1>1, <1>2, <2>1
<1> QED  BY <1>1, <1>3

-----------------------------------------------------------------------------
(* What the reports up to the n-th say, in terms of the reports themselves. *)

Inputs(s, n) == {i \in 1..n : s[i].kind = "input"}

Pressed(s, n)    == Inputs(s, n) # {} /\ s[Max(Inputs(s, n))].button
HeadsetBit(s, n) == Inputs(s, n) # {} /\ s[Max(Inputs(s, n))].headset

PressesOf(s, n) == {i \in Inputs(s, n) : s[i].button /\ ~Pressed(s, i - 1)}
Muted(s, toggles, n) == toggles /\ Cardinality(PressesOf(s, n)) % 2 = 1

\* What was said stays said when more reports are sent.
LEMMA HistoryStays ==
  ASSUME NEW s \in Seq(Report), NEW t \in Seq(Report), Len(s) <= Len(t),
         \A i \in 1..Len(s) : t[i] = s[i],
         NEW n \in 0..Len(s)
  PROVE  /\ Inputs(t, n) = Inputs(s, n)
         /\ Pressed(t, n) = Pressed(s, n)
         /\ HeadsetBit(t, n) = HeadsetBit(s, n)
         /\ PressesOf(t, n) = PressesOf(s, n)
<1>1. \A m \in 0..n : Inputs(t, m) = Inputs(s, m)  BY DEF Inputs
<1>2. \A m \in 0..n : /\ Pressed(t, m) = Pressed(s, m)
                      /\ HeadsetBit(t, m) = HeadsetBit(s, m)
  <2> TAKE m \in 0..n
  <2>1. CASE Inputs(s, m) = {}  BY <1>1, <2>1 DEF Pressed, HeadsetBit
  <2>2. CASE Inputs(s, m) # {}
    <3>1. m \in Nat  OBVIOUS
    <3>2. Inputs(s, m) \in SUBSET (0..m)  BY DEF Inputs
    <3>3. Max(Inputs(s, m)) \in Inputs(s, m)  BY <2>2, <3>1, <3>2, MaxOf
    <3>4. Max(Inputs(s, m)) \in 1..Len(s)  BY <3>3 DEF Inputs
    <3> QED  BY <1>1, <3>4 DEF Pressed, HeadsetBit
  <2> QED  BY <2>1, <2>2
<1>3. \A i \in Inputs(s, n) : i - 1 \in 0..n /\ t[i] = s[i]  BY DEF Inputs
<1>4. PressesOf(t, n) = PressesOf(s, n)
  BY <1>1, <1>2, <1>3 DEF PressesOf
<1> QED  BY <1>1, <1>2, <1>4

\* A batch of reports after the n-th: the newest input report of the batch is
\* the newest of all; without one nothing changes.
LEMMA BatchOfReports ==
  ASSUME NEW s \in Seq(Report), NEW n \in Nat, NEW m \in n..Len(s),
         NEW batch, batch = {i \in (n + 1)..m : s[i].kind = "input"}
  PROVE  /\ batch = {} => /\ Inputs(s, m) = Inputs(s, n)
                          /\ Pressed(s, m) = Pressed(s, n)
                          /\ HeadsetBit(s, m) = HeadsetBit(s, n)
         /\ batch # {} => /\ Max(batch) \in batch
                          /\ Pressed(s, m) = s[Max(batch)].button
                          /\ HeadsetBit(s, m) = s[Max(batch)].headset
<1>1. Inputs(s, m) = Inputs(s, n) \cup batch  BY DEF Inputs
<1>2. CASE batch = {}
  <2>1. Inputs(s, m) = Inputs(s, n)  BY <1>1, <1>2
  <2> QED  BY <1>2, <2>1 DEF Pressed, HeadsetBit
<1>3. CASE batch # {}
  <2>1. batch \in SUBSET (0..m) /\ m \in Nat  OBVIOUS
  <2>2. Max(batch) \in batch /\ \A y \in batch : y <= Max(batch)
    BY <1>3, <2>1, MaxOf
  <2>3. Max(Inputs(s, m)) = Max(batch)
    <3>1. Max(batch) \in (n + 1)..m  BY <2>2
    <3>2. \A y \in Inputs(s, m) : y \in Int /\ y <= Max(batch)
      <4>1. \A y \in Inputs(s, n) : y \in Int /\ y <= Max(batch)
        BY <3>1 DEF Inputs
      <4>2. \A y \in batch : y \in Int  OBVIOUS
      <4> QED  BY <1>1, <2>2, <4>1, <4>2
    <3>3. Max(batch) \in Inputs(s, m)  BY <1>1, <2>2
    <3>4. Inputs(s, m) \in SUBSET Int  BY <3>2
    <3> QED  BY <3>2, <3>3, <3>4, MaxIs
  <2>4. Inputs(s, m) # {}  BY <1>1, <1>3
  <2>5. Max(batch) \in 1..Len(s)  BY <2>2
  <2>6. s[Max(batch)] \in Report  BY <2>5
  <2>7. s[Max(batch)].button \in BOOLEAN /\ s[Max(batch)].headset \in BOOLEAN
    BY <2>6 DEF Report
  <2> QED  BY <1>3, <2>2, <2>3, <2>4, <2>7 DEF Pressed, HeadsetBit
<1> QED  BY <1>2, <1>3

\* One more report: only an input report whose button was up before, and is
\* down now, is one more press.
LEMMA OneMoreReport ==
  ASSUME NEW s \in Seq(Report), NEW n \in Nat, n < Len(s)
  PROVE  /\ s[n + 1].kind # "input" =>
              /\ Inputs(s, n + 1) = Inputs(s, n)
              /\ Pressed(s, n + 1) = Pressed(s, n)
              /\ HeadsetBit(s, n + 1) = HeadsetBit(s, n)
              /\ PressesOf(s, n + 1) = PressesOf(s, n)
         /\ s[n + 1].kind = "input" =>
              /\ Pressed(s, n + 1) = s[n + 1].button
              /\ HeadsetBit(s, n + 1) = s[n + 1].headset
              /\ PressesOf(s, n + 1) =
                   IF s[n + 1].button /\ ~Pressed(s, n)
                   THEN PressesOf(s, n) \cup {n + 1} ELSE PressesOf(s, n)
<1> DEFINE batch == {i \in (n + 1)..(n + 1) : s[i].kind = "input"}
<1>1. Inputs(s, n + 1) = Inputs(s, n) \cup batch  BY DEF Inputs
<1>2. CASE s[n + 1].kind # "input"
  <2>1. batch = {}  BY <1>2
  <2>2. Inputs(s, n + 1) = Inputs(s, n)  BY <1>1, <2>1
  <2> QED  BY <1>2, <2>2 DEF Pressed, HeadsetBit, PressesOf
<1>3. CASE s[n + 1].kind = "input"
  <2>1. batch = {n + 1}  BY <1>3
  <2>2. Max(batch) = n + 1
    <3>1. {n + 1} \in SUBSET Int /\ n + 1 \in {n + 1}  OBVIOUS
    <3>2. \A y \in {n + 1} : y <= n + 1  OBVIOUS
    <3> HIDE DEF batch
    <3>3. Max({n + 1}) = n + 1  BY <3>1, <3>2, MaxIs
    <3> QED  BY <2>1, <3>3
  <2>3. /\ Pressed(s, n + 1) = s[n + 1].button
        /\ HeadsetBit(s, n + 1) = s[n + 1].headset
    <3>1. n + 1 \in n..Len(s) /\ batch # {}  BY <2>1
    <3>2. /\ Pressed(s, n + 1) = s[Max(batch)].button
          /\ HeadsetBit(s, n + 1) = s[Max(batch)].headset
      BY <3>1, BatchOfReports
    <3> QED  BY <2>2, <3>2
  <2>4. Inputs(s, n + 1) = Inputs(s, n) \cup {n + 1}  BY <1>1, <2>1
  <2>5. (n + 1) - 1 = n  OBVIOUS
  <2>6. PressesOf(s, n + 1) =
          IF s[n + 1].button /\ ~Pressed(s, n)
          THEN PressesOf(s, n) \cup {n + 1} ELSE PressesOf(s, n)
    BY <2>4, <2>5 DEF PressesOf
  <2> QED  BY <1>3, <2>3, <2>6
<1> QED  BY <1>2, <1>3

\* The mute state follows: a press toggles it.
LEMMA OneMorePress ==
  ASSUME NEW s \in Seq(Report), NEW n \in Nat, n < Len(s),
         NEW toggles \in BOOLEAN
  PROVE  /\ s[n + 1].kind # "input" =>
              Muted(s, toggles, n + 1) = Muted(s, toggles, n)
         /\ s[n + 1].kind = "input" =>
              Muted(s, toggles, n + 1) =
                IF toggles
                THEN Muted(s, toggles, n) # (s[n + 1].button /\ ~Pressed(s, n))
                ELSE FALSE
<1>1. /\ IsFiniteSet(PressesOf(s, n))
      /\ Cardinality(PressesOf(s, n)) \in Nat /\ n + 1 \notin PressesOf(s, n)
  <2>1. PressesOf(s, n) \in SUBSET (1..n)  BY DEF PressesOf, Inputs
  <2>2. n + 1 \notin PressesOf(s, n)  BY <2>1
  <2> QED  BY <2>1, <2>2, FiniteUpTo
<1>2. CASE s[n + 1].kind # "input"  BY <1>2, OneMoreReport DEF Muted
<1>3. CASE s[n + 1].kind = "input" /\ s[n + 1].button /\ ~Pressed(s, n)
  <2>1. PressesOf(s, n + 1) = PressesOf(s, n) \cup {n + 1}
    BY <1>3, OneMoreReport
  <2>2. Cardinality(PressesOf(s, n + 1)) = Cardinality(PressesOf(s, n)) + 1
    BY <1>1, <2>1, FS_AddElement
  <2>3. Cardinality(PressesOf(s, n + 1)) % 2 = 1
        <=> Cardinality(PressesOf(s, n)) % 2 # 1
    BY <1>1, <2>2
  <2> QED  BY <1>3, <2>3, Zenon DEF Muted
<1>4. CASE s[n + 1].kind = "input" /\ ~(s[n + 1].button /\ ~Pressed(s, n))
  <2>1. PressesOf(s, n + 1) = PressesOf(s, n)  BY <1>4, OneMoreReport
  <2> QED  BY <1>4, <2>1 DEF Muted
<1> QED  BY <1>2, <1>3, <1>4

-----------------------------------------------------------------------------
(* The inductive invariant.                                                *)

\* While the hidraw node is the only source, the button's level and the mute
\* state are those of the reports read from it ...
ButtonFollows ==
  debug = "absent" => /\ lastMicButton = Pressed(sent, btSeen)
                      /\ micMuted = Muted(sent, buttonMute, btSeen)

\* ... and the packets written come from it.  With two sources, each has
\* written only packets it has read, in order.
PacketsFollow ==
  /\ MicPacketsInOrder
  /\ \A n \in 1..Len(written) :
       /\ written[n].source = "bt" => written[n].packet <= btSeen
       /\ written[n].source = "debug" => written[n].packet <= debugSeen
       /\ debug = "absent" =>
            /\ written[n].source = "bt"
            /\ Muted(sent, buttonMute, written[n].packet) => written[n].silent

\* The headset flag is what one of the sources has come to, unless debugfs has
\* failed and no input report was read since.
HeadsetOfASource ==
  \/ headset = HeadsetBit(sent, btSeen)
  \/ debug = "open" /\ headset = HeadsetBit(sent, debugSeen)
  \/ debug = "failed" /\ OfKind((failedAt + 1)..btSeen, "input") = {}

IInv == TypeOK /\ ButtonFollows /\ PacketsFollow /\ HeadsetOfASource

-----------------------------------------------------------------------------
(* What the shared parts of the actions do.                                *)

Packets == [packet : 1..Len(sent), source : {"bt", "debug"}, silent : BOOLEAN]

\* What is written of a batch: some of its packets, in order.
LEMMA WriteMicAdds ==
  ASSUME TypeOK, NEW reports \in SUBSET (1..Len(sent)),
         NEW source \in {"bt", "debug"}, WriteMic(reports, source)
  PROVE  /\ written' \in Seq(Packets)
         /\ Len(written) <= Len(written')
         /\ \A n \in 1..Len(written) : written'[n] = written[n]
         /\ \A n \in (Len(written) + 1)..Len(written') :
              /\ written'[n].packet \in reports
              /\ written'[n].source = source
              /\ written'[n].silent = micMuted
         /\ \A m, n \in (Len(written) + 1)..Len(written') :
              m < n => written'[m].packet < written'[n].packet
<1> DEFINE New(P) == [n \in 1..Cardinality(P) |->
                        [packet |-> NthOf(P, n), source |-> source,
                         silent |-> micMuted]]
<1>1. PICK kept \in SUBSET OfKind(reports, "mic") : written' = written \o New(kept)
  BY DEF WriteMic
<1>2. kept \subseteq reports /\ kept \in SUBSET (1..Len(sent)) /\ Len(sent) \in Nat
  BY DEF OfKind, TypeOK
<1>3. Cardinality(kept) \in Nat  BY <1>2, FiniteUpTo
<1>4. /\ \A n \in 1..Cardinality(kept) : NthOf(kept, n) \in kept
      /\ \A m, n \in 1..Cardinality(kept) :
           m < n => NthOf(kept, m) < NthOf(kept, n)
  BY <1>2, NthInOrder
<1> DEFINE new == New(kept)
<1>5. /\ new \in Seq(Packets) /\ Len(new) = Cardinality(kept)
      /\ \A n \in 1..Len(new) : new[n] = [packet |-> NthOf(kept, n),
                                          source |-> source, silent |-> micMuted]
  <2>1. micMuted \in BOOLEAN  BY DEF TypeOK
  <2>2. \A n \in 1..Cardinality(kept) :
          [packet |-> NthOf(kept, n), source |-> source, silent |-> micMuted]
            \in Packets
    BY <1>2, <1>4, <2>1 DEF Packets
  <2>3. new \in [1..Cardinality(kept) -> Packets]  BY <2>2
  <2> QED  BY <1>3, <2>3
<1>6. written \in Seq(Packets) /\ written' = written \o new
  BY <1>1 DEF TypeOK, Packets
<1> HIDE DEF new
<1>7. /\ written' \in Seq(Packets) /\ Len(written') = Len(written) + Len(new)
      /\ Len(written) \in Nat /\ Len(new) \in Nat
      /\ \A n \in 1..Len(written) : written'[n] = written[n]
      /\ \A n \in (Len(written) + 1)..Len(written') :
           written'[n] = new[n - Len(written)]
  <2>1. new \in Seq(Packets)  BY <1>5
  <2>2. /\ written' \in Seq(Packets) /\ Len(written') = Len(written) + Len(new)
        /\ Len(written) \in Nat /\ Len(new) \in Nat
    BY <1>6, <2>1
  <2>3. \A n \in 1..(Len(written) + Len(new)) :
          written'[n] = IF n <= Len(written) THEN written[n]
                                             ELSE new[n - Len(written)]
    BY <1>6, <2>1
  <2>4. \A n \in 1..Len(written) : written'[n] = written[n]  BY <2>2, <2>3
  <2>5. \A n \in (Len(written) + 1)..Len(written') :
          written'[n] = new[n - Len(written)]
    BY <2>2, <2>3
  <2> QED  BY <2>2, <2>4, <2>5
<1>8. \A n \in (Len(written) + 1)..Len(written') :
        /\ n - Len(written) \in 1..Cardinality(kept)
        /\ written'[n].packet = NthOf(kept, n - Len(written))
        /\ written'[n].source = source
        /\ written'[n].silent = micMuted
  <2> TAKE n \in (Len(written) + 1)..Len(written')
  <2> DEFINE at == n - Len(written)
  <2>1. at \in 1..Len(new)  BY <1>7
  <2>2. written'[n] = new[at]  BY <1>7
  <2> HIDE DEF at
  <2>3. written'[n] = [packet |-> NthOf(kept, at), source |-> source,
                       silent |-> micMuted]
    BY <1>5, <2>1, <2>2
  <2>4. /\ written'[n].packet = NthOf(kept, at)
        /\ written'[n].source = source /\ written'[n].silent = micMuted
    BY <2>3
  <2> QED  BY <1>5, <2>1, <2>4 DEF at
<1>9. \A n \in (Len(written) + 1)..Len(written') : written'[n].packet \in reports
  BY <1>2, <1>4, <1>8
<1>10. \A m, n \in (Len(written) + 1)..Len(written') :
         m < n => written'[m].packet < written'[n].packet
  <2> TAKE m, n \in (Len(written) + 1)..Len(written')
  <2>1. m < n => m - Len(written) < n - Len(written)  BY <1>7
  <2> QED  BY <1>4, <1>8, <2>1
<1> QED  BY <1>7, <1>8, <1>9, <1>10

\* A source that writes packets behind those it has written keeps the order.
LEMMA WriteMicInOrder ==
  ASSUME TypeOK, MicPacketsInOrder, NEW read \in Nat,
         NEW reports \in SUBSET (1..Len(sent)), \A i \in reports : read < i,
         NEW source \in {"bt", "debug"}, WriteMic(reports, source),
         \A n \in 1..Len(written) :
           written[n].source = source => written[n].packet <= read
  PROVE  MicPacketsInOrder'
<1>1. /\ written' \in Seq(Packets)
      /\ Len(written) <= Len(written')
      /\ \A n \in 1..Len(written) : written'[n] = written[n]
      /\ \A n \in (Len(written) + 1)..Len(written') :
           written'[n].packet \in reports /\ written'[n].source = source
      /\ \A m, n \in (Len(written) + 1)..Len(written') :
           m < n => written'[m].packet < written'[n].packet
  BY WriteMicAdds
<1>2. /\ Len(written) \in Nat /\ Len(written') \in Nat
      /\ \A n \in 1..Len(written) : written[n].packet \in Int
      /\ \A i \in reports : i \in Int
  <2>1. written \in Seq(Packets)  BY DEF TypeOK, Packets
  <2>2. \A n \in 1..Len(written) : written[n] \in Packets  BY <2>1
  <2> QED  BY <1>1, <2>1, <2>2 DEF Packets
<1>3. SUFFICES ASSUME NEW m \in 1..Len(written'), NEW n \in 1..Len(written'),
                      m < n, written'[m].source = written'[n].source
               PROVE  written'[m].packet < written'[n].packet
  BY DEF MicPacketsInOrder
<1>4. CASE n <= Len(written)
  <2>1. m \in 1..Len(written) /\ n \in 1..Len(written)  BY <1>2, <1>3, <1>4
  <2> QED  BY <1>1, <1>3, <2>1 DEF MicPacketsInOrder
<1>5. CASE m > Len(written)
  <2>1. /\ m \in (Len(written) + 1)..Len(written')
        /\ n \in (Len(written) + 1)..Len(written')
    BY <1>2, <1>3, <1>5
  <2> QED  BY <1>1, <1>3, <2>1
<1>6. CASE m <= Len(written) /\ n > Len(written)
  <2>1. m \in 1..Len(written) /\ n \in (Len(written) + 1)..Len(written')
    BY <1>2, <1>6
  <2>2. written[m].packet <= read  BY <1>1, <1>3, <2>1
  <2>3. read < written'[n].packet /\ written'[n].packet \in Int
    BY <1>1, <1>2, <2>1
  <2> QED  BY <1>1, <1>2, <2>1, <2>2, <2>3
<1> QED  BY <1>2, <1>4, <1>5, <1>6

LEMMA MicButtonTypes ==
  ASSUME TypeOK, NEW pressed \in BOOLEAN, HandleMicButton(pressed)
  PROVE  lastMicButton' \in BOOLEAN /\ micMuted' \in BOOLEAN
BY DEF TypeOK, HandleMicButton

\* What a drain leaves behind, as far as the headset and the types go.
LEMMA DrainUpToEffect ==
  ASSUME TypeOK, NEW n \in debugSeen..Len(sent), DrainUpTo(n)
  PROVE  /\ debugSeen' = n
         /\ lastMicButton' \in BOOLEAN /\ micMuted' \in BOOLEAN
         /\ headset' \in BOOLEAN
         /\ interruptData' \in UsbReport(Len(sent))
         /\ WriteMic((debugSeen + 1)..n, "debug")
         /\ \/ headset' = HeadsetBit(sent, n)
            \/ /\ headset' = headset
               /\ HeadsetBit(sent, n) = HeadsetBit(sent, debugSeen)
<1> DEFINE batch  == (debugSeen + 1)..n
           inputs == OfKind(batch, "input")
<1>1. debugSeen \in Nat /\ Len(sent) \in Nat /\ sent \in Seq(Report)
      /\ n \in Nat
  BY DEF TypeOK
<1>2. debugSeen' = n /\ WriteMic(batch, "debug")  BY DEF DrainUpTo
<1>3. inputs = {i \in (debugSeen + 1)..n : sent[i].kind = "input"}
  BY DEF OfKind
<1>4. CASE inputs = {}
  <2>1. UNCHANGED <<controls, interruptData>>  BY <1>4 DEF DrainUpTo
  <2>2. HeadsetBit(sent, n) = HeadsetBit(sent, debugSeen)
    <3>1. n \in debugSeen..Len(sent)  OBVIOUS
    <3> HIDE DEF inputs
    <3>2. inputs = {} => HeadsetBit(sent, n) = HeadsetBit(sent, debugSeen)
      BY <1>1, <1>3, <3>1, BatchOfReports
    <3> QED  BY <1>4, <3>2
  <2> QED  BY <1>2, <2>1, <2>2 DEF controls, TypeOK
<1>5. CASE inputs # {}
  <2> DEFINE newest == Max(inputs)
  <2>1. newest \in inputs /\ HeadsetBit(sent, n) = sent[newest].headset
    <3> HIDE DEF inputs
    <3> QED  BY <1>1, <1>3, <1>5, BatchOfReports
  <2>2. newest \in 1..Len(sent)  BY <1>1, <1>3, <2>1
  <2>3. sent[newest] \in Report  BY <1>1, <2>2
  <2>4. sent[newest].button \in BOOLEAN /\ sent[newest].headset \in BOOLEAN
    BY <2>3 DEF Report
  <2>5. /\ \E bit \in BOOLEAN :
             interruptData' = [from |-> newest, muted |-> bit]
        /\ headset' = sent[newest].headset
        /\ HandleMicButton(sent[newest].button)
    BY <1>5 DEF DrainUpTo, NewestOf, SetHeadset
  <2> HIDE DEF newest
  <2>6. interruptData' \in UsbReport(Len(sent))  BY <2>2, <2>5 DEF UsbReport
  <2>7. lastMicButton' \in BOOLEAN /\ micMuted' \in BOOLEAN
    BY <2>4, <2>5, MicButtonTypes
  <2> QED  BY <1>2, <2>1, <2>4, <2>5, <2>6, <2>7
<1> QED  BY <1>4, <1>5

\* A drain that ends normally has overtaken the hidraw node.
LEMMA DrainRange ==
  ASSUME TypeOK, NEW n \in Max({btSeen, debugSeen})..Len(sent)
  PROVE  n \in debugSeen..Len(sent)
<1>1. btSeen \in Nat /\ debugSeen \in Nat  BY DEF TypeOK
<1>2. CASE btSeen <= debugSeen
  <2>1. Max({btSeen, debugSeen}) = debugSeen
    <3>1. \A y \in {btSeen, debugSeen} : y <= debugSeen  BY <1>1, <1>2
    <3>2. {btSeen, debugSeen} \in SUBSET Int  BY <1>1
    <3> QED  BY <3>1, <3>2, MaxIs
  <2> QED  BY <2>1
<1>3. CASE debugSeen <= btSeen
  <2>1. Max({btSeen, debugSeen}) = btSeen
    <3>1. \A y \in {btSeen, debugSeen} : y <= btSeen  BY <1>1, <1>3
    <3>2. {btSeen, debugSeen} \in SUBSET Int  BY <1>1
    <3> QED  BY <3>1, <3>2, MaxIs
  <2> QED  BY <1>1, <1>3, <2>1
<1> QED  BY <1>1, <1>2, <1>3

-----------------------------------------------------------------------------
(* The steps.                                                              *)

\* A step that leaves what a part of the invariant speaks of.
LEMMA IdleSteps ==
  ASSUME sent' = sent, btSeen' = btSeen, debug' = debug,
         debugSeen' = debugSeen, failedAt' = failedAt,
         buttonMute' = buttonMute, controls' = controls, written' = written
  PROVE  /\ ButtonFollows => ButtonFollows'
         /\ PacketsFollow => PacketsFollow'
         /\ HeadsetOfASource => HeadsetOfASource'
BY DEF controls, ButtonFollows, PacketsFollow, MicPacketsInOrder,
       HeadsetOfASource, OfKind

LEMMA SeqOfMore ==
  ASSUME NEW S, NEW T, S \subseteq T, NEW s \in Seq(S)
  PROVE  s \in Seq(T)
<1>1. Len(s) \in Nat /\ s \in [1..Len(s) -> T]  OBVIOUS
<1> QED  BY <1>1

\* The controller sends a report: it has been read by nobody yet.
LEMMA EmitStep ==
  ASSUME IInv, NEW report \in Report, Emit(report)
  PROVE  IInv'
<1> USE DEF IInv
<1>1. /\ sent \in Seq(Report) /\ sent' \in Seq(Report)
      /\ Len(sent) \in Nat /\ Len(sent') = Len(sent) + 1
      /\ \A i \in 1..Len(sent) : sent'[i] = sent[i]
  BY DEF TypeOK, Emit
<1>2. btSeen \in 0..Len(sent) /\ debugSeen \in 0..Len(sent)  BY DEF TypeOK
<1>3. /\ btSeen' = btSeen /\ debugSeen' = debugSeen /\ debug' = debug
      /\ buttonMute' = buttonMute /\ lastMicButton' = lastMicButton
      /\ micMuted' = micMuted /\ headset' = headset /\ written' = written
      /\ interruptData' = interruptData /\ host' = host /\ pc' = pc
      /\ failedAt' = failedAt
  BY DEF Emit, controls
<1>4. TypeOK'
  <2>1. Len(sent') <= ReportBound'
    BY <1>1, <1>3, MaxReportsAssumption DEF Emit, ReportBound, TypeOK
  <2>2. interruptData' \in UsbReport(Len(sent'))
    BY <1>1, <1>3 DEF TypeOK, UsbReport
  <2>3. host' \in UsbReport(Len(sent'))
    BY <1>1, <1>3 DEF TypeOK, UsbReport
  <2>4. written' \in Seq(Packets')
    <3>1. Packets \subseteq Packets'  BY <1>1 DEF Packets
    <3>2. written \in Seq(Packets)  BY DEF TypeOK, Packets
    <3> QED  BY <1>3, <3>1, <3>2, SeqOfMore
  <2> QED
    BY <1>1, <1>2, <1>3, <2>1, <2>2, <2>3, <2>4 DEF TypeOK, Packets
<1>5. \A n \in 0..Len(sent) :
        /\ Inputs(sent', n) = Inputs(sent, n)
        /\ Pressed(sent', n) = Pressed(sent, n)
        /\ HeadsetBit(sent', n) = HeadsetBit(sent, n)
        /\ Muted(sent', buttonMute, n) = Muted(sent, buttonMute, n)
  BY <1>1, HistoryStays DEF Muted
<1>6. ButtonFollows'  BY <1>2, <1>3, <1>5 DEF ButtonFollows
<1>7. PacketsFollow'
  <2>1. \A n \in 1..Len(written) : written[n].packet \in 0..Len(sent)
    <3>1. written \in Seq(Packets)  BY DEF TypeOK, Packets
    <3>2. \A n \in 1..Len(written) : written[n] \in Packets  BY <3>1
    <3> QED  BY <1>1, <3>2 DEF Packets
  <2> QED  BY <1>2, <1>3, <1>5, <2>1 DEF PacketsFollow, MicPacketsInOrder
<1>8. HeadsetOfASource'
  <2>1. OfKind((failedAt + 1)..btSeen, "input")'
        = OfKind((failedAt + 1)..btSeen, "input")
    <3>1. failedAt \in Nat  BY DEF TypeOK
    <3>2. \A i \in (failedAt + 1)..btSeen : sent'[i] = sent[i]
      BY <1>1, <1>2, <3>1
    <3> QED  BY <1>3, <3>2 DEF OfKind
  <2> QED  BY <1>2, <1>3, <1>5, <2>1 DEF HeadsetOfASource
<1> QED  BY <1>4, <1>6, <1>7, <1>8

\* A drain only happens with two sources: what concerns a single one is void.
LEMMA DrainStep ==
  ASSUME IInv, Drain \/ DrainFails
  PROVE  IInv'
<1> USE DEF IInv
<1>1. PICK n \in debugSeen..Len(sent) : DrainUpTo(n)
  BY DrainRange DEF Drain, DrainFails
<1>2. /\ debug = "open" /\ pc' = "send"
      /\ \/ debug' = "open" /\ failedAt' = failedAt
         \/ debug' = "failed" /\ failedAt' = btSeen
      /\ UNCHANGED <<sent, btSeen, buttonMute, host>>
  BY DEF Drain, DrainFails, DebugAvailable
<1>3. /\ debugSeen' = n
      /\ lastMicButton' \in BOOLEAN /\ micMuted' \in BOOLEAN
      /\ headset' \in BOOLEAN
      /\ interruptData' \in UsbReport(Len(sent))
      /\ WriteMic((debugSeen + 1)..n, "debug")
      /\ \/ headset' = HeadsetBit(sent, n)
         \/ /\ headset' = headset
            /\ HeadsetBit(sent, n) = HeadsetBit(sent, debugSeen)
  BY <1>1, DrainUpToEffect
<1> DEFINE batch == (debugSeen + 1)..n
<1>4. /\ debugSeen \in Nat /\ n \in Nat /\ n >= debugSeen /\ btSeen \in Nat
      /\ batch \in SUBSET (1..Len(sent)) /\ \A i \in batch : debugSeen < i
      /\ \A i \in batch : i <= n
  BY DEF TypeOK
<1>5. WriteMic(batch, "debug")  BY <1>3
<1> HIDE DEF batch
<1>6. /\ written' \in Seq(Packets)
      /\ \A k \in 1..Len(written) : written'[k] = written[k]
      /\ \A k \in (Len(written) + 1)..Len(written') :
           written'[k].packet \in batch /\ written'[k].source = "debug"
  BY <1>4, <1>5, WriteMicAdds
<1>7. TypeOK'
  <2>1. n \in 0..Len(sent)  BY DEF TypeOK
  <2>2. Len(sent') <= ReportBound'  BY <1>2 DEF TypeOK, ReportBound
  <2>3. failedAt' \in 0..btSeen'  BY <1>2 DEF TypeOK
  <2> QED  BY <1>2, <1>3, <1>6, <2>1, <2>2, <2>3 DEF TypeOK, Packets
<1>8. PacketsFollow'
  <2>1. MicPacketsInOrder'
    BY <1>4, <1>5, WriteMicInOrder DEF PacketsFollow
  <2>2. /\ Len(written) \in Nat /\ Len(written') \in Nat
        /\ \A k \in 1..Len(written) : written[k].packet \in Int
    <3>1. written \in Seq(Packets)  BY DEF TypeOK, Packets
    <3>2. \A k \in 1..Len(written) : written[k] \in Packets  BY <3>1
    <3> QED  BY <1>6, <3>1, <3>2 DEF Packets
  <2>3. \A k \in 1..Len(written') :
          /\ written'[k].source = "bt" => written'[k].packet <= btSeen
          /\ written'[k].source = "debug" => written'[k].packet <= n
    <3> TAKE k \in 1..Len(written')
    <3>1. CASE k \in 1..Len(written)
      BY <1>4, <1>6, <2>2, <3>1 DEF PacketsFollow
    <3>2. CASE k \in (Len(written) + 1)..Len(written')
      BY <1>4, <1>6, <3>2
    <3> QED  BY <2>2, <3>1, <3>2
  <2> QED  BY <1>2, <1>3, <2>1, <2>3 DEF PacketsFollow
<1>9. ButtonFollows'  BY <1>2 DEF ButtonFollows
<1>10. HeadsetOfASource'
  <2>1. debug' = "failed" => OfKind((failedAt + 1)..btSeen, "input")' = {}
    BY <1>2, <1>4 DEF OfKind
  <2>2. \/ headset' = HeadsetBit(sent, n)
        \/ headset' = HeadsetBit(sent, btSeen)
    BY <1>2, <1>3 DEF HeadsetOfASource
  <2> QED  BY <1>2, <1>3, <2>1, <2>2 DEF HeadsetOfASource
<1> QED  BY <1>7, <1>8, <1>9, <1>10

\* Nothing is read.
LEMMA NoReadStep ==
  ASSUME IInv,
         \/ SkipDrain \/ UsbSend \/ UsbSendFails \/ SendNotDue \/ WaitEnds
         \/ UNCHANGED vars
  PROVE  IInv'
<1> USE DEF IInv
<1>1. /\ sent' = sent /\ btSeen' = btSeen /\ debugSeen' = debugSeen
      /\ debug' = debug /\ buttonMute' = buttonMute /\ controls' = controls
      /\ written' = written /\ failedAt' = failedAt
      /\ pc' \in {pc, "drain", "send", "wait"}
  BY DEF SkipDrain, UsbSend, UsbSendFails, SendNotDue, WaitEnds, vars, controls
<1>2. /\ interruptData' \in UsbReport(Len(sent))
      /\ host' \in UsbReport(Len(sent))
  <2>1. SyncedMute(interruptData, micMuted) \in UsbReport(Len(sent))
    BY DEF SyncedMute, UsbReport, TypeOK
  <2> QED
    BY <2>1 DEF SkipDrain, UsbSend, UsbSendFails, SendNotDue, WaitEnds, vars,
                TypeOK
<1>3. TypeOK'  BY <1>1, <1>2 DEF TypeOK, controls, ReportBound
<1> QED  BY <1>1, <1>3, IdleSteps

\* The hidraw node's next report is one more for the button, the mute state,
\* the headset or the microphone stream.
LEMMA BtRecvStep ==
  ASSUME IInv, BtRecv
  PROVE  IInv'
<1> USE DEF IInv
<1> DEFINE i == btSeen + 1
<1>1. /\ sent \in Seq(Report) /\ Len(sent) \in Nat /\ btSeen \in Nat
      /\ btSeen < Len(sent) /\ i \in 1..Len(sent)
      /\ btSeen' = i /\ pc' = "drain"
      /\ UNCHANGED <<sent, debugSeen, debug, buttonMute, host, failedAt>>
      /\ failedAt \in 0..btSeen /\ failedAt \in 0..btSeen'
  BY DEF BtRecv, TypeOK
<1>2. sent[i] \in Report  BY <1>1
<1>3. sent[i].button \in BOOLEAN /\ sent[i].headset \in BOOLEAN
  BY <1>2 DEF Report
<1>4. buttonMute \in BOOLEAN  BY DEF TypeOK
<1>7. \A n \in 1..Len(written) : written[n].packet \in Nat
  <2>1. written \in Seq(Packets)  BY DEF TypeOK, Packets
  <2>2. \A n \in 1..Len(written) : written[n] \in Packets  BY <2>1
  <2> QED  BY <2>2 DEF Packets
<1>8. CASE sent[i].kind \in {"short", "mic"} /\ UNCHANGED controls
  <2>1. /\ HeadsetBit(sent, i) = HeadsetBit(sent, btSeen)
        /\ Pressed(sent, i) = Pressed(sent, btSeen)
    BY <1>1, <1>8, OneMoreReport
  <2>2. Muted(sent, buttonMute, i) = Muted(sent, buttonMute, btSeen)
    BY <1>1, <1>4, <1>8, OneMorePress
  <2>3. ButtonFollows' /\ HeadsetOfASource'
    <3>1. OfKind((failedAt + 1)..btSeen, "input")'
          = OfKind((failedAt + 1)..btSeen, "input")
      BY <1>1, <1>8 DEF OfKind
    <3>2. HeadsetOfASource'
      BY <1>1, <1>8, <2>1, <3>1 DEF HeadsetOfASource, controls
    <3> QED  BY <1>1, <1>8, <2>1, <2>2, <3>2 DEF ButtonFollows, controls
  <2>4. CASE sent[i].kind = "short" /\ ApplyShortInputReport(i)
    <3>1. interruptData' \in UsbReport(Len(sent)) /\ written' = written
      <4>1. interruptData \in UsbReport(Len(sent))  BY DEF TypeOK
      <4> QED  BY <1>1, <2>4, <4>1 DEF ApplyShortInputReport, UsbReport
    <3>2. TypeOK'
      BY <1>1, <1>8, <3>1 DEF TypeOK, controls, ReportBound
    <3>3. PacketsFollow'
      BY <1>1, <1>7, <2>4, <3>1 DEF PacketsFollow, MicPacketsInOrder
    <3> QED  BY <2>3, <3>2, <3>3
  <2>5. CASE /\ sent[i].kind = "mic" /\ WriteMic({i}, "bt")
             /\ interruptData' = interruptData
    <3>1. {i} \in SUBSET (1..Len(sent)) /\ \A k \in {i} : btSeen < k  BY <1>1
    <3>2. /\ written' \in Seq(Packets) /\ Len(written) <= Len(written')
          /\ \A n \in 1..Len(written) : written'[n] = written[n]
          /\ \A n \in (Len(written) + 1)..Len(written') :
               /\ written'[n].packet \in {i}
               /\ written'[n].source = "bt"
               /\ written'[n].silent = micMuted
      BY <2>5, <3>1, WriteMicAdds
    <3>3. TypeOK'
      BY <1>1, <1>8, <2>5, <3>2 DEF TypeOK, controls, ReportBound, Packets
    <3>4. MicPacketsInOrder'
      BY <1>1, <2>5, <3>1, WriteMicInOrder DEF PacketsFollow
    <3>5. Len(written) \in Nat /\ Len(written') \in Nat
      BY <3>2 DEF TypeOK
    <3>6. \A n \in 1..Len(written') :
            /\ written'[n].source = "bt" => written'[n].packet <= i
            /\ written'[n].source = "debug" => written'[n].packet <= debugSeen
            /\ debug = "absent" =>
                 /\ written'[n].source = "bt"
                 /\ Muted(sent, buttonMute, written'[n].packet)
                    => written'[n].silent
      <4> TAKE n \in 1..Len(written')
      <4>1. CASE n \in 1..Len(written)
        BY <1>1, <1>7, <3>2, <4>1 DEF PacketsFollow
      <4>2. CASE n \in (Len(written) + 1)..Len(written')
        <5>1. /\ written'[n].packet = i /\ written'[n].source = "bt"
              /\ written'[n].silent = micMuted
          BY <3>2, <4>2
        <5>2. debug = "absent" => micMuted = Muted(sent, buttonMute, i)
          BY <2>2 DEF ButtonFollows
        <5> QED  BY <1>1, <5>1, <5>2
      <4> QED  BY <3>5, <4>1, <4>2
    <3>7. PacketsFollow'  BY <1>1, <3>4, <3>6 DEF PacketsFollow
    <3> QED  BY <2>3, <3>3, <3>7
  <2> QED
    BY <1>1, <1>8, <2>4, <2>5 DEF BtRecv
<1>9. CASE sent[i].kind = "input" /\ ApplyInputReport(i)
  <2>1. /\ HandleMicButton(sent[i].button) /\ headset' = sent[i].headset
        /\ interruptData' = SyncedMute([from |-> i, muted |-> FALSE], micMuted')
        /\ written' = written
    BY <1>9 DEF ApplyInputReport, SetHeadset
  <2>2. lastMicButton' \in BOOLEAN /\ micMuted' \in BOOLEAN
    BY <1>3, <2>1, MicButtonTypes
  <2>3. interruptData' \in UsbReport(Len(sent))
    BY <1>1, <2>1, <2>2 DEF SyncedMute, UsbReport
  <2>4. TypeOK'
    BY <1>1, <1>3, <2>1, <2>2, <2>3 DEF TypeOK, ReportBound
  <2>5. HeadsetOfASource'
    BY <1>1, <1>9, <2>1, OneMoreReport DEF HeadsetOfASource
  <2>6. ButtonFollows'
    <3>1. Pressed(sent, i) = sent[i].button  BY <1>1, <1>9, OneMoreReport
    <3>2. Muted(sent, buttonMute, i) =
            IF buttonMute
            THEN Muted(sent, buttonMute, btSeen)
                 # (sent[i].button /\ ~Pressed(sent, btSeen))
            ELSE FALSE
      BY <1>1, <1>4, <1>9, OneMorePress
    <3> QED  BY <1>1, <2>1, <3>1, <3>2 DEF ButtonFollows, HandleMicButton
  <2>7. PacketsFollow'
    BY <1>1, <1>7, <2>1 DEF PacketsFollow, MicPacketsInOrder
  <2> QED  BY <2>4, <2>5, <2>6, <2>7
<1> QED
  BY <1>1, <1>8, <1>9 DEF BtRecv, ApplyShortInputReport

-----------------------------------------------------------------------------
(* The invariant holds, and what the runs check follows from it.           *)

LEMMA InitInvariant == Init => IInv
<1> SUFFICES ASSUME Init  PROVE IInv  OBVIOUS
<1>1. /\ sent = << >> /\ written = << >> /\ btSeen = 0 /\ debugSeen = 0
      /\ headset = FALSE /\ lastMicButton = FALSE /\ micMuted = FALSE
  BY DEF Init
<1>2. Inputs(sent, 0) = {} /\ PressesOf(sent, 0) = {}
  BY DEF Inputs, PressesOf
<1>3. Cardinality({}) = 0  BY FS_EmptySet
<1>4. ~Pressed(sent, 0) /\ ~HeadsetBit(sent, 0)
  BY <1>2 DEF Pressed, HeadsetBit
<1>5. Muted(sent, buttonMute, 0) = FALSE  BY <1>2, <1>3 DEF Muted
<1>6. TypeOK
  <2>1. Len(sent) = 0 /\ sent \in Seq(Report) /\ Len(sent) <= ReportBound
    BY <1>1, MaxReportsAssumption DEF ReportBound
  <2>2. written \in Seq(Packets)  BY <1>1
  <2>3. /\ interruptData \in UsbReport(Len(sent))
        /\ host \in UsbReport(Len(sent))
    BY <2>1 DEF Init, UsbReport
  <2>4. debug \in {"open", "absent", "failed"}
    BY DebugAtStartAssumption DEF Init
  <2>5. btSeen \in 0..Len(sent) /\ debugSeen \in 0..Len(sent)
    BY <1>1, <2>1
  <2>6. /\ buttonMute \in BOOLEAN /\ lastMicButton \in BOOLEAN
        /\ micMuted \in BOOLEAN /\ headset \in BOOLEAN
        /\ pc \in {"drain", "send", "wait"}
    BY DEF Init
  <2>7. failedAt \in 0..btSeen
    <3>1. failedAt = 0  BY DEF Init
    <3> QED  BY <1>1, <3>1
  <2> QED  BY <2>1, <2>2, <2>3, <2>4, <2>5, <2>6, <2>7 DEF TypeOK, Packets
<1>7. ButtonFollows  BY <1>1, <1>4, <1>5 DEF ButtonFollows, Pressed
<1>8. PacketsFollow
  <2>1. Len(written) = 0  BY <1>1
  <2> QED  BY <2>1 DEF PacketsFollow, MicPacketsInOrder
<1>9. HeadsetOfASource
  BY <1>1, <1>4 DEF HeadsetOfASource, HeadsetBit
<1> QED  BY <1>6, <1>7, <1>8, <1>9 DEF IInv

LEMMA StepInvariant == IInv /\ [Next]_vars => IInv'
BY EmitStep, DrainStep, NoReadStep, BtRecvStep DEF Next, Loop

\* The model of the input path keeps its invariant.
THEOREM Invariance == Spec => []IInv
BY InitInvariant, StepInvariant, PTL DEF Spec

\* The variables have their types; in particular every packet written to the
\* USB microphone is a report the controller has sent, also when one drain
\* reads several.
THEOREM TypeCorrect == Spec => []TypeOK
<1>1. IInv => TypeOK  BY DEF IInv
<1> QED  BY <1>1, Invariance, PTL

\* The presses the properties count are those of the lemmas.
LEMMA PressesAre ==
  ASSUME NEW n \in 0..Len(sent), sent \in Seq(Report)
  PROVE  MutedAfter(n) = Muted(sent, buttonMute, n)
<1> DEFINE inputs == OfKind(1..n, "input")
           before(i) == {j \in inputs : j < i}
<1>1. inputs = Inputs(sent, n)  BY DEF OfKind, Inputs
<1>2. \A i \in inputs : before(i) = Inputs(sent, i - 1)
  BY <1>1 DEF Inputs
<1>3. \A i \in inputs :
        (before(i) = {} \/ ~sent[Max(before(i))].button)
        <=> ~Pressed(sent, i - 1)
  BY <1>2 DEF Pressed
<1>4. Presses(n) = {i \in inputs :
                      /\ sent[i].button
                      /\ before(i) = {} \/ ~sent[Max(before(i))].button}
  BY DEF Presses
<1>5. Presses(n) = PressesOf(sent, n)
  <2> HIDE DEF inputs, before
  <2> QED  BY <1>1, <1>3, <1>4 DEF PressesOf
<1> QED  BY <1>5 DEF MutedAfter, Muted

\* Where the hidraw node is the only source, each press of the mic button has
\* toggled the mute exactly once when everything sent is read, for any number
\* of reports and any order of rounds, sends and reads.
THEOREM SingleSourceMute == Spec => []MuteFollowsSingleSource
<1>1. ASSUME IInv  PROVE MuteFollowsSingleSource
  <2>1. Len(sent) \in 0..Len(sent) /\ sent \in Seq(Report)
    BY <1>1 DEF IInv, TypeOK
  <2>2. MutedAfter(Len(sent)) = Muted(sent, buttonMute, Len(sent))
    BY <2>1, PressesAre
  <2> QED
    BY <1>1, <2>2 DEF IInv, ButtonFollows, MuteFollowsSingleSource,
                      MuteFollowsButton, AllRead
<1> QED  BY <1>1, Invariance, PTL

\* With a single source, a packet the controller sent while muted is silence.
THEOREM SilentWhileMuted == Spec => []MutedMicIsSilent
<1>1. ASSUME IInv  PROVE MutedMicIsSilent
  <2>1. sent \in Seq(Report) /\ written \in Seq(Packets)
    BY <1>1 DEF IInv, TypeOK, Packets
  <2>2. \A n \in 1..Len(written) : written[n].packet \in 0..Len(sent)
    <3>1. \A n \in 1..Len(written) : written[n] \in Packets  BY <2>1
    <3> QED  BY <2>1, <3>1 DEF Packets
  <2>3. \A n \in 1..Len(written) :
          MutedAfter(written[n].packet)
          = Muted(sent, buttonMute, written[n].packet)
    BY <2>1, <2>2, PressesAre
  <2> QED  BY <1>1, <2>3 DEF IInv, PacketsFollow, MutedMicIsSilent
<1> QED  BY <1>1, Invariance, PTL

\* Each source writes its packets in the order sent and none twice, with one
\* source or two, for any number of reports, whichever packets get lost.
THEOREM PacketsInOrder == Spec => []MicPacketsInOrder
<1>1. IInv => MicPacketsInOrder  BY DEF IInv, PacketsFollow
<1> QED  BY <1>1, Invariance, PTL

\* The headset flag is that of the newest report once both sources are read,
\* however they overtook each other, and also after debugfs has failed, from
\* the next input report on.
THEOREM HeadsetSettles == Spec => []HeadsetFollows
<1>1. ASSUME IInv  PROVE HeadsetFollows
  <2> SUFFICES ASSUME AllRead, OfKind(1..Len(sent), "input") # {},
                      debug = "failed" => OfKind(SinceFailure, "input") # {}
               PROVE  headset = sent[Max(OfKind(1..Len(sent), "input"))].headset
    BY DEF HeadsetFollows
  <2>1. OfKind(1..Len(sent), "input") = Inputs(sent, Len(sent))
    BY DEF OfKind, Inputs
  <2>2. headset = HeadsetBit(sent, Len(sent))
    <3>1. btSeen = Len(sent) /\ (debug = "open" => debugSeen = Len(sent))
      BY DEF AllRead, DebugAvailable
    <3>2. debug = "failed" => OfKind((failedAt + 1)..btSeen, "input") # {}
      BY <3>1 DEF SinceFailure
    <3> QED  BY <1>1, <3>1, <3>2 DEF IInv, HeadsetOfASource
  <2>3. Inputs(sent, Len(sent)) \in SUBSET (0..Len(sent))
        /\ Inputs(sent, Len(sent)) # {} /\ Len(sent) \in Nat
    BY <1>1, <2>1 DEF IInv, TypeOK, Inputs
  <2>4. Max(Inputs(sent, Len(sent))) \in Inputs(sent, Len(sent))
    BY <2>3, MaxOf
  <2>5. Max(Inputs(sent, Len(sent))) \in 1..Len(sent)  BY <2>4 DEF Inputs
  <2>6. sent[Max(Inputs(sent, Len(sent)))] \in Report
    BY <1>1, <2>5 DEF IInv, TypeOK
  <2>7. sent[Max(Inputs(sent, Len(sent)))].headset \in BOOLEAN
    BY <2>6 DEF Report
  <2> QED  BY <2>1, <2>2, <2>3, <2>7 DEF HeadsetBit
<1> QED  BY <1>1, Invariance, PTL

=============================================================================
