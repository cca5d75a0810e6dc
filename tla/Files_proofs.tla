---------------------------- MODULE Files_proofs ----------------------------
(***************************************************************************)
(* Proofs about the two programs that keep a file over their crashes: the  *)
(* vote journal and the faucet.                                            *)
(*                                                                         *)
(* The journal, for any number of handles and of votes: every acknowledged *)
(* vote survives, and the file implements the log that the rounds are      *)
(* written against.  The faucet, for any requests, commands, limits and    *)
(* coins: it keeps to its limits over restarts, and no grant undoes one.   *)
(***************************************************************************)
EXTENDS FileJournal, Faucet, TLAPS, FiniteSetTheorems, SequenceTheorems, WellFoundedInduction

-----------------------------------------------------------------------------
(* The vote journal. *)

\* A content is made of records, the last of them perhaps torn, and of no record twice.
Aligned(f) ==
    \A k \in 1 .. Len(f) : f[k].half = k % 3 /\ (k % 3 = 2 => f[k].v = f[k - 1].v)
Once(f) == \A k, l \in 1 .. Len(f) : f[k] = f[l] /\ f[k].half # 0 => k = l
Sound(f) == f \in Seq(Cell) /\ Aligned(f) /\ Once(f)

\* Where the entry v ends, and how many entries a reload of f shows.
End(v) == [v |-> v, half |-> 2]
Shown(f) == (Len(f) + 1) \div 3

\* The file and what was synced of it are such contents, of records that were tried.
Known(f) == \A k \in 1 .. Len(f) : f[k].half # 0 => f[k].v \in used
Contents ==
    /\ Sound(disk) /\ Known(disk)
    /\ file # None => Sound(file) /\ Known(file)
    /\ file = None => disk = <<>> /\ acked = <<>> /\ \A h \in Handles : pc[h] = "closed"

Locked == \A h \in Handles : pc[h] # "closed" => lock = h

\* A handle writes after whole records, and returns to where it began.
Writing == {"written", "failed", "rolledback"}
WriterAt ==
    \A h \in Handles :
        /\ pc[h] \in {"ready", "repaired"} => Len(file) % 3 = 0
        /\ pc[h] \in Writing => before[h] % 3 = 0 /\ before[h] <= Len(file)
        /\ pc[h] = "written" => Len(file) = before[h] + 3
        /\ pc[h] = "rolledback" => Len(file) = before[h]

\* The file begins with the record that ends at k, synced as it is and out of reach of a
\* rollback.
HeldAt(k) ==
    /\ k + 1 <= Len(file) /\ k + 1 <= Len(disk) /\ \A m \in 1 .. k + 1 : disk[m] = file[m]
    /\ \A h \in Handles : pc[h] \in Writing => k + 1 <= before[h]
AckedHeld ==
    \A i \in DOMAIN acked : \E k \in Nat \ {0} : file[k] = End(acked[i]) /\ HeldAt(k)
AckedOrdered ==
    \A i, j \in DOMAIN acked : \A k, l \in 1 .. Len(file) :
        i < j /\ file[k] = End(acked[i]) /\ file[l] = End(acked[j]) => k < l

\* What was synced shows no entry that the file does not, but records that may yet be
\* rolled back.
DiskBehind ==
    /\ Shown(disk) <= Shown(file)
    /\ \A n \in 1 .. Shown(disk) : disk[3 * n - 1] = file[3 * n - 1]
    /\ \A h \in Handles : pc[h] \in Writing => 3 * Shown(disk) <= before[h]

NameHeld == acked # <<>> => named

\* What a step may never do: move or cut a record that is held.
Stays ==
    \A k \in Nat \ {0} : HeldAt(k) /\ (\E v : file[k] = End(v))
                          => k + 1 <= Len(file') /\ file'[k] = file[k]

IInv ==
    /\ TypeOK /\ Contents /\ Locked /\ NameHeld
    /\ file # None => WriterAt /\ AckedHeld /\ AckedOrdered /\ DiskBehind

-----------------------------------------------------------------------------
(* What the parser's operators compute on such a content. *)

LEMMA CellIs ==
  ASSUME NEW c \in Cell
  PROVE  /\ c.half \in {0, 1, 2} /\ (c.half = 0 <=> c = NL)
         /\ c.half # 0 => c.v \in Votes /\ c = [v |-> c.v, half |-> c.half]
  BY DEF Cell, NL

LEMMA PairIs ==
  ASSUME NEW S, NEW t \in Seq(S), Len(t) = 2
  PROVE  t = <<t[1], t[2]>>
<1>1. t[1] \in S /\ t[2] \in S
  <2>1. 1 \in 1 .. Len(t) /\ 2 \in 1 .. Len(t)
    OBVIOUS
  <2> QED
    BY <2>1, ElementOfSeq
<1>2. <<t[1], t[2]>> \in Seq(S) /\ Len(<<t[1], t[2]>>) = 2
  BY <1>1
<1> QED
  BY <1>2, SeqEqual

LEMMA MaxIs ==
  ASSUME NEW S, S \subseteq Int, NEW m \in S, \A y \in S : y <= m
  PROVE  Max(S) = m
<1>1. \A x \in S : (\A y \in S : x >= y) => x = m
  OBVIOUS
<1>2. \A y \in S : m >= y
  OBVIOUS
<1> QED
  BY <1>1, <1>2 DEF Max

\* A non-empty set of naturals with a bound has a largest member.
LEMMA MaxMember ==
  ASSUME NEW N \in Nat, NEW S, S \subseteq 0 .. N, S # {}
  PROVE  Max(S) \in S /\ \A y \in S : y <= Max(S)
<1> DEFINE R == OpToRel(<, Nat)
           T == {n \in 0 .. N : N - n \in S}
<1>1. T \subseteq Nat /\ T # {}
  <2>1. PICK s \in S : TRUE
    OBVIOUS
  <2>2. N - s \in T
    <3>1. s \in 0 .. N /\ N - (N - s) = s
      BY <2>1
    <3> QED
      BY <3>1
  <2> QED
    BY <2>2
<1>2. PICK x \in T : \A y \in T : ~ (<<y, x>> \in R)
  <2>1. IsWellFoundedOn(R, Nat)
    BY NatLessThanWellFounded
  <2> HIDE DEF R, T
  <2> QED
    BY <1>1, <2>1, WFMin
<1>3. \A y \in T : x <= y
  <2> SUFFICES ASSUME NEW y \in T, y < x PROVE FALSE
    OBVIOUS
  <2>1. <<y, x>> \in R
    BY <1>1 DEF OpToRel
  <2> QED
    BY <1>2, <2>1
<1>4. N - x \in S
  BY <1>2
<1>5. \A y \in S : y <= N - x
  <2> SUFFICES ASSUME NEW y \in S PROVE y <= N - x
    OBVIOUS
  <2>1. y \in 0 .. N /\ N - (N - y) = y
    OBVIOUS
  <2>2. N - y \in T
    BY <2>1
  <2>3. x <= N - y /\ x \in Nat
    BY <1>1, <1>3, <2>2
  <2> QED
    BY <2>1, <2>3
<1>6. Max(S) = N - x
  <2>1. S \subseteq Int
    OBVIOUS
  <2> HIDE DEF T, R
  <2> QED
    BY <1>4, <1>5, <2>1, MaxIs
<1> QED
  BY <1>4, <1>5, <1>6

\* The newlines are every third cell.
LEMMA NewlinesAre ==
  ASSUME NEW f, Sound(f)
  PROVE  /\ Len(f) \in Nat /\ DOMAIN f = 1 .. Len(f)
         /\ \A k \in 1 .. Len(f) : f[k] \in Cell
         /\ Newlines(f) = {k \in 1 .. Len(f) : k % 3 = 0}
<1>1. Len(f) \in Nat /\ DOMAIN f = 1 .. Len(f) /\ \A k \in 1 .. Len(f) : f[k] \in Cell
  BY DEF Sound
<1>2. \A k \in 1 .. Len(f) : f[k] = NL <=> k % 3 = 0
  BY <1>1, CellIs DEF Sound, Aligned
<1> QED
  BY <1>1, <1>2 DEF Newlines

LEMMA DurableLenIs ==
  ASSUME NEW f, Sound(f)
  PROVE  DurableLen(f) = 3 * (Len(f) \div 3)
<1> DEFINE S == Newlines(f) \cup {0}
           m == 3 * (Len(f) \div 3)
<1>1. Len(f) \in Nat /\ S = {k \in 1 .. Len(f) : k % 3 = 0} \cup {0}
  BY NewlinesAre
<1>2. S \subseteq Int
  BY <1>1
<1>3. m \in S
  BY <1>1
<1>4. \A y \in S : y <= m
  BY <1>1
<1> HIDE DEF S, m
<1>5. Max(S) = m
  BY <1>2, <1>3, <1>4, MaxIs
<1> QED
  BY <1>5 DEF DurableLen, S, m

\* A torn tail is an entry when two cells are left over.
LEMMA TornIs ==
  ASSUME NEW f, Sound(f)
  PROVE  /\ Len(Torn(f)) = Len(f) % 3
         /\ Torn(f) = <<>> <=> Len(f) % 3 = 0
         /\ Torn(f) \in Entries <=> Len(f) % 3 = 2
<1> DEFINE q == 3 * (Len(f) \div 3)
           t == SubSeq(f, q + 1, Len(f))
<1>1. /\ Len(f) \in Nat /\ f \in Seq(Cell) /\ \A k \in 1 .. Len(f) : f[k] \in Cell
      /\ q \in Nat /\ q <= Len(f) /\ Len(f) - q = Len(f) % 3 /\ Len(f) % 3 \in 0 .. 2
  BY NewlinesAre DEF Sound
<1>2. Torn(f) = t
  BY DurableLenIs DEF Torn
<1>3. /\ t \in Seq(Cell) /\ Len(t) = Len(f) - q
      /\ \A i \in 1 .. Len(f) - q : t[i] = f[q + i]
  <2> HIDE DEF q
  <2> QED
    BY <1>1, SubSeqProperties
<1>4. Len(f) % 3 = 2 => t \in Entries
  <2> SUFFICES ASSUME Len(f) % 3 = 2 PROVE t \in Entries
    OBVIOUS
  <2>1. (q + 1) % 3 = 1 /\ (q + 2) % 3 = 2 /\ q + 1 \in 1 .. Len(f) /\ q + 2 \in 1 .. Len(f)
    BY <1>1
  <2>2. f[q + 1].half = 1 /\ f[q + 2].half = 2 /\ f[q + 2].v = f[q + 1].v
    <3>1. (q + 2) - 1 = q + 1
      BY <1>1
    <3> HIDE DEF q
    <3> QED
      BY <2>1, <3>1 DEF Sound, Aligned
  <2>3. f[q + 1] \in Cell /\ f[q + 2] \in Cell
    BY <1>1, <2>1
  <2> DEFINE v == f[q + 1].v
  <2>4. v \in Votes /\ f[q + 1] = [v |-> v, half |-> 1] /\ f[q + 2] = [v |-> v, half |-> 2]
    BY <2>2, <2>3, CellIs
  <2>5. Len(t) = 2 /\ t[1] = f[q + 1] /\ t[2] = f[q + 2]
    <3>1. Len(f) - q = 2
      BY <1>1
    <3> HIDE DEF t, q
    <3> QED
      BY <1>3, <3>1
  <2>6. t = Body(v)
    <3> HIDE DEF t, v, q
    <3> QED
      BY <1>3, <2>4, <2>5, PairIs DEF Body
  <2> QED
    BY <2>4, <2>6 DEF Entries
<1>5. t \in Entries => Len(t) = 2
  <2> HIDE DEF t
  <2> QED
    BY DEF Entries, Body
<1>6. t = <<>> <=> Len(t) = 0
  <2> HIDE DEF t
  <2> QED
    BY <1>3, EmptySeq
<1> HIDE DEF t, q
<1> QED
  BY <1>1, <1>2, <1>3, <1>4, <1>5, <1>6

\* A part of a content from its beginning.
LEMMA PrefixIs ==
  ASSUME NEW f, Sound(f), NEW n \in 0 .. Len(f)
  PROVE  /\ Sound(SubSeq(f, 1, n)) /\ Len(SubSeq(f, 1, n)) = n
         /\ \A k \in 1 .. n : SubSeq(f, 1, n)[k] = f[k]
<1> DEFINE g == SubSeq(f, 1, n)
<1>1. Len(f) \in Nat /\ \A k \in 1 .. Len(f) : f[k] \in Cell
  BY NewlinesAre
<1>2. g \in Seq(Cell) /\ Len(g) = n /\ \A k \in 1 .. n : g[k] = f[k]
  <2>1. \A i \in 1 .. n : f[i] \in Cell
    BY <1>1
  <2>2. /\ g \in Seq(Cell) /\ Len(g) = IF 1 <= n THEN n - 1 + 1 ELSE 0
        /\ \A i \in 1 .. n - 1 + 1 : g[i] = f[1 + i - 1]
    BY <2>1, SubSeqProperties
  <2> HIDE DEF g
  <2> QED
    BY <1>1, <2>2
<1> HIDE DEF g
<1>3. Aligned(g)
  <2> SUFFICES ASSUME NEW k \in 1 .. n
               PROVE  g[k].half = k % 3 /\ (k % 3 = 2 => g[k].v = g[k - 1].v)
    BY <1>2 DEF Aligned
  <2>1. k \in 1 .. Len(f) /\ (k % 3 = 2 => k - 1 \in 1 .. n)
    BY <1>1
  <2> QED
    BY <1>2, <2>1 DEF Sound, Aligned
<1>4. Once(g)
  BY <1>1, <1>2 DEF Sound, Once
<1> QED
  BY <1>2, <1>3, <1>4 DEF Sound, g

\* A record that is whole but for its newline gets it.
LEMMA TerminatedIs ==
  ASSUME NEW f, Sound(f), Len(f) % 3 = 2
  PROVE  /\ Sound(Append(f, NL)) /\ Len(Append(f, NL)) = Len(f) + 1
         /\ \A k \in 1 .. Len(f) : Append(f, NL)[k] = f[k]
         /\ Append(f, NL)[Len(f) + 1] = NL
<1> DEFINE g == Append(f, NL)
<1>1. Len(f) \in Nat /\ f \in Seq(Cell) /\ NL \in Cell
  BY NewlinesAre DEF Sound, Cell
<1>2. /\ g \in Seq(Cell) /\ Len(g) = Len(f) + 1 /\ \A k \in 1 .. Len(f) : g[k] = f[k]
      /\ g[Len(f) + 1] = NL
  BY <1>1, AppendProperties
<1> HIDE DEF g
<1>3. NL.half = 0
  BY DEF NL
<1>4. Aligned(g)
  <2> SUFFICES ASSUME NEW k \in 1 .. Len(f) + 1
               PROVE  g[k].half = k % 3 /\ (k % 3 = 2 => g[k].v = g[k - 1].v)
    BY <1>2 DEF Aligned
  <2>1. CASE k = Len(f) + 1
    <3>1. k % 3 = 0
      BY <1>1, <2>1
    <3> QED
      BY <1>2, <1>3, <2>1, <3>1
  <2>2. CASE k \in 1 .. Len(f)
    <3>1. k % 3 = 2 => k - 1 \in 1 .. Len(f)
      BY <1>1
    <3> QED
      BY <1>2, <2>2, <3>1 DEF Sound, Aligned
  <2> QED
    BY <1>1, <2>1, <2>2
<1>5. Once(g)
  <2> SUFFICES ASSUME NEW k \in 1 .. Len(f) + 1, NEW l \in 1 .. Len(f) + 1,
                      g[k] = g[l], g[k].half # 0
               PROVE  k = l
    BY <1>2 DEF Once
  <2>1. k # Len(f) + 1 /\ l # Len(f) + 1
    BY <1>2, <1>3
  <2>2. k \in 1 .. Len(f) /\ l \in 1 .. Len(f)
    BY <1>1, <2>1
  <2> QED
    BY <1>2, <2>2 DEF Sound, Once
<1> QED
  BY <1>2, <1>4, <1>5 DEF Sound, g

\* Opening keeps every cell but those of a record that lost more than its newline.
LEMMA RepairedIs ==
  ASSUME NEW f, Sound(f)
  PROVE  /\ Sound(Repaired(f)) /\ Len(Repaired(f)) = 3 * Shown(f)
         /\ \A k \in 1 .. Len(f) : k <= 3 * Shown(f) => Repaired(f)[k] = f[k]
         /\ \A k \in 1 .. 3 * Shown(f) : k % 3 # 0 => k \in 1 .. Len(f)
<1>1. Len(f) \in Nat
  BY NewlinesAre
<1>2. CASE Len(f) % 3 = 2
  <2>1. Repaired(f) = Append(f, NL)
    BY <1>2, TornIs DEF Repaired
  <2>2. 3 * Shown(f) = Len(f) + 1
    BY <1>1, <1>2 DEF Shown
  <2>3. \A k \in 1 .. 3 * Shown(f) : k % 3 # 0 => k \in 1 .. Len(f)
    BY <1>1, <1>2, <2>2
  <2> QED
    BY <1>2, <2>1, <2>2, <2>3, TerminatedIs
<1>3. CASE Len(f) % 3 # 2
  <2>1. Repaired(f) = SubSeq(f, 1, Len(f) - (Len(f) % 3))
    BY <1>3, TornIs DEF Repaired
  <2>2. 3 * Shown(f) = Len(f) - (Len(f) % 3) /\ 3 * Shown(f) \in 0 .. Len(f)
    BY <1>1, <1>3 DEF Shown
  <2>3. \A k \in 1 .. 3 * Shown(f) : k \in 1 .. Len(f)
    BY <1>1, <2>2
  <2>4. \A k \in 1 .. Len(f) : k <= 3 * Shown(f) => k \in 1 .. 3 * Shown(f)
    BY <1>1, <2>2
  <2> QED
    BY <2>1, <2>2, <2>3, <2>4, PrefixIs
<1> QED
  BY <1>2, <1>3

\* Such a content can be parsed.
LEMMA SoundIsWellFormed ==
  ASSUME NEW f, Sound(f)
  PROVE  WellFormed(f)
<1> SUFFICES ASSUME NEW i \in Newlines(f) PROVE Text(f, i) \in Entries
  BY DEF WellFormed
<1>1. /\ Len(f) \in Nat /\ Newlines(f) = {k \in 1 .. Len(f) : k % 3 = 0}
      /\ f \in Seq(Cell) /\ \A k \in 1 .. Len(f) : f[k] \in Cell
  BY NewlinesAre DEF Sound
<1>2. i \in 1 .. Len(f) /\ i % 3 = 0
  BY <1>1
<1> DEFINE S == {j \in Newlines(f) : j < i} \cup {0}
<1>3. Max(S) = i - 3
  <2>1. S \subseteq Int
    BY <1>1
  <2>2. i - 3 \in S
    BY <1>1, <1>2
  <2>3. \A y \in S : y <= i - 3
    BY <1>1, <1>2
  <2> HIDE DEF S
  <2> QED
    BY <2>1, <2>2, <2>3, MaxIs
<1> DEFINE t == SubSeq(f, i - 3 + 1, i - 1)
<1>4. Text(f, i) = t
  BY <1>3 DEF Text
<1>5. /\ i - 2 \in 1 .. Len(f) /\ i - 1 \in 1 .. Len(f)
      /\ (i - 2) % 3 = 1 /\ (i - 1) % 3 = 2 /\ (i - 1) - 1 = i - 2 /\ i - 3 + 1 = i - 2 /\ i \in Int
  BY <1>1, <1>2
<1>6. t \in Seq(Cell) /\ Len(t) = 2 /\ t[1] = f[i - 2] /\ t[2] = f[i - 1]
  <2>1. \A k \in i - 2 .. i - 1 : f[k] \in Cell
    BY <1>1, <1>5
  <2> DEFINE m == i - 2
             n == i - 1
  <2>2. m \in Int /\ n \in Int /\ m <= n /\ n - m + 1 = 2 /\ m + 1 - 1 = m /\ m + 2 - 1 = n
    BY <1>5
  <2>3. t = SubSeq(f, m, n)
    BY <1>5
  <2> HIDE DEF m, n, t
  <2>4. \A k \in m .. n : f[k] \in Cell
    BY <2>1 DEF m, n
  <2>5. /\ t \in Seq(Cell) /\ Len(t) = n - m + 1
        /\ \A k \in 1 .. n - m + 1 : t[k] = f[m + k - 1]
    BY <2>2, <2>3, <2>4, SubSeqProperties
  <2>6. Len(t) = 2 /\ t[1] = f[m] /\ t[2] = f[n]
    BY <2>2, <2>5
  <2> QED
    BY <2>5, <2>6 DEF m, n
<1>7. f[i - 2].half = 1 /\ f[i - 1].half = 2 /\ f[i - 1].v = f[i - 2].v
  BY <1>5 DEF Sound, Aligned
<1> DEFINE v == f[i - 2].v
<1>8. v \in Votes /\ f[i - 2] = [v |-> v, half |-> 1] /\ f[i - 1] = [v |-> v, half |-> 2]
  <2>1. f[i - 2] \in Cell /\ f[i - 1] \in Cell
    BY <1>1, <1>5
  <2> QED
    BY <1>7, <2>1, CellIs
<1>9. t = Body(v)
  <2> HIDE DEF t, v
  <2> QED
    BY <1>6, <1>8, PairIs DEF Body
<1> QED
  BY <1>4, <1>8, <1>9 DEF Entries

\* What a reload shows.
LEMMA ReloadIs ==
  ASSUME NEW f, Sound(f)
  PROVE  /\ Shown(f) \in Nat
         /\ ReloadOf(f) = [n \in 1 .. Shown(f) |-> f[3 * n - 1].v]
         /\ \A n \in 1 .. Shown(f) : 3 * n - 1 \in 1 .. Len(f) /\ f[3 * n - 1] = End(ReloadOf(f)[n])
<1> DEFINE g == Repaired(f)
<1>1. /\ Len(f) \in Nat /\ Shown(f) \in Nat /\ Len(g) = 3 * Shown(f)
      /\ \A k \in 1 .. Len(f) : k <= 3 * Shown(f) => g[k] = f[k]
      /\ \A k \in 1 .. Len(f) : f[k] \in Cell
  BY NewlinesAre, RepairedIs DEF Shown
<1> HIDE DEF g
<1>2. Len(g) \div 3 = Shown(f)
  BY <1>1
<1>3. \A n \in 1 .. Shown(f) : 3 * n - 1 \in 1 .. Len(f) /\ 3 * n - 1 <= 3 * Shown(f) /\ (3 * n - 1) % 3 = 2
  BY <1>1 DEF Shown
<1>4. \A n \in 1 .. Shown(f) : g[3 * n - 1] = f[3 * n - 1]
  BY <1>1, <1>3
<1>5. ReloadOf(f) = [n \in 1 .. Shown(f) |-> f[3 * n - 1].v]
  BY <1>2, <1>4 DEF ReloadOf, EntriesOf, g
<1>6. \A n \in 1 .. Shown(f) : f[3 * n - 1] = End(f[3 * n - 1].v)
  <2> SUFFICES ASSUME NEW n \in 1 .. Shown(f) PROVE f[3 * n - 1] = End(f[3 * n - 1].v)
    OBVIOUS
  <2> DEFINE k == 3 * n - 1
  <2>1. k \in 1 .. Len(f) /\ k % 3 = 2
    BY <1>3
  <2> HIDE DEF k
  <2>2. f[k].half = 2 /\ f[k] \in Cell
    BY <1>1, <2>1 DEF Sound, Aligned
  <2>3. f[k] = [v |-> f[k].v, half |-> 2]
    BY <2>2, CellIs
  <2> QED
    BY <2>3 DEF k, End
<1> QED
  BY <1>1, <1>3, <1>5, <1>6

LEMMA LineIs ==
  ASSUME NEW v \in Votes
  PROVE  /\ Line(v) \in Seq(Cell) /\ Len(Line(v)) = 3
         /\ Line(v)[1] = [v |-> v, half |-> 1] /\ Line(v)[2] = End(v) /\ Line(v)[3] = NL
<1>1. [v |-> v, half |-> 1] \in Cell /\ [v |-> v, half |-> 2] \in Cell /\ NL \in Cell
  BY DEF Cell
<1>2. Body(v) \in Seq(Cell) /\ Len(Body(v)) = 2
  BY <1>1 DEF Body
<1>3. Body(v)[1] = [v |-> v, half |-> 1] /\ Body(v)[2] = [v |-> v, half |-> 2]
  BY DEF Body
<1> DEFINE b == Body(v)
           t == Append(b, NL)
<1>4. /\ t \in Seq(Cell) /\ Len(t) = Len(b) + 1
      /\ \A i \in 1 .. Len(b) : t[i] = b[i]
      /\ t[Len(b) + 1] = NL
  <2> HIDE DEF b
  <2>1. b \in Seq(Cell)
    BY <1>2 DEF b
  <2> QED
    BY <1>1, <2>1, AppendProperties
<1>5. Len(t) = 3 /\ t[1] = b[1] /\ t[2] = b[2] /\ t[3] = NL
  <2>1. Len(b) = 2
    BY <1>2
  <2> HIDE DEF b, t
  <2> QED
    BY <1>4, <2>1
<1> QED
  BY <1>3, <1>4, <1>5 DEF Line, End

\* A record, or the beginning of one, after whole records.
Longer(g, f, v, n) ==
    /\ Sound(g) /\ Len(g) = Len(f) + n
    /\ \A k \in 1 .. Len(f) : g[k] = f[k]
    /\ \A k \in Len(f) + 1 .. Len(f) + n : g[k].half # 0 => g[k].v = v
    /\ n >= 2 => g[Len(f) + 2] = End(v)

LEMMA AppendIs ==
  ASSUME NEW f, Sound(f), Len(f) % 3 = 0, NEW v \in Votes, NEW n \in 0 .. 3,
         \A k \in 1 .. Len(f) : f[k].half # 0 => f[k].v # v
  PROVE  Longer(f \o SubSeq(Line(v), 1, n), f, v, n)
<1> DEFINE t == SubSeq(Line(v), 1, n)
           g == f \o t
<1>1. Len(f) \in Nat /\ f \in Seq(Cell)
  BY NewlinesAre DEF Sound
<1>2. t \in Seq(Cell) /\ Len(t) = n /\ \A i \in 1 .. n : t[i] = Line(v)[i]
  <2>1. \A i \in 1 .. n : Line(v)[i] \in Cell
    <3>1. Line(v) \in Seq(Cell) /\ Len(Line(v)) = 3
      BY LineIs
    <3>2. \A i \in 1 .. n : i \in 1 .. 3
      OBVIOUS
    <3> QED
      BY <3>1, <3>2, ElementOfSeq
  <2>2. /\ t \in Seq(Cell) /\ Len(t) = IF 1 <= n THEN n - 1 + 1 ELSE 0
        /\ \A i \in 1 .. n - 1 + 1 : t[i] = Line(v)[1 + i - 1]
    BY <2>1, SubSeqProperties
  <2> HIDE DEF t
  <2> QED
    BY <2>2
<1> HIDE DEF t
<1>3. /\ g \in Seq(Cell) /\ Len(g) = Len(f) + n
      /\ \A k \in 1 .. Len(f) : g[k] = f[k]
      /\ \A k \in Len(f) + 1 .. Len(f) + n : g[k] = Line(v)[k - Len(f)]
  <2>1. /\ g \in Seq(Cell) /\ Len(g) = Len(f) + n
        /\ \A k \in 1 .. Len(f) + n : g[k] = IF k <= Len(f) THEN f[k] ELSE t[k - Len(f)]
    BY <1>1, <1>2, ConcatProperties
  <2> HIDE DEF g
  <2>2. \A k \in Len(f) + 1 .. Len(f) + n :
           k \in 1 .. Len(f) + n /\ ~ (k <= Len(f)) /\ k - Len(f) \in 1 .. n
    BY <1>1
  <2>3. \A k \in 1 .. Len(f) : k \in 1 .. Len(f) + n /\ k <= Len(f)
    BY <1>1
  <2> QED
    BY <1>2, <2>1, <2>2, <2>3
<1> HIDE DEF g
<1>4. NL.half = 0 /\ NL.half # 1 /\ NL.half # 2 /\ End(v).half = 2 /\ End(v).v = v
  BY DEF NL, End
<1>5. \A k \in Len(f) + 1 .. Len(f) + n :
         /\ k = Len(f) + 1 \/ k = Len(f) + 2 \/ k = Len(f) + 3
         /\ k = Len(f) + 1 => k % 3 = 1 /\ g[k] = [v |-> v, half |-> 1]
         /\ k = Len(f) + 2 => k % 3 = 2 /\ g[k] = End(v) /\ k - 1 = Len(f) + 1
                              /\ g[k - 1] = [v |-> v, half |-> 1]
         /\ k = Len(f) + 3 => k % 3 = 0 /\ g[k] = NL
  <2> SUFFICES ASSUME NEW k \in Len(f) + 1 .. Len(f) + n
               PROVE  /\ k = Len(f) + 1 \/ k = Len(f) + 2 \/ k = Len(f) + 3
                      /\ k = Len(f) + 1 => k % 3 = 1 /\ g[k] = [v |-> v, half |-> 1]
                      /\ k = Len(f) + 2 => k % 3 = 2 /\ g[k] = End(v) /\ k - 1 = Len(f) + 1
                                           /\ g[k - 1] = [v |-> v, half |-> 1]
                      /\ k = Len(f) + 3 => k % 3 = 0 /\ g[k] = NL
    OBVIOUS
  <2>1. k = Len(f) + 1 \/ k = Len(f) + 2 \/ k = Len(f) + 3
    <3>1. PICK m : m = Len(f)
      OBVIOUS
    <3>2. m \in Nat /\ n \in 0 .. 3 /\ k \in m + 1 .. m + n
      BY <1>1, <3>1
    <3>3. k = m + 1 \/ k = m + 2 \/ k = m + 3
      BY ONLY <3>2
    <3> QED
      BY ONLY <3>1, <3>3
  <2>2. CASE k = Len(f) + 1
    <3>1. k - Len(f) = 1 /\ k % 3 = 1 /\ k # Len(f) + 2 /\ k # Len(f) + 3
      BY <1>1, <2>2
    <3> QED
      BY <1>3, <2>2, <3>1, LineIs
  <2>3. CASE k = Len(f) + 2
    <3>1. /\ k - Len(f) = 2 /\ k % 3 = 2 /\ k # Len(f) + 1 /\ k # Len(f) + 3
          /\ k - 1 = Len(f) + 1 /\ (k - 1) - Len(f) = 1 /\ k - 1 \in Len(f) + 1 .. Len(f) + n
      <4>1. PICK m : m = Len(f)
        OBVIOUS
      <4>2. m \in Nat /\ m % 3 = 0 /\ n \in 0 .. 3 /\ k \in m + 1 .. m + n /\ k = m + 2
        BY <1>1, <2>3, <4>1
      <4>3. /\ k - m = 2 /\ k % 3 = 2 /\ k # m + 1 /\ k # m + 3
            /\ k - 1 = m + 1 /\ (k - 1) - m = 1 /\ k - 1 \in m + 1 .. m + n
        BY ONLY <4>2
      <4> QED
        BY ONLY <4>1, <4>3
    <3> QED
      BY <1>3, <2>3, <3>1, LineIs
  <2>4. CASE k = Len(f) + 3
    <3>1. k - Len(f) = 3 /\ k % 3 = 0 /\ k # Len(f) + 1 /\ k # Len(f) + 2
      BY <1>1, <2>4
    <3> QED
      BY <1>3, <2>4, <3>1, LineIs
  <2> QED
    BY <2>1, <2>2, <2>3, <2>4
<1>6. \A k \in 1 .. Len(f) + n : k \in 1 .. Len(f) \/ k \in Len(f) + 1 .. Len(f) + n
  BY <1>1
<1>7. Aligned(g)
  <2> SUFFICES ASSUME NEW k \in 1 .. Len(f) + n
               PROVE  g[k].half = k % 3 /\ (k % 3 = 2 => g[k].v = g[k - 1].v)
    BY <1>3 DEF Aligned
  <2>1. CASE k \in 1 .. Len(f)
    <3>1. k % 3 = 2 => k - 1 \in 1 .. Len(f)
      BY <1>1, <2>1
    <3> QED
      BY <1>3, <2>1, <3>1 DEF Sound, Aligned
  <2>2. CASE k \in Len(f) + 1 .. Len(f) + n
    BY <1>4, <1>5, <2>2
  <2> QED
    BY <1>6, <2>1, <2>2
<1>8. \A k \in Len(f) + 1 .. Len(f) + n : g[k].half # 0 => g[k].v = v
  BY <1>4, <1>5
<1>9. Once(g)
  <2> SUFFICES ASSUME NEW k \in 1 .. Len(f) + n, NEW l \in 1 .. Len(f) + n,
                      g[k] = g[l], g[k].half # 0
               PROVE  k = l
    BY <1>3 DEF Once
  <2>1. CASE k \in 1 .. Len(f) /\ l \in 1 .. Len(f)
    BY <1>3, <2>1 DEF Sound, Once
  <2>2. CASE k \in Len(f) + 1 .. Len(f) + n /\ l \in 1 .. Len(f)
    BY <1>3, <1>8, <2>2
  <2>3. CASE k \in 1 .. Len(f) /\ l \in Len(f) + 1 .. Len(f) + n
    BY <1>3, <1>8, <2>3
  <2>4. CASE k \in Len(f) + 1 .. Len(f) + n /\ l \in Len(f) + 1 .. Len(f) + n
    <3>1. g[k].half = k % 3 /\ g[l].half = l % 3
      BY <1>3, <1>7 DEF Aligned
    <3>2. k % 3 = l % 3
      BY <3>1
    <3>3. /\ (k = Len(f) + 1 /\ k % 3 = 1) \/ (k = Len(f) + 2 /\ k % 3 = 2) \/ (k = Len(f) + 3 /\ k % 3 = 0)
          /\ (l = Len(f) + 1 /\ l % 3 = 1) \/ (l = Len(f) + 2 /\ l % 3 = 2) \/ (l = Len(f) + 3 /\ l % 3 = 0)
      BY <1>5, <2>4
    <3> QED
      BY <3>2, <3>3
  <2> QED
    BY <1>6, <2>1, <2>2, <2>3, <2>4
<1>10. n >= 2 => g[Len(f) + 2] = End(v)
  <2>1. n >= 2 => Len(f) + 2 \in Len(f) + 1 .. Len(f) + n
    BY <1>1
  <2> QED
    BY <1>5, <2>1
<1>11. Longer(g, f, v, n)
  BY <1>3, <1>7, <1>8, <1>9, <1>10 DEF Sound, Longer
<1> QED
  BY <1>11 DEF g, t

\* What a power loss leaves is what was synced or a part of the file, and has all that
\* the two begin with in common.
LEMMA SurvivorsAre ==
  ASSUME file # None, Sound(file), Sound(disk), NEW c \in Survivors
  PROVE  /\ Sound(c)
         /\ c = disk \/ \E n \in 0 .. Len(file) : c = SubSeq(file, 1, n)
         /\ \A m \in Nat : m <= Len(file) /\ m <= Len(disk) /\ (\A k \in 1 .. m : disk[k] = file[k])
                         => m <= Len(c) /\ \A k \in 1 .. m : c[k] = file[k]
<1> DEFINE S == {n \in 0 .. Len(file) : Begins(SubSeq(file, 1, n), disk)}
<1>1. Len(file) \in Nat /\ Len(disk) \in Nat
  BY NewlinesAre
<1>2. \A m \in Nat : m <= Len(file) /\ m <= Len(disk) /\ (\A k \in 1 .. m : disk[k] = file[k])
                      => m \in S
  <2> SUFFICES ASSUME NEW m \in Nat, m <= Len(file), m <= Len(disk), \A k \in 1 .. m : disk[k] = file[k]
               PROVE  m \in S
    OBVIOUS
  <2> DEFINE a == SubSeq(file, 1, m)
             b == SubSeq(disk, 1, m)
  <2>1. m \in 0 .. Len(file) /\ m \in 0 .. Len(disk)
    BY <1>1
  <2>2. /\ a \in Seq(Cell) /\ Len(a) = m /\ \A k \in 1 .. m : a[k] = file[k]
        /\ b \in Seq(Cell) /\ Len(b) = m /\ \A k \in 1 .. m : b[k] = disk[k]
    BY <2>1, PrefixIs DEF Sound
  <2> HIDE DEF a, b
  <2>3. a = b
    BY <2>2, SeqEqual
  <2>4. Begins(a, disk)
    BY <2>2, <2>3 DEF Begins, b
  <2> QED
    BY <2>1, <2>4 DEF a
<1>3. S \subseteq 0 .. Len(file) /\ S # {}
  BY <1>1, <1>2
<1> DEFINE shared == Max(S)
<1>4. shared \in 0 .. Len(file) /\ \A y \in S : y <= shared
  <2> HIDE DEF S
  <2> QED
    BY <1>1, <1>3, MaxMember
<1>5. c = disk \/ \E n \in shared .. Len(file) : c = SubSeq(file, 1, n)
  BY DEF Survivors
<1>6. \A m \in S : m \in Nat /\ m <= shared
  BY <1>3, <1>4
<1> HIDE DEF S, shared
<1>7. CASE c = disk
  BY <1>7
<1>8. CASE \E n \in shared .. Len(file) : c = SubSeq(file, 1, n)
  <2>1. PICK n \in shared .. Len(file) : c = SubSeq(file, 1, n)
    BY <1>8
  <2>2. n \in 0 .. Len(file) /\ \A m \in S : m <= n /\ \A k \in 1 .. m : k \in 1 .. n
    BY <1>1, <1>4, <1>6
  <2>3. Sound(c) /\ Len(c) = n /\ \A k \in 1 .. n : c[k] = file[k]
    BY <2>1, <2>2, PrefixIs
  <2> QED
    BY <1>2, <2>1, <2>2, <2>3
<1> QED
  BY <1>5, <1>7, <1>8

-----------------------------------------------------------------------------
(* Every step keeps the invariant. *)

LEMMA InitHolds ==
  ASSUME Init
  PROVE  IInv
<1>1. Sound(<<>>) /\ Known(<<>>)
  BY DEF Sound, Aligned, Once, Known
<1>2. TypeOK
  <2>1. acked \in Seq(used) /\ disk \in Seq(Cell)
    BY EmptySeq DEF Init
  <2> QED
    BY <2>1 DEF Init, TypeOK, Stages
<1>3. Contents /\ Locked /\ NameHeld
  BY <1>1 DEF Init, Contents, Locked, NameHeld
<1> QED
  BY <1>2, <1>3 DEF IInv, Init

\* A step that leaves the held records where they are, and acknowledges none.
LEMMA AckedStay ==
  ASSUME AckedHeld, AckedOrdered, Sound(file), Sound(file'), acked' = acked,
         \A k \in Nat \ {0} : HeldAt(k) /\ (\E v : file[k] = End(v))
                               => HeldAt(k)' /\ file'[k] = file[k]
  PROVE  AckedHeld' /\ AckedOrdered'
<1>1. AckedHeld'
  <2> SUFFICES ASSUME NEW i \in DOMAIN acked
               PROVE  \E k \in Nat \ {0} : file'[k] = End(acked[i]) /\ HeldAt(k)'
    BY DEF AckedHeld
  <2>1. PICK k \in Nat \ {0} : file[k] = End(acked[i]) /\ HeldAt(k)
    BY DEF AckedHeld
  <2>2. file'[k] = End(acked[i]) /\ HeldAt(k)'
    BY <2>1
  <2> QED
    BY <2>2
<1>2. AckedOrdered'
  <2> SUFFICES ASSUME NEW i \in DOMAIN acked, NEW j \in DOMAIN acked,
                      NEW k \in 1 .. Len(file'), NEW l \in 1 .. Len(file'),
                      i < j, file'[k] = End(acked[i]), file'[l] = End(acked[j])
               PROVE  k < l
    BY DEF AckedOrdered
  <2>1. PICK a \in Nat \ {0} : file[a] = End(acked[i]) /\ HeldAt(a)
    BY DEF AckedHeld
  <2>2. PICK b \in Nat \ {0} : file[b] = End(acked[j]) /\ HeldAt(b)
    BY DEF AckedHeld
  <2>3. Len(file) \in Nat /\ Len(file') \in Nat
    BY NewlinesAre
  <2>4. a \in 1 .. Len(file') /\ b \in 1 .. Len(file') /\ a \in 1 .. Len(file) /\ b \in 1 .. Len(file)
    <3>1. HeldAt(a)' /\ HeldAt(b)'
      BY <2>1, <2>2
    <3>2. a + 1 <= Len(file') /\ b + 1 <= Len(file') /\ a + 1 <= Len(file) /\ b + 1 <= Len(file)
      BY <2>1, <2>2, <3>1 DEF HeldAt
    <3> QED
      BY <2>1, <2>2, <2>3, <3>2
  <2>5. file'[a] = file[a] /\ file'[b] = file[b]
    BY <2>1, <2>2
  <2>6. End(acked[i]).half # 0 /\ End(acked[j]).half # 0
    BY DEF End
  <2>7. k = a /\ l = b
    BY <2>1, <2>2, <2>4, <2>5, <2>6 DEF Sound, Once
  <2> QED
    BY <2>1, <2>2, <2>4, <2>7 DEF AckedOrdered
<1> QED
  BY <1>1, <1>2

\* A step of a handle that has the journal open: every other handle is closed.
LEMMA OthersAreClosed ==
  ASSUME IInv, NEW h \in Handles, pc[h] # "closed"
  PROVE  file # None /\ \A g \in Handles : g # h => pc[g] = "closed"
  BY DEF IInv, Contents, Locked

\* A handle moves to another stage, and nothing else happens.
LEMMA StageStep ==
  ASSUME IInv, NEW h \in Handles, pc[h] # "closed", NEW stage \in Stages,
         pc' = [pc EXCEPT ![h] = stage],
         stage \in {"closed", "poisoned"} \/ (stage = "failed" /\ pc[h] = "written"),
         lock' = lock \/ (stage = "closed" /\ lock' = None),
         UNCHANGED <<file, disk, named, before, used, acked>>
  PROVE  IInv'
<1>1. file # None /\ \A g \in Handles : g # h => pc[g] = "closed" /\ pc'[g] = "closed"
  BY OthersAreClosed DEF IInv, TypeOK
<1>2. pc'[h] = stage
  BY DEF IInv, TypeOK
<1>3. TypeOK'
  BY DEF IInv, TypeOK
<1>4. Contents' /\ NameHeld'
  BY <1>1 DEF IInv, Contents, Known, NameHeld
<1>5. Locked'
  BY <1>1, <1>2 DEF IInv, Locked
<1>6. \A g \in Handles : pc'[g] \in Writing => g = h /\ pc[h] \in Writing /\ pc'[h] = "failed"
  BY <1>1, <1>2 DEF Writing
<1>7. WriterAt'
  <2>1. \A g \in Handles : pc'[g] \notin {"ready", "repaired", "written", "rolledback"}
    BY <1>1, <1>2
  <2> QED
    BY <1>1, <1>6, <2>1 DEF IInv, WriterAt
<1>8. AckedHeld' /\ AckedOrdered'
  <2>1. \A k \in Nat \ {0} : HeldAt(k) => HeldAt(k)' /\ file'[k] = file[k]
    BY <1>6 DEF HeldAt
  <2> QED
    BY <1>1, <2>1, AckedStay DEF IInv, Contents
<1>9. DiskBehind'
  BY <1>1, <1>6 DEF IInv, DiskBehind
<1> QED
  BY <1>3, <1>4, <1>5, <1>7, <1>8, <1>9 DEF IInv

\* The file is synced, and no record is acknowledged.
LEMMA SyncStep ==
  ASSUME IInv, NEW h \in Handles, pc[h] # "closed", NEW stage \in {"opened", "ready"},
         stage = "ready" => pc[h] \in {"repaired", "rolledback"},
         pc' = [pc EXCEPT ![h] = stage],
         disk' = file, named' \in BOOLEAN, named => named',
         UNCHANGED <<file, lock, before, used, acked>>
  PROVE  IInv'
<1>1. file # None /\ \A g \in Handles : g # h => pc[g] = "closed" /\ pc'[g] = "closed"
  BY OthersAreClosed DEF IInv, TypeOK
<1>2. pc'[h] = stage /\ stage \in Stages
  BY DEF IInv, TypeOK, Stages
<1>3. TypeOK'
  BY <1>1, <1>2 DEF IInv, TypeOK
<1>4. Contents' /\ NameHeld'
  BY <1>1 DEF IInv, Contents, Known, NameHeld
<1>5. Locked'
  BY <1>1, <1>2 DEF IInv, Locked
<1>6. \A g \in Handles : pc'[g] \notin Writing
  BY <1>1, <1>2 DEF Writing
<1>7. WriterAt'
  <2>1. \A g \in Handles : pc'[g] \in {"ready", "repaired"} =>
            g = h /\ pc[h] \in {"repaired", "rolledback"}
    BY <1>1, <1>2
  <2>2. \A g \in Handles : pc'[g] \in {"ready", "repaired"} => Len(file) % 3 = 0
    BY <1>1, <2>1 DEF IInv, WriterAt, Writing
  <2> QED
    BY <1>6, <2>2 DEF WriterAt, Writing
<1>8. AckedHeld' /\ AckedOrdered'
  <2>1. \A k \in Nat \ {0} : HeldAt(k) => HeldAt(k)' /\ file'[k] = file[k]
    BY <1>6 DEF HeldAt
  <2> QED
    BY <1>1, <2>1, AckedStay DEF IInv, Contents
<1>9. DiskBehind'
  <2>1. Shown(file) \in Nat
    BY <1>1, ReloadIs DEF IInv, Contents
  <2> QED
    BY <1>6, <2>1 DEF DiskBehind
<1> QED
  BY <1>3, <1>4, <1>5, <1>7, <1>8, <1>9 DEF IInv

LEMMA OpenStep ==
  ASSUME IInv, NEW h \in Handles, Open(h)
  PROVE  IInv'
<1>1. pc[h] = "closed" /\ UNCHANGED <<disk, named, before, used, acked>>
  BY DEF Open
<1>2. file' = IF file = None THEN <<>> ELSE file
  BY DEF Open
<1>3. /\ Sound(<<>>) /\ Known(<<>>) /\ Len(<<>>) = 0 /\ <<>> \in Seq(Cell)
  BY DEF Sound, Aligned, Once, Known
<1>4. file' # None
  BY <1>2, <1>3, NoFileAssumption
<1>5. \/ lock = None /\ lock' = h /\ \E stage \in {"created", "opened"} : pc' = [pc EXCEPT ![h] = stage]
      \/ lock' = lock /\ pc' = pc
  BY DEF Open, Goto
<1>6. \A g \in Handles : \/ pc'[g] = pc[g]
                         \/ g = h /\ pc'[g] \in {"created", "opened"} /\ pc' # pc
  BY <1>1, <1>5 DEF IInv, TypeOK
<1>7. pc' \in [Handles -> Stages] /\ lock' \in Handles \cup {None}
  BY <1>5 DEF IInv, TypeOK, Stages
<1>8. TypeOK'
  BY <1>1, <1>2, <1>3, <1>7 DEF IInv, TypeOK
<1>9. Contents'
  <2>1. Sound(file') /\ (\A k \in 1 .. Len(file') : file'[k].half # 0 => file'[k].v \in used)
    BY <1>2, <1>3 DEF IInv, Contents, Known
  <2> QED
    BY <1>1, <1>4, <2>1 DEF IInv, Contents, Known
<1>10. Locked'
  <2>1. lock = None => \A g \in Handles : pc[g] = "closed"
    BY HandleAssumption DEF IInv, Locked
  <2> QED
    BY <1>5, <1>6, <2>1 DEF IInv, Locked
<1>11. NameHeld'
  BY <1>1 DEF IInv, NameHeld
<1>12. CASE file = None
  <2>1. file' = <<>> /\ disk' = <<>> /\ acked' = <<>> /\ \A g \in Handles : pc[g] = "closed"
    BY <1>1, <1>2, <1>12 DEF IInv, Contents
  <2>2. \A g \in Handles : pc'[g] \in {"closed", "created", "opened"}
    BY <1>6, <2>1
  <2>3. WriterAt'
    BY <2>2 DEF WriterAt, Writing
  <2>4. AckedHeld' /\ AckedOrdered'
    BY <2>1 DEF AckedHeld, AckedOrdered
  <2>5. Shown(<<>>) = 0
    BY <1>3 DEF Shown
  <2>6. DiskBehind'
    BY <2>1, <2>2, <2>5 DEF DiskBehind, Writing
  <2> QED
    BY <1>8, <1>9, <1>10, <1>11, <2>3, <2>4, <2>6 DEF IInv
<1>13. CASE file # None
  <2>1. file' = file
    BY <1>2, <1>13
  <2>2. \A g \in Handles : pc'[g] \in Writing \cup {"ready", "repaired"} => pc'[g] = pc[g]
    BY <1>6 DEF Writing
  <2>3. WriterAt'
    <3>1. WriterAt
      BY <1>13 DEF IInv
    <3> QED
      BY <1>1, <2>1, <2>2, <3>1 DEF WriterAt, Writing
  <2>4. AckedHeld' /\ AckedOrdered'
    <3>1. \A k \in Nat \ {0} : HeldAt(k) => HeldAt(k)' /\ file'[k] = file[k]
      BY <1>1, <2>1, <2>2 DEF HeldAt
    <3> QED
      BY <1>1, <1>13, <2>1, <3>1, AckedStay DEF IInv, Contents
  <2>5. DiskBehind'
    BY <1>1, <1>13, <2>1, <2>2 DEF IInv, DiskBehind
  <2> QED
    BY <1>8, <1>9, <1>10, <1>11, <2>3, <2>4, <2>5 DEF IInv
<1> QED
  BY <1>12, <1>13

\* The parts of the invariant that a step of an open handle keeps when it changes the
\* file and neither the synced content nor what is acknowledged.
LEMMA FileStep ==
  ASSUME IInv, NEW h \in Handles, pc[h] # "closed", NEW stage \in Stages,
         pc' = [pc EXCEPT ![h] = stage], Sound(file'),
         \A k \in 1 .. Len(file') : file'[k].half # 0 => file'[k].v \in used',
         before' \in [Handles -> Nat], used \subseteq used', used' \subseteq Votes,
         UNCHANGED <<disk, named, lock, acked>>
  PROVE  /\ file # None /\ file' # None
         /\ \A g \in Handles : g # h => pc'[g] = "closed"
         /\ pc'[h] = stage
         /\ TypeOK' /\ Contents' /\ Locked' /\ NameHeld'
<1>1. file # None /\ \A g \in Handles : g # h => pc[g] = "closed" /\ pc'[g] = "closed"
  BY OthersAreClosed DEF IInv, TypeOK
<1>2. pc'[h] = stage
  BY DEF IInv, TypeOK
<1>3. file' # None /\ file' \in Seq(Cell)
  BY NoFileAssumption DEF Sound
<1>4. TypeOK'
  <2>1. acked \in Seq(used')
    BY SeqMonotonic DEF IInv, TypeOK
  <2> QED
    BY <1>3, <2>1 DEF IInv, TypeOK
<1>5. Contents' /\ NameHeld'
  BY <1>3 DEF IInv, Contents, Known, NameHeld
<1>6. Locked'
  BY <1>1, <1>2 DEF IInv, Locked
<1> QED
  BY <1>1, <1>2, <1>3, <1>4, <1>5, <1>6

LEMMA RepairStep ==
  ASSUME IInv, NEW h \in Handles, Repair(h)
  PROVE  IInv' /\ file # None /\ Stays
<1>1. pc[h] = "opened" /\ UNCHANGED <<disk, named, before, used, acked>>
  BY DEF Repair
<1>2. file # None /\ Sound(file) /\ Known(file)
  BY <1>1, OthersAreClosed DEF IInv, Contents
<1>3. WellFormed(file)
  BY <1>2, SoundIsWellFormed
<1>4. file' = Repaired(file) /\ lock' = lock
  BY <1>3 DEF Repair
<1>5. PICK stage \in {"ready", "repaired"} : pc' = [pc EXCEPT ![h] = stage]
  BY <1>3 DEF Repair, Goto
<1>6. /\ Sound(file') /\ Len(file') = 3 * Shown(file)
      /\ \A k \in 1 .. Len(file) : k <= 3 * Shown(file) => file'[k] = file[k]
      /\ \A k \in 1 .. 3 * Shown(file) : k % 3 # 0 => k \in 1 .. Len(file)
      /\ Len(file) \in Nat /\ Shown(file) \in Nat
  BY <1>2, <1>4, RepairedIs, NewlinesAre, ReloadIs
<1>7. \A k \in 1 .. Len(file') : file'[k].half # 0 => file'[k].v \in used
  <2> SUFFICES ASSUME NEW k \in 1 .. Len(file'), file'[k].half # 0 PROVE file'[k].v \in used
    OBVIOUS
  <2>1. k % 3 # 0
    BY <1>6 DEF Sound, Aligned
  <2>2. k \in 1 .. Len(file) /\ file'[k] = file[k]
    BY <1>6, <2>1
  <2> QED
    BY <1>2, <2>2 DEF Known
<1>8. /\ file' # None /\ \A g \in Handles : g # h => pc'[g] = "closed"
      /\ pc'[h] = stage /\ TypeOK' /\ Contents' /\ Locked' /\ NameHeld'
  BY <1>1, <1>4, <1>5, <1>6, <1>7, FileStep DEF Stages, IInv, TypeOK
<1>9. \A g \in Handles : pc'[g] \notin Writing
  BY <1>8 DEF Writing
<1>10. WriterAt'
  <2>1. Len(file') % 3 = 0
    BY <1>6
  <2> QED
    BY <1>9, <2>1 DEF WriterAt, Writing
<1>11. AckedHeld' /\ AckedOrdered' /\ Stays
  <2>1. \A k \in Nat \ {0} : HeldAt(k) /\ (\E v : file[k] = End(v)) => HeldAt(k)' /\ file'[k] = file[k]
    <3> SUFFICES ASSUME NEW k \in Nat \ {0}, HeldAt(k), NEW v, file[k] = End(v)
                 PROVE  HeldAt(k)' /\ file'[k] = file[k]
      OBVIOUS
    <3>1. k + 1 <= Len(file) /\ k + 1 <= Len(disk) /\ \A m \in 1 .. k + 1 : disk[m] = file[m]
      BY DEF HeldAt
    <3>2. k \in 1 .. Len(file)
      BY <1>6, <3>1
    <3>3. k % 3 = 2
      BY <1>2, <3>2 DEF Sound, Aligned, End
    <3>4. k + 1 <= 3 * Shown(file)
      <4> DEFINE L == Len(file)
      <4>1. L \in Nat /\ k + 1 <= L
        BY <1>6, <3>1
      <4> HIDE DEF L
      <4>2. k + 1 <= 3 * ((L + 1) \div 3)
        BY <3>3, <4>1
      <4> QED
        BY <4>2 DEF L, Shown
    <3>5. \A m \in 1 .. k + 1 : m \in 1 .. Len(file) /\ m <= 3 * Shown(file)
      BY <1>6, <3>1, <3>4
    <3>6. \A m \in 1 .. k + 1 : disk'[m] = file'[m]
      BY <1>1, <1>6, <3>1, <3>5
    <3> QED
      BY <1>1, <1>6, <1>9, <3>1, <3>2, <3>4, <3>6 DEF HeldAt
  <2>2. Stays
    BY <2>1 DEF Stays, HeldAt
  <2> QED
    BY <2>2, <1>1, <1>2, <1>6, <2>1, AckedStay DEF IInv
<1>12. DiskBehind'
  <2>1. Shown(file') = Shown(file)
    BY <1>6 DEF Shown
  <2>2. DiskBehind /\ Sound(disk)
    BY <1>2 DEF IInv, Contents
  <2>3. \A n \in 1 .. Shown(disk) : file'[3 * n - 1] = file[3 * n - 1]
    <3> SUFFICES ASSUME NEW n \in 1 .. Shown(disk) PROVE file'[3 * n - 1] = file[3 * n - 1]
      OBVIOUS
    <3>1. n \in 1 .. Shown(file) /\ Shown(disk) \in Nat
      BY <1>6, <2>2, ReloadIs DEF DiskBehind
    <3>2. 3 * n - 1 \in 1 .. Len(file) /\ 3 * n - 1 <= 3 * Shown(file)
      BY <1>2, <1>6, <3>1, ReloadIs
    <3> QED
      BY <1>6, <3>2
  <2> QED
    BY <1>1, <1>9, <2>1, <2>2, <2>3 DEF DiskBehind
<1> QED
  BY <1>2, <1>8, <1>10, <1>11, <1>12 DEF IInv

LEMMA AppendStep ==
  ASSUME IInv, NEW h \in Handles, NEW v \in Votes \ used, AppendRecord(h, v)
  PROVE  IInv' /\ file # None /\ Stays
<1>1. /\ pc[h] = "ready" /\ used' = used \cup {v} /\ before' = [before EXCEPT ![h] = Len(file)]
      /\ UNCHANGED <<disk, named, lock, acked>>
  BY DEF AppendRecord
<1>2. file # None /\ Sound(file) /\ Known(file) /\ Len(file) \in Nat /\ Len(file) % 3 = 0
  <2>1. file # None /\ Sound(file) /\ Known(file)
    BY <1>1, OthersAreClosed DEF IInv, Contents
  <2> QED
    BY <1>1, <2>1, NewlinesAre DEF IInv, WriterAt
<1>3. PICK n \in 0 .. 3 : /\ file' = file \o SubSeq(Line(v), 1, n)
                          /\ Goto(h, IF n = 3 THEN "written" ELSE "failed")
  <2>1. Len(Line(v)) = 3
    BY LineIs
  <2> QED
    BY <2>1 DEF AppendRecord
<1> DEFINE stage == IF n = 3 THEN "written" ELSE "failed"
<1>4. stage \in Stages /\ pc' = [pc EXCEPT ![h] = stage]
  BY <1>3 DEF Goto, Stages
<1>5. \A k \in 1 .. Len(file) : file[k].half # 0 => file[k].v # v
  BY <1>2 DEF Known
<1>6. /\ Sound(file') /\ Len(file') = Len(file) + n
      /\ \A k \in 1 .. Len(file) : file'[k] = file[k]
      /\ \A k \in Len(file) + 1 .. Len(file) + n : file'[k].half # 0 => file'[k].v = v
  <2>1. Longer(file', file, v, n)
    BY <1>2, <1>3, <1>5, AppendIs
  <2> QED
    BY <2>1 DEF Longer
<1>7. \A k \in 1 .. Len(file') : file'[k].half # 0 => file'[k].v \in used'
  <2>1. \A k \in 1 .. Len(file') : k \in 1 .. Len(file) \/ k \in Len(file) + 1 .. Len(file) + n
    BY <1>2, <1>6
  <2> QED
    BY <1>1, <1>2, <1>6, <2>1 DEF Known
<1>8. before' \in [Handles -> Nat] /\ before'[h] = Len(file) /\ used \subseteq used' /\ used' \subseteq Votes
  BY <1>1, <1>2 DEF IInv, TypeOK
<1>9. /\ file' # None /\ \A g \in Handles : g # h => pc'[g] = "closed"
      /\ pc'[h] = stage /\ TypeOK' /\ Contents' /\ Locked' /\ NameHeld'
  <2> HIDE DEF stage
  <2> QED
    BY <1>1, <1>4, <1>6, <1>7, <1>8, FileStep
<1>10. \A g \in Handles : pc'[g] # "closed" => g = h
  BY <1>9
<1>11. WriterAt'
  <2>1. pc'[h] \in {"written", "failed"} /\ (pc'[h] = "written" => n = 3)
    BY <1>9
  <2>2. before'[h] % 3 = 0 /\ before'[h] <= Len(file') /\ (n = 3 => Len(file') = before'[h] + 3)
    BY <1>2, <1>6, <1>8
  <2> HIDE DEF stage
  <2> QED
    BY <1>10, <2>1, <2>2 DEF WriterAt, Writing
<1>12. AckedHeld' /\ AckedOrdered' /\ Stays
  <2>1. \A k \in Nat \ {0} : HeldAt(k) => HeldAt(k)' /\ file'[k] = file[k]
    <3> SUFFICES ASSUME NEW k \in Nat \ {0}, HeldAt(k)
                 PROVE  HeldAt(k)' /\ file'[k] = file[k]
      OBVIOUS
    <3>1. k + 1 <= Len(file) /\ k + 1 <= Len(disk) /\ \A m \in 1 .. k + 1 : disk[m] = file[m]
      BY DEF HeldAt
    <3>2. \A m \in 1 .. k + 1 : m \in 1 .. Len(file)
      BY <1>2, <3>1
    <3>3. k \in 1 .. k + 1 /\ k + 1 <= Len(file')
      BY <1>2, <1>6, <3>1
    <3>4. \A g \in Handles : pc'[g] \in Writing => k + 1 <= before'[g]
      BY <1>8, <1>10, <3>1 DEF Writing
    <3> QED
      BY <1>1, <1>6, <3>1, <3>2, <3>3, <3>4 DEF HeldAt
  <2>2. Stays
    BY <2>1 DEF Stays, HeldAt
  <2> QED
    BY <2>2, <1>1, <1>2, <1>6, <2>1, AckedStay DEF IInv
<1>13. DiskBehind'
  <2>1. DiskBehind /\ Sound(disk)
    BY <1>2 DEF IInv, Contents
  <2>2. Shown(disk) \in Nat /\ Shown(file) \in Nat /\ Shown(file') \in Nat
    BY <1>2, <1>6, <2>1, ReloadIs
  <2>3. 3 * Shown(file) = Len(file) /\ Shown(file) <= Shown(file')
    BY <1>2, <1>6 DEF Shown
  <2>4. \A m \in 1 .. Shown(disk) : 3 * m - 1 \in 1 .. Len(file)
    BY <1>2, <2>1, <2>2, <2>3 DEF DiskBehind
  <2>5. 3 * Shown(disk) <= Len(file) /\ Shown(disk) <= Shown(file')
    BY <1>2, <2>1, <2>2, <2>3 DEF DiskBehind
  <2>6. \A g \in Handles : pc'[g] \in Writing => 3 * Shown(disk) <= before'[g]
    BY <1>8, <1>10, <2>5 DEF Writing
  <2> QED
    BY <1>1, <1>6, <2>1, <2>4, <2>5, <2>6 DEF DiskBehind
<1> QED
  BY <1>2, <1>9, <1>11, <1>12, <1>13 DEF IInv

LEMMA RollbackStep ==
  ASSUME IInv, NEW h \in Handles, Rollback(h)
  PROVE  IInv' /\ file # None /\ Stays
<1>1. /\ pc[h] = "failed" /\ file' = SubSeq(file, 1, before[h]) /\ pc' = [pc EXCEPT ![h] = "rolledback"]
      /\ UNCHANGED <<disk, named, lock, before, used, acked>>
  BY DEF Rollback, Goto
<1>2. file # None /\ Sound(file) /\ Known(file) /\ Len(file) \in Nat
  BY <1>1, OthersAreClosed, NewlinesAre DEF IInv, Contents
<1> DEFINE n == before[h]
<1>3. n \in 0 .. Len(file) /\ n % 3 = 0
  BY <1>1, <1>2 DEF IInv, WriterAt, TypeOK, Writing
<1> HIDE DEF n
<1>4. Sound(file') /\ Len(file') = n /\ \A k \in 1 .. n : file'[k] = file[k]
  BY <1>1, <1>2, <1>3, PrefixIs DEF n
<1>5. \A k \in 1 .. Len(file') : file'[k].half # 0 => file'[k].v \in used'
  <2>1. \A k \in 1 .. n : k \in 1 .. Len(file)
    BY <1>2, <1>3
  <2> QED
    BY <1>1, <1>2, <1>4, <2>1 DEF Known
<1>6. /\ file' # None /\ \A g \in Handles : g # h => pc'[g] = "closed"
      /\ pc'[h] = "rolledback" /\ TypeOK' /\ Contents' /\ Locked' /\ NameHeld'
  <2>1. "rolledback" \in Stages /\ pc[h] # "closed"
    BY <1>1 DEF Stages
  <2>2. before' \in [Handles -> Nat] /\ used \subseteq used' /\ used' \subseteq Votes
    BY <1>1 DEF IInv, TypeOK
  <2> QED
    BY <1>1, <1>4, <1>5, <2>1, <2>2, FileStep
<1>7. \A g \in Handles : pc'[g] # "closed" => g = h
  BY <1>6
<1>8. WriterAt'
  BY <1>1, <1>3, <1>4, <1>6, <1>7 DEF WriterAt, Writing, n
<1>9. pc[h] \in Writing
  BY <1>1 DEF Writing
<1>10. AckedHeld' /\ AckedOrdered' /\ Stays
  <2>1. \A k \in Nat \ {0} : HeldAt(k) => HeldAt(k)' /\ file'[k] = file[k]
    <3> SUFFICES ASSUME NEW k \in Nat \ {0}, HeldAt(k)
                 PROVE  HeldAt(k)' /\ file'[k] = file[k]
      OBVIOUS
    <3>1. k + 1 <= n /\ k + 1 <= Len(disk) /\ \A m \in 1 .. k + 1 : disk[m] = file[m]
      BY <1>9 DEF HeldAt, n
    <3>2. \A m \in 1 .. k + 1 : m \in 1 .. n
      BY <1>2, <1>3, <3>1
    <3>3. k \in 1 .. n
      BY <1>3, <3>1
    <3>4. \A g \in Handles : pc'[g] \in Writing => k + 1 <= before'[g]
      BY <1>1, <1>7, <3>1 DEF Writing, n
    <3> QED
      BY <1>1, <1>4, <3>1, <3>2, <3>3, <3>4 DEF HeldAt
  <2>2. Stays
    BY <2>1 DEF Stays, HeldAt
  <2> QED
    BY <2>2, <1>1, <1>2, <1>4, <2>1, AckedStay DEF IInv
<1>11. DiskBehind'
  <2>1. DiskBehind /\ Sound(disk)
    BY <1>2 DEF IInv, Contents
  <2>2. Shown(disk) \in Nat /\ 3 * Shown(disk) <= n
    BY <1>9, <2>1, ReloadIs DEF DiskBehind, n
  <2>3. Shown(disk) <= Shown(file')
    BY <1>3, <1>4, <2>2 DEF Shown
  <2>4. \A m \in 1 .. Shown(disk) : 3 * m - 1 \in 1 .. n
    BY <1>3, <2>2
  <2>5. \A g \in Handles : pc'[g] \in Writing => 3 * Shown(disk) <= before'[g]
    BY <1>1, <1>7, <2>2 DEF Writing, n
  <2> QED
    BY <1>1, <1>4, <2>1, <2>3, <2>4, <2>5 DEF DiskBehind
<1> QED
  BY <1>2, <1>6, <1>8, <1>10, <1>11 DEF IInv

LEMMA SyncRecordStep ==
  ASSUME IInv, FileSyncCoversName, NEW h \in Handles, SyncRecord(h)
  PROVE  /\ IInv'
         /\ \E w \in Votes : /\ acked' = Append(acked, w) /\ Len(file) % 3 = 0 /\ Len(file) >= 3
                             /\ file[Len(file) - 1] = End(w)
<1> DEFINE last == Len(file) - 1
           w == file[last].v
<1>1. /\ pc[h] = "written" /\ disk' = file /\ named' = TRUE /\ acked' = Append(acked, w)
      /\ pc' = [pc EXCEPT ![h] = "ready"] /\ UNCHANGED <<file, lock, before, used>>
  <2>1. FileSyncCoversName = TRUE
    BY SyncAssumption
  <2> QED
    BY <2>1 DEF SyncRecord, Synced, Goto
<1>2. file # None /\ Sound(file) /\ Known(file) /\ Len(file) \in Nat
  BY <1>1, OthersAreClosed, NewlinesAre DEF IInv, Contents
<1>3. before[h] \in Nat /\ before[h] % 3 = 0 /\ Len(file) = before[h] + 3
  BY <1>1, <1>2 DEF IInv, WriterAt, TypeOK, Writing
<1>4. last \in 1 .. Len(file) /\ last % 3 = 2 /\ last + 1 = Len(file) /\ last \in Nat \ {0}
  BY <1>2, <1>3
<1>5. w \in used /\ w \in Votes /\ file[last] = End(w)
  <2> HIDE DEF last
  <2>1. file[last] \in Cell /\ file[last].half = 2
    BY <1>2, <1>4, NewlinesAre DEF Sound, Aligned
  <2> QED
    BY <1>2, <1>4, <2>1, CellIs DEF Known, End
<1> HIDE DEF w, last
<1>6. \A g \in Handles : g # h => pc[g] = "closed" /\ pc'[g] = "closed"
  BY <1>1, OthersAreClosed DEF IInv, TypeOK
<1>7. pc'[h] = "ready" /\ \A g \in Handles : pc'[g] \notin Writing
  BY <1>1, <1>6 DEF IInv, TypeOK, Writing
<1>8. acked \in Seq(used) /\ acked' \in Seq(used) /\ Len(acked) \in Nat /\ Len(acked') = Len(acked) + 1
      /\ (\A i \in 1 .. Len(acked) : acked'[i] = acked[i]) /\ acked'[Len(acked) + 1] = w
  <2>1. acked \in Seq(used)
    BY DEF IInv, TypeOK
  <2> QED
    BY <1>1, <1>5, <2>1, AppendProperties
<1>9. DOMAIN acked = 1 .. Len(acked) /\ DOMAIN acked' = 1 .. Len(acked) + 1
  BY <1>8
<1>10. TypeOK'
  BY <1>1, <1>2, <1>8 DEF IInv, TypeOK, Stages, Sound
<1>11. Contents' /\ NameHeld'
  BY <1>1, <1>2 DEF Contents, Known, NameHeld
<1>12. Locked'
  BY <1>1, <1>6, <1>7 DEF IInv, Locked
<1>13. WriterAt'
  <2>1. Len(file') % 3 = 0
    BY <1>1, <1>3
  <2> QED
    BY <1>7, <2>1 DEF WriterAt, Writing
<1>14. \A i \in 1 .. Len(acked) + 1 : i \in 1 .. Len(acked) \/ i = Len(acked) + 1
  BY <1>8
<1>15. AckedHeld'
  <2> SUFFICES ASSUME NEW i \in 1 .. Len(acked) + 1
               PROVE  \E k \in Nat \ {0} : file'[k] = End(acked'[i]) /\ HeldAt(k)'
    BY <1>9 DEF AckedHeld
  <2>1. CASE i \in 1 .. Len(acked)
    <3>1. PICK k \in Nat \ {0} : file[k] = End(acked[i]) /\ HeldAt(k)
      BY <1>2, <1>9, <2>1 DEF IInv, AckedHeld
    <3>2. file'[k] = End(acked'[i]) /\ HeldAt(k)'
      BY <1>1, <1>7, <1>8, <2>1, <3>1 DEF HeldAt
    <3> QED
      BY <3>2
  <2>2. CASE i = Len(acked) + 1
    <3>1. PICK k \in Nat \ {0} : k = last
      BY <1>4
    <3>2. file'[k] = End(acked'[i])
      BY <1>1, <1>5, <1>8, <2>2, <3>1
    <3>3. HeldAt(k)'
      BY <1>1, <1>2, <1>4, <1>7, <3>1 DEF HeldAt
    <3> QED
      BY <3>2, <3>3
  <2> QED
    BY <1>14, <2>1, <2>2
<1>16. AckedOrdered'
  <2> SUFFICES ASSUME NEW i \in 1 .. Len(acked) + 1, NEW j \in 1 .. Len(acked) + 1,
                      NEW k \in 1 .. Len(file), NEW l \in 1 .. Len(file),
                      i < j, file[k] = End(acked'[i]), file[l] = End(acked'[j])
               PROVE  k < l
    BY <1>1, <1>9 DEF AckedOrdered
  <2>1. i \in 1 .. Len(acked)
    BY <1>8
  <2>2. CASE j \in 1 .. Len(acked)
    <3>1. file[k] = End(acked[i]) /\ file[l] = End(acked[j])
      BY <1>8, <2>1, <2>2
    <3> QED
      BY <1>2, <1>9, <2>1, <2>2, <3>1 DEF IInv, AckedOrdered
  <2>3. CASE j = Len(acked) + 1
    <3>1. file[l] = file[last] /\ End(w).half # 0
      BY <1>5, <1>8, <2>3 DEF End
    <3>2. l = last
      BY <1>2, <1>4, <1>5, <3>1 DEF Sound, Once
    <3>3. PICK a \in Nat \ {0} : file[a] = End(acked[i]) /\ HeldAt(a)
      BY <1>2, <1>9, <2>1 DEF IInv, AckedHeld
    <3>4. a + 1 <= before[h]
      BY <1>1, <3>3 DEF HeldAt, Writing
    <3>5. a \in 1 .. Len(file) /\ a < last
      <4> DEFINE b == before[h]
                 L == Len(file)
      <4>1. b \in Nat /\ L = b + 3 /\ a + 1 <= b
        BY <1>3, <3>4
      <4> HIDE DEF b, L
      <4>2. a \in 1 .. L /\ a < L - 1
        BY <4>1
      <4> QED
        BY <4>2 DEF last, L
    <3>6. file[k] = file[a] /\ End(acked[i]).half # 0
      BY <1>8, <2>1, <3>3 DEF End
    <3>7. k = a
      BY <1>2, <3>3, <3>5, <3>6 DEF Sound, Once
    <3> QED
      BY <3>2, <3>5, <3>7
  <2> QED
    BY <1>14, <2>2, <2>3
<1>17. DiskBehind'
  <2>1. Shown(file) \in Nat
    BY <1>2, ReloadIs
  <2> QED
    BY <1>1, <1>7, <2>1 DEF DiskBehind
<1>18. IInv'
  BY <1>10, <1>11, <1>12, <1>13, <1>15, <1>16, <1>17 DEF IInv
<1>19. Len(file) % 3 = 0 /\ Len(file) >= 3
  BY <1>3
<1> QED
  BY <1>1, <1>5, <1>18, <1>19 DEF last

LEMMA PowerLossStep ==
  ASSUME IInv, PowerLoss
  PROVE  IInv' /\ (file' # None => file # None /\ Stays)
<1>1. lock' = None /\ pc' = [h \in Handles |-> "closed"] /\ UNCHANGED <<before, used, acked>>
  BY DEF PowerLoss
<1>2. \A h \in Handles : pc'[h] = "closed"
  BY <1>1
<1>3. CASE ~named /\ file' = None /\ disk' = <<>> /\ named' = named
  <2>1. acked' = <<>> /\ acked' \in Seq(used')
    BY <1>1, <1>3 DEF IInv, NameHeld, TypeOK
  <2>2. Sound(<<>>) /\ <<>> \in Seq(Cell) /\ Len(<<>>) = 0
    BY DEF Sound, Aligned, Once
  <2>3. TypeOK'
    BY <1>1, <1>3, <2>1, <2>2 DEF IInv, TypeOK, Stages
  <2>4. Contents' /\ Locked' /\ NameHeld'
    BY <1>2, <1>3, <2>1, <2>2 DEF Contents, Known, Locked, NameHeld
  <2> QED
    BY <1>3, <2>3, <2>4 DEF IInv
<1>4. CASE \E c \in Survivors : file # None /\ file' = c /\ disk' = c /\ named' = TRUE
  <2>1. PICK c \in Survivors : file # None /\ file' = c /\ disk' = c /\ named' = TRUE
    BY <1>4
  <2>2. Sound(file) /\ Sound(disk) /\ Known(file) /\ Known(disk)
    BY <2>1 DEF IInv, Contents
  <2>3. /\ Sound(c) /\ (c = disk \/ \E n \in 0 .. Len(file) : c = SubSeq(file, 1, n))
        /\ \A m \in Nat : m <= Len(file) /\ m <= Len(disk) /\ (\A k \in 1 .. m : disk[k] = file[k])
                        => m <= Len(c) /\ \A k \in 1 .. m : c[k] = file[k]
    BY <2>1, <2>2, SurvivorsAre
  <2>4. c \in Seq(Cell) /\ c # None /\ Len(file) \in Nat
    BY <2>2, <2>3, NoFileAssumption, NewlinesAre DEF Sound
  <2>5. \A k \in 1 .. Len(c) : c[k].half # 0 => c[k].v \in used
    <3>1. CASE c = disk
      BY <2>2, <3>1 DEF Known
    <3>2. CASE \E n \in 0 .. Len(file) : c = SubSeq(file, 1, n)
      <4>1. PICK n \in 0 .. Len(file) : c = SubSeq(file, 1, n)
        BY <3>2
      <4>2. Len(c) = n /\ \A k \in 1 .. n : c[k] = file[k] /\ k \in 1 .. Len(file)
        BY <2>2, <2>4, <4>1, PrefixIs
      <4> QED
        BY <2>2, <4>2 DEF Known
    <3> QED
      BY <2>3, <3>1, <3>2
  <2>6. TypeOK'
    BY <1>1, <2>1, <2>4 DEF IInv, TypeOK, Stages
  <2>7. Contents' /\ Locked' /\ NameHeld'
    BY <1>1, <1>2, <2>1, <2>3, <2>4, <2>5 DEF Contents, Known, Locked, NameHeld
  <2>8. WriterAt'
    BY <1>2 DEF WriterAt, Writing
  <2>9. \A k \in Nat \ {0} : HeldAt(k) => HeldAt(k)' /\ file'[k] = file[k]
    <3> SUFFICES ASSUME NEW k \in Nat \ {0}, HeldAt(k)
                 PROVE  HeldAt(k)' /\ file'[k] = file[k]
      OBVIOUS
    <3>1. k + 1 <= Len(file) /\ k + 1 <= Len(disk) /\ \A m \in 1 .. k + 1 : disk[m] = file[m]
      BY DEF HeldAt
    <3>2. k + 1 \in Nat /\ k \in 1 .. k + 1
      OBVIOUS
    <3>3. k + 1 <= Len(c) /\ \A m \in 1 .. k + 1 : c[m] = file[m]
      BY <2>3, <3>1, <3>2
    <3> QED
      BY <1>2, <2>1, <3>2, <3>3 DEF HeldAt, Writing
  <2>10. AckedHeld' /\ AckedOrdered'
    BY <1>1, <2>1, <2>2, <2>3, <2>9, AckedStay DEF IInv
  <2>11. DiskBehind'
    <3>1. Shown(c) \in Nat
      BY <2>3, ReloadIs
    <3> QED
      BY <1>2, <2>1, <3>1 DEF DiskBehind, Writing
  <2>12. Stays
    BY <2>9 DEF Stays, HeldAt
  <2> QED
    BY <2>1, <2>6, <2>7, <2>8, <2>10, <2>11, <2>12 DEF IInv
<1> QED
  BY <1>3, <1>4 DEF PowerLoss

\* The steps of a handle that leave the file's content as it is.
StillStep(h) ==
    \/ SyncNew(h) \/ SyncRepair(h) \/ OpenFails(h) \/ SyncFails(h)
    \/ SyncRollback(h) \/ RollbackFails(h) \/ Die(h)

LEMMA StillSteps ==
  ASSUME IInv, NEW h \in Handles, StillStep(h)
  PROVE  IInv' /\ file' = file /\ acked' = acked
<1>1. CASE SyncNew(h)
  <2>1. pc[h] # "closed" /\ pc' = [pc EXCEPT ![h] = "opened"] /\ disk' = file /\ named' = TRUE
        /\ UNCHANGED <<file, lock, before, used, acked>>
    BY <1>1 DEF SyncNew, Goto
  <2> QED
    BY <2>1, SyncStep
<1>2. CASE SyncRepair(h)
  <2>1. pc[h] = "repaired" /\ pc' = [pc EXCEPT ![h] = "ready"] /\ disk' = file /\ named' = TRUE
        /\ UNCHANGED <<file, lock, before, used, acked>>
    BY <1>2 DEF SyncRepair, Goto
  <2> QED
    BY <2>1, SyncStep
<1>3. CASE SyncRollback(h)
  <2>1. pc[h] = "rolledback" /\ pc' = [pc EXCEPT ![h] = "ready"] /\ disk' = file
        /\ named' \in BOOLEAN /\ (named => named') /\ UNCHANGED <<file, lock, before, used, acked>>
    BY <1>3, SyncAssumption DEF SyncRollback, Goto, Synced, IInv, TypeOK
  <2> QED
    BY <2>1, SyncStep
<1>4. CASE OpenFails(h) \/ Die(h)
  <2>1. pc[h] # "closed" /\ pc' = [pc EXCEPT ![h] = "closed"] /\ lock' = None
        /\ UNCHANGED <<file, disk, named, before, used, acked>>
    BY <1>4 DEF OpenFails, Die, Close, Goto
  <2>2. "closed" \in Stages
    BY DEF Stages
  <2> QED
    BY <2>1, <2>2, StageStep
<1>5. CASE SyncFails(h)
  <2>1. pc[h] = "written" /\ pc' = [pc EXCEPT ![h] = "failed"] /\ lock' = lock
        /\ UNCHANGED <<file, disk, named, before, used, acked>>
    BY <1>5 DEF SyncFails, Goto
  <2>2. "failed" \in Stages
    BY DEF Stages
  <2> QED
    BY <2>1, <2>2, StageStep
<1>6. CASE RollbackFails(h)
  <2>1. pc[h] # "closed" /\ pc' = [pc EXCEPT ![h] = "poisoned"] /\ lock' = lock
        /\ UNCHANGED <<file, disk, named, before, used, acked>>
    BY <1>6 DEF RollbackFails, Goto
  <2>2. "poisoned" \in Stages
    BY DEF Stages
  <2> QED
    BY <2>1, <2>2, StageStep
<1> QED
  BY <1>1, <1>2, <1>3, <1>4, <1>5, <1>6 DEF StillStep

LEMMA NextCases ==
  ASSUME Next
  PROVE  \/ PowerLoss
         \/ \E h \in Handles :
              \/ Open(h) \/ Repair(h) \/ SyncRecord(h) \/ Rollback(h) \/ StillStep(h)
              \/ \E v \in Votes \ used : AppendRecord(h, v)
  BY DEF Next, StillStep

LEMMA NextHolds ==
  ASSUME IInv, FileSyncCoversName, [Next]_vars
  PROVE  IInv'
<1>1. CASE UNCHANGED vars
  <2>1. TypeOK' /\ Contents' /\ Locked' /\ NameHeld'
    BY <1>1 DEF IInv, vars, TypeOK, Contents, Known, Locked, NameHeld
  <2>2. file' # None => WriterAt' /\ AckedHeld' /\ AckedOrdered' /\ DiskBehind'
    BY <1>1 DEF IInv, vars, WriterAt, AckedHeld, HeldAt, AckedOrdered, DiskBehind
  <2> QED
    BY <2>1, <2>2 DEF IInv
<1>2. CASE PowerLoss
  BY <1>2, PowerLossStep
<1>3. ASSUME NEW h \in Handles,
             \/ Open(h) \/ Repair(h) \/ SyncRecord(h) \/ Rollback(h) \/ StillStep(h)
             \/ \E v \in Votes \ used : AppendRecord(h, v)
      PROVE  IInv'
  BY <1>3, OpenStep, RepairStep, SyncRecordStep, RollbackStep, StillSteps, AppendStep
<1> QED
  BY <1>1, <1>2, <1>3, NextCases

-----------------------------------------------------------------------------
(* Every acknowledged vote survives. *)

\* Whatever keeps the held records shows each acknowledged vote once.
LEMMA Found ==
  ASSUME IInv, file # None, NEW c, Sound(c), NEW v, NEW a \in Nat \ {0},
         file[a] = End(v), HeldAt(a), a + 1 <= Len(c), c[a] = file[a]
  PROVE  /\ (a + 1) \div 3 \in DOMAIN ReloadOf(c) /\ 3 * ((a + 1) \div 3) = a + 1
         /\ FoundAt(c, v) = {(a + 1) \div 3}
<1>1. /\ Len(c) \in Nat /\ Shown(c) \in Nat /\ DOMAIN ReloadOf(c) = 1 .. Shown(c)
      /\ \A n \in 1 .. Shown(c) : 3 * n - 1 \in 1 .. Len(c) /\ c[3 * n - 1] = End(ReloadOf(c)[n])
  BY NewlinesAre, ReloadIs
<1>2. a \in 1 .. Len(c)
  BY <1>1
<1>3. a % 3 = 2
  BY <1>2 DEF Sound, Aligned, End
<1> DEFINE n == (a + 1) \div 3
           L == Len(c)
<1>4. n \in Nat /\ 3 * n = a + 1 /\ n >= 1 /\ 3 * n - 1 = a
  BY <1>3
<1>5. n <= Shown(c)
  <2>1. L \in Nat /\ a + 1 <= L
    BY <1>1
  <2> HIDE DEF n, L
  <2>2. n <= (L + 1) \div 3
    BY <1>4, <2>1
  <2> QED
    BY <2>2 DEF Shown, L
<1>6. n \in 1 .. Shown(c)
  BY <1>1, <1>4, <1>5
<1> HIDE DEF n, L
<1>7. \A x, y : End(x) = End(y) => x = y
  BY DEF End
<1>8. ReloadOf(c)[n] = v
  <2>1. c[3 * n - 1] = End(ReloadOf(c)[n])
    BY <1>1, <1>6
  <2> QED
    BY <1>4, <1>7, <2>1
<1>9. \A m \in 1 .. Shown(c) : ReloadOf(c)[m] = v => m = n
  <2> SUFFICES ASSUME NEW m \in 1 .. Shown(c), ReloadOf(c)[m] = v PROVE m = n
    OBVIOUS
  <2>1. 3 * m - 1 \in 1 .. Len(c) /\ c[3 * m - 1] = End(v)
    BY <1>1
  <2>2. End(v).half # 0
    BY DEF End
  <2>3. 3 * m - 1 = a
    BY <1>2, <2>1, <2>2 DEF Sound, Once
  <2> QED
    BY <1>1, <1>4, <2>3
<1>10. FoundAt(c, v) = {n}
  BY <1>1, <1>6, <1>8, <1>9 DEF FoundAt
<1> QED
  BY <1>1, <1>4, <1>6, <1>10 DEF n

LEMMA HoldsWhenLeft ==
  ASSUME IInv, file # None, NEW c, Sound(c),
         \A k \in Nat \ {0} : HeldAt(k) => k + 1 <= Len(c) /\ c[k] = file[k]
  PROVE  /\ WellFormed(c)
         /\ \A i \in DOMAIN acked : \E k \in DOMAIN ReloadOf(c) : FoundAt(c, acked[i]) = {k}
         /\ \A i, j \in DOMAIN acked :
               i < j => \A k \in FoundAt(c, acked[i]), l \in FoundAt(c, acked[j]) : k < l
<1>1. WellFormed(c)
  BY SoundIsWellFormed
<1>2. \A i \in DOMAIN acked : \E k \in DOMAIN ReloadOf(c) : FoundAt(c, acked[i]) = {k}
  <2> SUFFICES ASSUME NEW i \in DOMAIN acked
               PROVE  \E k \in DOMAIN ReloadOf(c) : FoundAt(c, acked[i]) = {k}
    OBVIOUS
  <2>1. PICK a \in Nat \ {0} : file[a] = End(acked[i]) /\ HeldAt(a)
    BY DEF IInv, AckedHeld
  <2> QED
    BY <2>1, Found
<1>3. ASSUME NEW i \in DOMAIN acked, NEW j \in DOMAIN acked, i < j,
             NEW k \in FoundAt(c, acked[i]), NEW l \in FoundAt(c, acked[j])
      PROVE  k < l
  <2>1. PICK a \in Nat \ {0} : file[a] = End(acked[i]) /\ HeldAt(a)
    BY DEF IInv, AckedHeld
  <2>2. PICK b \in Nat \ {0} : file[b] = End(acked[j]) /\ HeldAt(b)
    BY DEF IInv, AckedHeld
  <2>3. FoundAt(c, acked[i]) = {(a + 1) \div 3} /\ 3 * ((a + 1) \div 3) = a + 1
    BY <2>1, Found
  <2>4. FoundAt(c, acked[j]) = {(b + 1) \div 3} /\ 3 * ((b + 1) \div 3) = b + 1
    BY <2>2, Found
  <2>5. a \in 1 .. Len(file) /\ b \in 1 .. Len(file)
    <3>1. Len(file) \in Nat
      BY NewlinesAre DEF IInv, Contents
    <3> QED
      BY <2>1, <2>2, <3>1 DEF HeldAt
  <2>6. a < b
    BY <1>3, <2>1, <2>2, <2>5 DEF IInv, AckedOrdered
  <2>7. k = (a + 1) \div 3 /\ l = (b + 1) \div 3
    BY <2>3, <2>4
  <2> QED
    BY <2>3, <2>4, <2>6, <2>7
<1> QED
  BY <1>1, <1>2, <1>3

LEMMA InvImpliesSurvival ==
  ASSUME IInv
  PROVE  AckedSurvive
<1>1. file = None \/ ~named => acked = <<>>
  BY DEF IInv, Contents, NameHeld
<1>2. CASE file = None
  <2>1. Survivors \cup ({file} \ {None}) = {<<>>}
    BY <1>2 DEF Survivors
  <2>2. acked = <<>> /\ DOMAIN acked = {}
    BY <1>1, <1>2
  <2>3. Sound(<<>>)
    BY DEF Sound, Aligned, Once
  <2> QED
    BY <1>1, <2>1, <2>2, <2>3, SoundIsWellFormed DEF AckedSurvive
<1>3. CASE file # None
  <2>1. Sound(file) /\ Sound(disk)
    BY <1>3 DEF IInv, Contents
  <2>2. ASSUME NEW c \in Survivors \cup ({file} \ {None})
        PROVE  Sound(c) /\ \A k \in Nat \ {0} : HeldAt(k) => k + 1 <= Len(c) /\ c[k] = file[k]
    <3>1. CASE c = file
      BY <2>1, <3>1 DEF HeldAt
    <3>2. CASE c \in Survivors
      <4>1. /\ Sound(c)
            /\ \A m \in Nat : m <= Len(file) /\ m <= Len(disk) /\ (\A k \in 1 .. m : disk[k] = file[k])
                            => m <= Len(c) /\ \A k \in 1 .. m : c[k] = file[k]
        BY <1>3, <2>1, <3>2, SurvivorsAre
      <4>2. ASSUME NEW k \in Nat \ {0}, HeldAt(k) PROVE k + 1 <= Len(c) /\ c[k] = file[k]
        <5>1. k + 1 <= Len(file) /\ k + 1 <= Len(disk) /\ \A m \in 1 .. k + 1 : disk[m] = file[m]
          BY <4>2 DEF HeldAt
        <5>2. k + 1 \in Nat /\ k \in 1 .. k + 1
          OBVIOUS
        <5> QED
          BY <4>1, <5>1, <5>2
      <4> QED
        BY <4>1, <4>2
    <3> QED
      BY <2>2, <3>1, <3>2
  <2> QED
    BY <1>1, <1>3, <2>2, HoldsWhenLeft DEF AckedSurvive
<1> QED
  BY <1>2, <1>3

\* Where a sync makes a new file's name durable, the journal's inductive invariant holds.
LEMMA Invariance ==
  ASSUME FileSyncCoversName
  PROVE  Spec => []IInv
<1>1. Init => IInv
  BY InitHolds
<1>2. IInv /\ [Next]_vars => IInv'
  BY NextHolds
<1> QED
  BY <1>1, <1>2, PTL DEF Spec

\* The variables keep their types through every failure, crash and power loss.
THEOREM TypeCorrect ==
  ASSUME FileSyncCoversName
  PROVE  Spec => []TypeOK
<1>1. IInv => TypeOK
  BY DEF IInv
<1> QED
  BY <1>1, Invariance, PTL

\* For any handles and votes: whatever a crash or a power loss leaves of the file can be
\* parsed, and has every vote record() acknowledged, once and in order (journal.rs record,
\* open), where syncing a new file makes its name durable too.
THEOREM AckedAlwaysSurvive ==
  ASSUME FileSyncCoversName
  PROVE  Spec => []AckedSurvive
<1>1. IInv => AckedSurvive
  BY InvImpliesSurvival
<1> QED
  BY <1>1, Invariance, PTL

-----------------------------------------------------------------------------
(* The file implements the log. *)

SafeEntries == {n \in DOMAIN Reload : \E j \in DOMAIN acked : acked[j] = Reload[n]}

LEMMA ReloadIsSeq ==
  ASSUME NEW f, Sound(f)
  PROVE  ReloadOf(f) \in Seq(Votes) /\ Len(ReloadOf(f)) = Shown(f)
<1>1. /\ Shown(f) \in Nat /\ ReloadOf(f) = [n \in 1 .. Shown(f) |-> f[3 * n - 1].v]
      /\ \A n \in 1 .. Shown(f) : 3 * n - 1 \in 1 .. Len(f) /\ f[3 * n - 1] = End(ReloadOf(f)[n])
  BY ReloadIs
<1>2. \A n \in 1 .. Shown(f) : f[3 * n - 1].v \in Votes
  <2> SUFFICES ASSUME NEW n \in 1 .. Shown(f) PROVE f[3 * n - 1].v \in Votes
    OBVIOUS
  <2>1. 3 * n - 1 \in 1 .. Len(f) /\ f[3 * n - 1] = End(ReloadOf(f)[n])
    BY <1>1
  <2>2. f[3 * n - 1].half # 0
    BY <2>1 DEF End
  <2>3. f[3 * n - 1] \in Cell
    BY <2>1, NewlinesAre
  <2> QED
    BY <2>2, <2>3, CellIs
<1> QED
  BY <1>1, <1>2

\* A content that shows the beginning of what another one shows.
LEMMA ShowsPrefix ==
  ASSUME NEW f, NEW g, Sound(f), Sound(g), Shown(g) <= Shown(f),
         \A n \in 1 .. Shown(g) : g[3 * n - 1] = f[3 * n - 1]
  PROVE  ReloadOf(g) = SubSeq(ReloadOf(f), 1, Shown(g))
<1> DEFINE r == ReloadOf(f)
           s == ReloadOf(g)
           t == SubSeq(r, 1, Shown(g))
<1>1. /\ Shown(f) \in Nat /\ r = [n \in 1 .. Shown(f) |-> f[3 * n - 1].v]
      /\ Shown(g) \in Nat /\ s = [n \in 1 .. Shown(g) |-> g[3 * n - 1].v]
      /\ r \in Seq(Votes) /\ Len(r) = Shown(f) /\ s \in Seq(Votes) /\ Len(s) = Shown(g)
  BY ReloadIs, ReloadIsSeq
<1> HIDE DEF r, s
<1>2. /\ t \in Seq(Votes) /\ Len(t) = Shown(g) /\ \A n \in 1 .. Shown(g) : t[n] = r[n]
  <2>1. \A i \in 1 .. Shown(g) : r[i] \in Votes
    BY <1>1
  <2>2. /\ t \in Seq(Votes) /\ Len(t) = IF 1 <= Shown(g) THEN Shown(g) - 1 + 1 ELSE 0
        /\ \A i \in 1 .. Shown(g) - 1 + 1 : t[i] = r[1 + i - 1]
    BY <1>1, <2>1, SubSeqProperties
  <2>3. Shown(g) \in Nat
    BY <1>1
  <2> HIDE DEF t
  <2> QED
    BY <2>2, <2>3
<1> HIDE DEF t
<1>3. \A n \in 1 .. Shown(g) : s[n] = t[n]
  <2> SUFFICES ASSUME NEW n \in 1 .. Shown(g) PROVE s[n] = t[n]
    OBVIOUS
  <2>1. n \in 1 .. Shown(f)
    BY <1>1
  <2>2. s[n] = g[3 * n - 1].v
    BY <1>1
  <2>3. r[n] = f[3 * n - 1].v
    BY <1>1, <2>1
  <2>4. t[n] = r[n]
    BY <1>2
  <2> QED
    BY <2>2, <2>3, <2>4
<1>4. s = t
  BY <1>1, <1>2, <1>3, SeqEqual
<1> QED
  BY <1>4 DEF r, s, t

\* The safe entries are those of the held records.
SafeFacts ==
    /\ SafeEntries \subseteq 1 .. Shown(file) /\ Shown(file) \in Nat
    /\ LastSafe \in 0 .. Shown(file)
    /\ LastSafe = Max(SafeEntries \cup {0})
    /\ \A n : n \in SafeEntries <=> \E j \in DOMAIN acked : n \in FoundAt(file, acked[j])

LEMMA SafeIs == IInv /\ file # None => SafeFacts
<1> SUFFICES ASSUME IInv, file # None PROVE SafeFacts
  OBVIOUS
<1>1. Reload = ReloadOf(file) /\ Shown(file) \in Nat /\ DOMAIN ReloadOf(file) = 1 .. Shown(file)
  BY ReloadIs DEF Reload, IInv, Contents
<1>2. SafeEntries \subseteq 1 .. Shown(file)
  BY <1>1 DEF SafeEntries
<1>3. LastSafe = Max(SafeEntries \cup {0})
  BY DEF LastSafe, SafeEntries
<1>4. SafeEntries \cup {0} \subseteq 0 .. Shown(file) /\ SafeEntries \cup {0} # {}
  BY <1>1, <1>2
<1>5. LastSafe \in 0 .. Shown(file)
  BY <1>1, <1>3, <1>4, MaxMember
<1>6. \A n : n \in SafeEntries <=> \E j \in DOMAIN acked : n \in FoundAt(file, acked[j])
  BY <1>1 DEF SafeEntries, FoundAt
<1> QED
  BY <1>1, <1>2, <1>3, <1>5, <1>6 DEF SafeFacts

LEMMA NothingSafe == acked = <<>> => LastSafe = 0
<1> SUFFICES ASSUME acked = <<>> PROVE LastSafe = 0
  OBVIOUS
<1>1. DOMAIN acked = {}
  OBVIOUS
<1>2. {i \in DOMAIN Reload : \E j \in DOMAIN acked : acked[j] = Reload[i]} = {}
  BY <1>1
<1>3. Max({} \cup {0}) = 0
  BY DEF Max
<1> QED
  BY <1>2, <1>3 DEF LastSafe

\* The same records are safe after a step that keeps what is held.
LEMMA SafeStays ==
  ASSUME IInv, IInv', file # None, file' # None, acked' = acked, Stays
  PROVE  LastSafe' = LastSafe /\ LastSafe \in 0 .. Shown(file')
<1>1. Sound(file) /\ Sound(file')
  BY DEF IInv, Contents
<1>2. ASSUME NEW j \in DOMAIN acked
      PROVE  FoundAt(file', acked[j]) = FoundAt(file, acked[j])
  <2>1. PICK a \in Nat \ {0} : file[a] = End(acked[j]) /\ HeldAt(a)
    BY DEF IInv, AckedHeld
  <2>2. a + 1 <= Len(file') /\ file'[a] = file[a] /\ a + 1 <= Len(file)
    BY <2>1 DEF Stays, HeldAt
  <2>3. FoundAt(file, acked[j]) = {(a + 1) \div 3}
    BY <1>1, <2>1, <2>2, Found
  <2>4. FoundAt(file', acked[j]) = {(a + 1) \div 3}
    BY <1>1, <2>1, <2>2, Found
  <2> QED
    BY <2>3, <2>4
<1>3. \A n : n \in SafeEntries <=> \E j \in DOMAIN acked : n \in FoundAt(file, acked[j])
  BY SafeIs DEF SafeFacts
<1>4. /\ \A n : n \in SafeEntries' <=> \E j \in DOMAIN acked' : n \in FoundAt(file', acked'[j])
      /\ LastSafe' = Max(SafeEntries' \cup {0}) /\ LastSafe' \in 0 .. Shown(file')
  <2>1. (IInv /\ file # None => SafeFacts)'
    BY SafeIs, PTL
  <2> QED
    BY <2>1 DEF SafeFacts
<1>5. SafeEntries' = SafeEntries
  <2>1. \A n : n \in SafeEntries' <=> \E j \in DOMAIN acked : n \in FoundAt(file', acked[j])
    BY <1>4
  <2>2. \A n : n \in SafeEntries' <=> n \in SafeEntries
    BY <1>2, <1>3, <2>1
  <2> QED
    BY <2>2, Zenon
<1>6. LastSafe = Max(SafeEntries \cup {0})
  BY SafeIs DEF SafeFacts
<1> QED
  BY <1>4, <1>5, <1>6

\* A step after which the file shows what it showed, or only the beginning of it.
LEMMA Shrinks ==
  ASSUME IInv, IInv', file # None, file' # None, acked' = acked, Stays,
         Shown(file') <= Shown(file),
         \A n \in 1 .. Shown(file') : file'[3 * n - 1] = file[3 * n - 1]
  PROVE  [Log!Next]_<<Reload, LastSafe>>
<1>1. Sound(file) /\ Sound(file') /\ Shown(file) \in Nat /\ Shown(file') \in Nat
  BY ReloadIs DEF IInv, Contents
<1>2. Reload = ReloadOf(file) /\ Reload' = ReloadOf(file')
  BY DEF Reload
<1>3. Reload' = SubSeq(Reload, 1, Shown(file')) /\ Len(Reload') = Shown(file')
  BY <1>1, <1>2, ShowsPrefix, ReloadIsSeq
<1>4. Reload \in Seq(Votes) /\ Len(Reload) = Shown(file)
  BY <1>1, <1>2, ReloadIsSeq
<1>5. LastSafe' = LastSafe /\ LastSafe \in 0 .. Shown(file')
  BY SafeStays
<1>6. CASE Shown(file') = Shown(file)
  <2>1. Reload' = Reload
    BY <1>3, <1>4, <1>6, SubSeqFull
  <2> QED
    BY <1>5, <2>1
<1>7. CASE Shown(file') < Shown(file)
  <2>1. Shown(file') \in LastSafe .. Shown(file) - 1
    BY <1>1, <1>5, <1>7
  <2>2. Log!Drop
    BY <1>3, <1>4, <1>5, <2>1 DEF Log!Drop
  <2> QED
    BY <2>2 DEF Log!Next
<1> QED
  BY <1>1, <1>6, <1>7

\* Each step that changes what a reload shows, as a step of the log.
LEMMA AppendWrites ==
  ASSUME IInv, IInv', NEW h \in Handles, NEW v \in Votes \ used, AppendRecord(h, v)
  PROVE  [Log!Next]_<<Reload, LastSafe>>
<1>1. pc[h] = "ready" /\ acked' = acked
  BY DEF AppendRecord
<1>2. file # None /\ Sound(file) /\ Known(file) /\ Len(file) \in Nat /\ Len(file) % 3 = 0
  <2>1. file # None /\ Sound(file) /\ Known(file)
    BY <1>1, OthersAreClosed DEF IInv, Contents
  <2> QED
    BY <1>1, <2>1, NewlinesAre DEF IInv, WriterAt
<1>3. PICK n \in 0 .. 3 : file' = file \o SubSeq(Line(v), 1, n)
  <2>1. Len(Line(v)) = 3
    BY LineIs
  <2> QED
    BY <2>1 DEF AppendRecord
<1>4. \A k \in 1 .. Len(file) : file[k].half # 0 => file[k].v # v
  BY <1>2 DEF Known
<1>5. /\ Sound(file') /\ Len(file') = Len(file) + n
      /\ \A k \in 1 .. Len(file) : file'[k] = file[k]
  <2>1. Longer(file', file, v, n)
    BY <1>2, <1>3, <1>4, AppendIs
  <2> QED
    BY <2>1 DEF Longer
<1>6. file' # None
  BY <1>5, NoFileAssumption DEF Sound
<1>7. Stays
  BY <1>1, AppendStep
<1>8. /\ Shown(file) \in Nat /\ 3 * Shown(file) = Len(file)
      /\ Shown(file') = IF n <= 1 THEN Shown(file) ELSE Shown(file) + 1
  BY <1>2, <1>5 DEF Shown
<1>9. \A m \in 1 .. Shown(file) : file'[3 * m - 1] = file[3 * m - 1]
  <2>1. \A m \in 1 .. Shown(file) : 3 * m - 1 \in 1 .. Len(file)
    BY <1>2, ReloadIs
  <2> QED
    BY <1>5, <2>1
<1>10. CASE n <= 1
  <2>1. Shown(file') = Shown(file)
    BY <1>8, <1>10
  <2> QED
    BY <1>1, <1>2, <1>6, <1>7, <1>8, <1>9, <2>1, Shrinks
<1>11. CASE ~ (n <= 1)
  <2>1. Shown(file') = Shown(file) + 1
    BY <1>8, <1>11
  <2>2. ReloadOf(file) = SubSeq(ReloadOf(file'), 1, Shown(file))
    <3>1. Shown(file) <= Shown(file')
      BY <1>8, <2>1
    <3>2. \A m \in 1 .. Shown(file) : file[3 * m - 1] = file'[3 * m - 1]
      BY <1>9
    <3> QED
      BY <1>2, <1>5, <3>1, <3>2, ShowsPrefix
  <2>3. Reload = ReloadOf(file) /\ Reload' = ReloadOf(file')
    BY <1>2, <1>6 DEF Reload
  <2>4. Len(Reload) = Shown(file) /\ Len(Reload') = Shown(file')
    BY <1>2, <1>5, <2>3, ReloadIsSeq
  <2>5. LastSafe' = LastSafe
    BY <1>1, <1>2, <1>6, <1>7, SafeStays
  <2>6. Log!Write
    BY <2>1, <2>2, <2>3, <2>4, <2>5 DEF Log!Write
  <2> QED
    BY <2>6 DEF Log!Next
<1> QED
  BY <1>10, <1>11

LEMMA SyncAcknowledges ==
  ASSUME IInv, IInv', FileSyncCoversName, NEW h \in Handles, SyncRecord(h)
  PROVE  Log!Next
<1>1. PICK w \in Votes : /\ acked' = Append(acked, w) /\ Len(file) % 3 = 0 /\ Len(file) >= 3
                         /\ file[Len(file) - 1] = End(w)
  BY SyncRecordStep
<1>2. file' = file /\ file # None /\ Sound(file) /\ Len(file) \in Nat
  <2>1. file' = file /\ pc[h] = "written"
    BY DEF SyncRecord
  <2> QED
    BY <2>1, OthersAreClosed, NewlinesAre DEF IInv, Contents
<1>3. Reload' = Reload /\ Reload = ReloadOf(file) /\ Len(Reload) = Shown(file)
  BY <1>2, ReloadIsSeq DEF Reload
<1>4. /\ Shown(file) \in Nat /\ Shown(file) >= 1 /\ 3 * Shown(file) = Len(file)
      /\ 3 * Shown(file) - 1 = Len(file) - 1
  BY <1>1, <1>2 DEF Shown
<1>5. Reload[Shown(file)] = w /\ Shown(file) \in DOMAIN Reload
  <2>1. Shown(file) \in 1 .. Shown(file)
    BY <1>4
  <2>2. /\ ReloadOf(file) = [n \in 1 .. Shown(file) |-> file[3 * n - 1].v]
    BY <1>2, ReloadIs
  <2>3. ReloadOf(file)[Shown(file)] = file[3 * Shown(file) - 1].v /\ Shown(file) \in DOMAIN ReloadOf(file)
    BY <2>1, <2>2
  <2> QED
    BY <1>1, <1>3, <1>4, <2>3 DEF End
<1>6. acked'[Len(acked) + 1] = w /\ Len(acked) + 1 \in DOMAIN acked'
  <2>1. acked \in Seq(Votes)
    BY SeqMonotonic DEF IInv, TypeOK
  <2> QED
    BY <1>1, <2>1
<1>7. SafeFacts'
  <2>1. (IInv /\ file # None => SafeFacts)'
    BY SafeIs, PTL
  <2> QED
    BY <1>2, <2>1
<1>8. Shown(file) \in SafeEntries'
  BY <1>3, <1>5, <1>6 DEF SafeEntries
<1>9. LastSafe' = Shown(file)
  <2>1. SafeEntries' \subseteq 1 .. Shown(file) /\ LastSafe' = Max(SafeEntries' \cup {0})
    BY <1>2, <1>7 DEF SafeFacts
  <2> DEFINE S == SafeEntries' \cup {0}
  <2>2. S \subseteq Int /\ Shown(file) \in S /\ \A y \in S : y <= Shown(file)
    BY <1>4, <1>8, <2>1
  <2>3. Max(S) = Shown(file)
    <3> HIDE DEF S
    <3> QED
      BY <2>2, MaxIs
  <2> QED
    BY <2>1, <2>3
<1> QED
  BY <1>3, <1>9 DEF Log!Next, Log!Acknowledge

LEMMA PowerLossDrops ==
  ASSUME IInv, IInv', PowerLoss
  PROVE  [Log!Next]_<<Reload, LastSafe>>
<1>1. acked' = acked
  BY DEF PowerLoss
<1>2. CASE file' = None
  <2>1. acked = <<>> /\ acked' = <<>>
    BY <1>1, <1>2 DEF IInv, Contents
  <2>2. LastSafe = 0 /\ LastSafe' = 0
    <3>1. (acked = <<>> => LastSafe = 0)'
      BY NothingSafe, PTL
    <3> QED
      BY <2>1, <3>1, NothingSafe
  <2>3. Reload' = <<>>
    BY <1>2 DEF Reload
  <2>4. CASE Reload = <<>>
    BY <2>2, <2>3, <2>4
  <2>5. CASE Reload # <<>>
    <3>1. file # None
      BY <2>5 DEF Reload
    <3>2. Reload \in Seq(Votes)
      BY <3>1, ReloadIsSeq DEF Reload, IInv, Contents
    <3>3. Len(Reload) \in Nat /\ Len(Reload) # 0 /\ Len(Reload') = 0
      BY <2>3, <2>5, <3>2, EmptySeq
    <3>4. SubSeq(Reload, 1, 0) = <<>>
      BY SubSeqEmpty
    <3>5. Log!Drop
      BY <2>2, <2>3, <3>3, <3>4 DEF Log!Drop
    <3> QED
      BY <3>5 DEF Log!Next
  <2> QED
    BY <2>4, <2>5
<1>3. CASE file' # None
  <2>1. file # None /\ Stays
    BY <1>3, PowerLossStep
  <2>2. PICK c \in Survivors : file' = c
    BY <1>3 DEF PowerLoss
  <2>3. Sound(file) /\ Sound(disk) /\ DiskBehind
    BY <2>1 DEF IInv, Contents
  <2>4. Sound(c) /\ (c = disk \/ \E n \in 0 .. Len(file) : c = SubSeq(file, 1, n))
    BY <2>1, <2>3, SurvivorsAre
  <2>5. Shown(c) <= Shown(file) /\ \A n \in 1 .. Shown(c) : c[3 * n - 1] = file[3 * n - 1]
    <3>1. CASE c = disk
      BY <2>3, <3>1 DEF DiskBehind
    <3>2. CASE \E n \in 0 .. Len(file) : c = SubSeq(file, 1, n)
      <4>1. PICK n \in 0 .. Len(file) : c = SubSeq(file, 1, n)
        BY <3>2
      <4>2. Len(c) = n /\ (\A k \in 1 .. n : c[k] = file[k]) /\ Len(file) \in Nat
        BY <2>3, <4>1, PrefixIs, NewlinesAre
      <4>3. \A m \in 1 .. Shown(c) : 3 * m - 1 \in 1 .. n
        BY <2>4, <4>2, ReloadIs
      <4>4. Shown(c) <= Shown(file)
        BY <4>2 DEF Shown
      <4> QED
        BY <4>2, <4>3, <4>4
    <3> QED
      BY <2>4, <3>1, <3>2
  <2> QED
    BY <1>1, <1>3, <2>1, <2>2, <2>5, Shrinks
<1> QED
  BY <1>2, <1>3

LEMMA RepairShows ==
  ASSUME IInv, IInv', NEW h \in Handles, Repair(h)
  PROVE  [Log!Next]_<<Reload, LastSafe>>
<1>1. pc[h] = "opened" /\ acked' = acked
  BY DEF Repair
<1>2. file # None /\ Sound(file) /\ Stays
  BY <1>1, OthersAreClosed, RepairStep DEF IInv, Contents
<1>3. file' = Repaired(file)
  BY <1>2, SoundIsWellFormed DEF Repair
<1>4. /\ Sound(file') /\ Len(file') = 3 * Shown(file) /\ Shown(file) \in Nat
      /\ \A k \in 1 .. Len(file) : k <= 3 * Shown(file) => file'[k] = file[k]
      /\ \A n \in 1 .. Shown(file) : 3 * n - 1 \in 1 .. Len(file)
  BY <1>2, <1>3, RepairedIs, ReloadIs
<1>5. Shown(file') = Shown(file) /\ \A n \in 1 .. Shown(file) : 3 * n - 1 <= 3 * Shown(file)
  <2>1. (3 * Shown(file) + 1) \div 3 = Shown(file)
    BY <1>4
  <2>2. Shown(file') = (Len(file') + 1) \div 3
    BY DEF Shown
  <2> QED
    BY <1>4, <2>1, <2>2
<1>6. \A n \in 1 .. Shown(file') : file'[3 * n - 1] = file[3 * n - 1]
  BY <1>4, <1>5
<1>7. file' # None
  BY <1>4, NoFileAssumption DEF Sound
<1> QED
  BY <1>1, <1>2, <1>4, <1>5, <1>6, <1>7, Shrinks

LEMMA RollbackDrops ==
  ASSUME IInv, IInv', NEW h \in Handles, Rollback(h)
  PROVE  [Log!Next]_<<Reload, LastSafe>>
<1>1. pc[h] = "failed" /\ acked' = acked /\ file' = SubSeq(file, 1, before[h])
  BY DEF Rollback
<1>2. file # None /\ Sound(file) /\ Stays
  BY <1>1, OthersAreClosed, RollbackStep DEF IInv, Contents
<1>3. before[h] \in 0 .. Len(file) /\ Len(file) \in Nat
  BY <1>1, <1>2, NewlinesAre DEF IInv, WriterAt, TypeOK, Writing
<1>4. Sound(file') /\ Len(file') = before[h] /\ \A k \in 1 .. before[h] : file'[k] = file[k]
  BY <1>1, <1>2, <1>3, PrefixIs
<1>5. Shown(file') <= Shown(file)
  BY <1>3, <1>4 DEF Shown
<1>6. \A n \in 1 .. Shown(file') : 3 * n - 1 \in 1 .. before[h]
  BY <1>4, ReloadIs
<1>7. \A n \in 1 .. Shown(file') : file'[3 * n - 1] = file[3 * n - 1]
  BY <1>4, <1>6
<1>8. file' # None
  BY <1>4, NoFileAssumption DEF Sound
<1> QED
  BY <1>1, <1>2, <1>5, <1>7, <1>8, Shrinks

LEMMA OpenShows ==
  ASSUME IInv, NEW h \in Handles, Open(h)
  PROVE  Reload' = Reload /\ LastSafe' = LastSafe
<1>1. acked' = acked /\ file' = IF file = None THEN <<>> ELSE file
  BY DEF Open
<1>2. Reload' = Reload
  <2>1. CASE file = None
    <3>1. Sound(<<>>) /\ Shown(<<>>) = 0
      BY DEF Sound, Aligned, Once, Shown
    <3>2. <<>> # None
      BY <3>1, NoFileAssumption DEF Sound
    <3>3. ReloadOf(<<>>) = <<>>
      BY <3>1, ReloadIs, ReloadIsSeq, EmptySeq
    <3> QED
      BY <1>1, <2>1, <3>2, <3>3 DEF Reload
  <2>2. CASE file # None
    BY <1>1, <2>2 DEF Reload
  <2> QED
    BY <2>1, <2>2
<1> QED
  BY <1>1, <1>2 DEF LastSafe

\* The journal file, with its torn records, rollbacks, repairs, crashes and power losses,
\* implements the log the rounds are written against (VoteLog): what record() acknowledged
\* stays for ever and in order, and only what it did not may come or go (journal.rs).
THEOREM ImplementsVoteLog ==
  ASSUME FileSyncCoversName
  PROVE  Spec => ImplementsLog
<1>1. Init => Log!Init
  <2> SUFFICES ASSUME Init PROVE Log!Init
    OBVIOUS
  <2>1. Reload = <<>> /\ acked = <<>>
    BY DEF Init, Reload
  <2> QED
    BY <2>1, NothingSafe DEF Log!Init
<1>2. IInv /\ IInv' /\ [Next]_vars => [Log!Next]_<<Reload, LastSafe>>
  <2> SUFFICES ASSUME IInv, IInv', [Next]_vars
               PROVE  [Log!Next]_<<Reload, LastSafe>>
    OBVIOUS
  <2>1. CASE UNCHANGED vars
    <3>1. Reload' = Reload
      BY <2>1 DEF vars, Reload
    <3> QED
      BY <2>1, <3>1 DEF vars, LastSafe
  <2>2. CASE PowerLoss
    BY <2>2, PowerLossDrops
  <2>3. ASSUME NEW h \in Handles, Open(h) PROVE [Log!Next]_<<Reload, LastSafe>>
    BY <2>3, OpenShows
  <2>4. ASSUME NEW h \in Handles, StillStep(h) PROVE [Log!Next]_<<Reload, LastSafe>>
    <3>1. file' = file /\ acked' = acked
      BY <2>4, StillSteps
    <3>2. Reload' = Reload
      BY <3>1 DEF Reload
    <3>3. LastSafe' = LastSafe
      BY <3>1, <3>2 DEF LastSafe
    <3> QED
      BY <3>2, <3>3
  <2>5. ASSUME NEW h \in Handles,
               \/ Repair(h) \/ SyncRecord(h) \/ Rollback(h)
               \/ \E v \in Votes \ used : AppendRecord(h, v)
        PROVE  [Log!Next]_<<Reload, LastSafe>>
    BY <2>5, RepairShows, SyncAcknowledges, RollbackDrops, AppendWrites
  <2> QED
    BY <2>1, <2>2, <2>3, <2>4, <2>5, NextCases
<1> QED
  BY <1>1, <1>2, Invariance, PTL DEF Spec, ImplementsLog, Log!Spec

-----------------------------------------------------------------------------
(* The faucet: what it keeps, and what the proofs need to know of it. *)

IsAsk(a) ==
    a = [by |-> a.by, to |-> a.to, sats |-> a.sats, asset |-> a.asset, units |-> a.units,
         life |-> a.life, at |-> a.at, n |-> a.n, state |-> a.state]
IsBuilt(b) == b = [ask |-> b.ask, tx |-> b.tx, spent |-> b.spent] /\ IsAsk(b.ask)
IsFaucet(f) ==
    f = [phase |-> f.phase, grant |-> f.grant, posted |-> f.posted, file |-> f.file, held |-> f.held,
         seen |-> f.seen, paid |-> f.paid, recent |-> f.recent, life |-> f.life, asset |-> f.asset]
IsViews(v) == (\E S : v \in Seq(S)) /\ v # <<>>

FaucetTypes ==
    /\ IsViews(views) /\ clock \in Nat
    /\ IsFaucet(faucet) /\ faucet.phase \in {"idle", "post", "publish", "save", "down"}
    /\ faucet.life \in Nat /\ faucet.file \in Nat /\ faucet.file < Len(views)
    /\ faucet.recent \in Seq(Nat) /\ saved.recent \in Seq(Nat)
    /\ \A x \in faucet.held : x[2] \in Nat /\ x[2] <= clock
    /\ \A p \in faucet.paid \cup saved.paid : p[2] \in Nat /\ p[2] <= clock
    /\ IsFiniteSet(built) /\ \A b \in built : IsBuilt(b)

\* What is known of one grant, and of two.
GrantTypes ==
    \A b \in Grants :
        /\ b.ask.n \in Nat /\ b.ask.n < Cardinality(built)
        /\ b.ask.at \in Nat /\ b.ask.at <= clock
        /\ b.ask.life \in Nat /\ b.ask.life <= faucet.life
        /\ b.ask.state \in {"out", "counted", "kept", "dropped"}
Numbered == \A a, b \in Grants : a.ask.n = b.ask.n => a = b

\* A grant that this process has not settled is the one it is at, and the last.
InFlight == faucet.phase \in {"post", "publish"}
Pending ==
    /\ InFlight =>
          /\ faucet.grant.at \in Nat /\ faucet.grant.at <= clock
          /\ \A b \in Grants : b.ask.at <= faucet.grant.at
    /\ \A b \in Grants :
          b.ask.state = "out" /\ b.ask.life = faucet.life =>
             /\ InFlight
             /\ faucet.grant.to = b.ask.to /\ faucet.grant.at = b.ask.at /\ faucet.grant.tx = b.tx
             /\ \A a \in Grants : a.ask.n <= b.ask.n

FaucetBase == FaucetTypes /\ GrantTypes /\ Numbered /\ Pending

-----------------------------------------------------------------------------
(* The limits. *)

\* What the process knows of now, and what its file shows to the next one.
NowKnown == {b \in Grants : b.ask.state = "kept" \/ (b.ask.state = "counted" /\ b.ask.life = faucet.life)}
KeptGrants == {b \in Grants : b.ask.state = "kept"}

PaidCovers(paid, S) == \A b \in S : \E p \in paid : p[1] = b.ask.to /\ p[2] >= b.ask.at

\* Every grant of the last hour has an entry of its own.
Fresh(b, now) == now - b.ask.at < Hour
Slot(f, recent, S, now) ==
    /\ \A b \in S : Fresh(b, now) => f[b.ask.n] \in 1 .. Len(recent) /\ recent[f[b.ask.n]] = b.ask.at
    /\ \A b, c \in S : Fresh(b, now) /\ Fresh(c, now) /\ f[b.ask.n] = f[c.ask.n] => b.ask.n = c.ask.n
RecentCovers(recent, S, now) == \E f : Slot(f, recent, S, now)

Memory ==
    /\ PaidCovers(faucet.paid, NowKnown) /\ RecentCovers(faucet.recent, NowKnown, clock)
    /\ PaidCovers(saved.paid, KeptGrants) /\ RecentCovers(saved.recent, KeptGrants, clock)

\* What a grant knew of.
KnownTo(late, S) == {b \in S : b.ask.n < late.ask.n /\ ~Forgotten(b, late)}
Spaced == \A late \in Grants : \A b \in KnownTo(late, Grants) :
              b.ask.to = late.ask.to => late.ask.at - b.ask.at >= PerAddress
Hourly(late, S) == {b \in KnownTo(late, S) : late.ask.at - b.ask.at < Hour}
Rationed == \A late \in Grants : Cardinality(Hourly(late, Grants)) < PerHour

LimitsInv == Memory /\ Spaced /\ Rationed

-----------------------------------------------------------------------------
(* The coins. *)

MyOps(coins) == Ops(FromState(coins, Me))

\* A coin stays until it is spent, and is never made again.
Continuous(v) ==
    \A m \in 1 .. Len(v) : \A d \in v[m] : \A i \in 1 .. m :
        d.op \in Ops(v[i]) => \A l \in i .. m : d \in v[l]

\* A transaction's inputs are gone when its outputs are there.
Born(v) ==
    \A k \in 1 .. Len(v) : \A c \in v[k] :
        \/ c.op[1] = <<"genesis">>
        \/ \E j \in 1 .. k - 1 : /\ c.op[1][1] # {} /\ c.op[1][1] \subseteq Ops(v[j])
                                 /\ c.op[1][1] \cap Ops(v[j + 1]) = {}

PoolSpends == \A t \in pool : t.ins # {} /\ t.ins \subseteq Ops(views[Len(views)])

\* A grant spends coins of a file that was read.
FromTheFile ==
    \A b \in Grants : \A op \in b.tx.ins : \E k \in 1 .. faucet.file + 1 : op \in Ops(views[k])

\* What this process has granted is held back, or gone, or old.
HeldOr(op, at) ==
    \/ \E x \in faucet.held : x[1] = op /\ x[2] >= at
    \/ \A h \in faucet.file + 1 .. Len(views) : op \notin MyOps(views[h])
    \/ clock - at >= Hold
HeldFast ==
    \A b \in Grants : b.ask.life = faucet.life /\ b.ask.state \in {"counted", "kept"} =>
        \A op \in b.tx.ins : HeldOr(op, b.ask.at)

CoinsInv == Continuous(views) /\ Born(views) /\ PoolSpends /\ FromTheFile /\ HeldFast /\ GrantsNeverConflict

-----------------------------------------------------------------------------
(* The operators and the steps. *)

LEMMA SinceIs ==
  ASSUME NEW now \in Nat, NEW t \in Nat
  PROVE  Since(now, t) = IF now >= t THEN now - t ELSE 0
<1> DEFINE S == {0, now - t}
<1>1. CASE now >= t
  <2>1. S \subseteq Int /\ now - t \in S /\ \A y \in S : y <= now - t
    BY <1>1
  <2>2. Max(S) = now - t
    <3> HIDE DEF S
    <3> QED
      BY <2>1, MaxIs
  <2> QED
    BY <1>1, <2>2 DEF Since
<1>2. CASE now < t
  <2>1. S \subseteq Int /\ 0 \in S /\ \A y \in S : y <= 0
    BY <1>2
  <2>2. Max(S) = 0
    <3> HIDE DEF S
    <3> QED
      BY <2>1, MaxIs
  <2> QED
    BY <1>2, <2>2 DEF Since
<1> QED
  BY <1>1, <1>2

\* Recent drops a prefix, of times an hour old.
LEMMA RecentIs ==
  ASSUME NEW recent \in Seq(Nat), NEW now \in Nat
  PROVE  \E k \in 0 .. Len(recent) :
            /\ Recent(recent, now) \in Seq(Nat) /\ Len(Recent(recent, now)) = Len(recent) - k
            /\ \A i \in 1 .. Len(recent) - k : Recent(recent, now)[i] = recent[i + k]
            /\ \A j \in 1 .. k : Since(now, recent[j]) >= Hour
<1> DEFINE S == {i \in 0 .. Len(recent) : \A j \in 1 .. i : Since(now, recent[j]) >= Hour}
<1>1. Len(recent) \in Nat /\ S \subseteq 0 .. Len(recent) /\ 0 \in S
  OBVIOUS
<1>2. Max(S) \in S
  <2> HIDE DEF S
  <2> QED
    BY <1>1, MaxMember
<1>3. PICK k : k = Max(S)
  OBVIOUS
<1>4. k \in 0 .. Len(recent) /\ \A j \in 1 .. k : Since(now, recent[j]) >= Hour
  BY <1>2, <1>3
<1>5. Recent(recent, now) = SubSeq(recent, k + 1, Len(recent))
  BY <1>3 DEF Recent
<1> HIDE DEF S
<1>6. PICK q : q = SubSeq(recent, k + 1, Len(recent))
  OBVIOUS
<1>7. /\ q \in Seq(Nat) /\ Len(q) = Len(recent) - k
      /\ \A i \in 1 .. Len(recent) - k : q[i] = recent[i + k]
  BY <1>1, <1>4, <1>6
<1> QED
  BY <1>4, <1>5, <1>6, <1>7

Fields(f, phase, grant, height, held, paid, recent, life) ==
    /\ IsFaucet(f)
    /\ f.phase = phase /\ f.grant = grant /\ f.file = height /\ f.held = held
    /\ f.paid = paid /\ f.recent = recent /\ f.life = life

\* The process with some fields replaced.
LEMMA ExceptIs ==
  ASSUME NEW f, IsFaucet(f), NEW seen, NEW recent, NEW held, NEW height
  PROVE  Fields([f EXCEPT !.seen = seen, !.recent = recent, !.held = held, !.file = height],
                f.phase, f.grant, height, held, f.paid, recent, f.life)
<1>1. PICK g : g = [f EXCEPT !.seen = seen, !.recent = recent, !.held = held, !.file = height]
  OBVIOUS
<1>2. g = [phase |-> f.phase, grant |-> f.grant, posted |-> f.posted, file |-> height, held |-> held,
           seen |-> seen, paid |-> f.paid, recent |-> recent, life |-> f.life, asset |-> f.asset]
  BY <1>1 DEF IsFaucet
<1>3. Fields(g, f.phase, f.grant, height, held, f.paid, recent, f.life)
  BY <1>2 DEF IsFaucet, Fields
<1> QED
  BY <1>1, <1>3

LEMMA PostedIs ==
  ASSUME NEW f, IsFaucet(f), NEW grant
  PROVE  Fields([f EXCEPT !.phase = "post", !.grant = grant],
                "post", grant, f.file, f.held, f.paid, f.recent, f.life)
<1>1. PICK g : g = [f EXCEPT !.phase = "post", !.grant = grant]
  OBVIOUS
<1>2. g = [phase |-> "post", grant |-> grant, posted |-> f.posted, file |-> f.file, held |-> f.held,
           seen |-> f.seen, paid |-> f.paid, recent |-> f.recent, life |-> f.life, asset |-> f.asset]
  BY <1>1 DEF IsFaucet
<1>3. Fields(g, "post", grant, f.file, f.held, f.paid, f.recent, f.life)
  BY <1>2 DEF IsFaucet, Fields
<1> QED
  BY <1>1, <1>3

LEMMA IgnoreIs ==
  ASSUME NEW r, IsFaucet(faucet), Ignore(r)
  PROVE  /\ Fields(faucet', faucet.phase, faucet.grant, faucet.file, faucet.held, faucet.paid,
                   faucet.recent, faucet.life)
         /\ UNCHANGED <<views, mined, pool, saved, clock, built>>
<1>1. PICK f : f = faucet
  OBVIOUS
<1>2. PICK s : faucet' = [f EXCEPT !.seen = s]
  BY <1>1 DEF Ignore
<1>3. Fields(faucet', f.phase, f.grant, f.file, f.held, f.paid, f.recent, f.life)
  BY <1>1, <1>2 DEF IsFaucet, Fields
<1> QED
  BY <1>1, <1>3 DEF Ignore

LEMMA SkipIs ==
  ASSUME NEW r, IsFaucet(faucet), Skip(r)
  PROVE  /\ faucet.phase = "idle"
         /\ \E recent \in {faucet.recent, Recent(faucet.recent, clock)} :
               Fields(faucet', "save", faucet.grant, faucet.file, faucet.held, faucet.paid, recent, faucet.life)
         /\ UNCHANGED <<views, mined, pool, saved, clock, built>>
<1>1. PICK f : f = faucet
  OBVIOUS
<1>2. PICK to, recent :
         /\ recent = IF InWindow(faucet, to) THEN faucet.recent ELSE Recent(faucet.recent, clock)
         /\ faucet' = [f EXCEPT !.seen = SeenWith(r), !.recent = recent, !.phase = "save"]
  BY <1>1 DEF Skip
<1>3. Fields(faucet', "save", f.grant, f.file, f.held, f.paid, recent, f.life)
  BY <1>1, <1>2 DEF IsFaucet, Fields
<1> QED
  BY <1>1, <1>2, <1>3 DEF Skip, Hears

Looks(phase, grant, h) ==
    Fields(faucet', phase, grant, h, Held(h), faucet.paid, Recent(faucet.recent, clock), faucet.life)
NewGrant(g, b, to, h) ==
    /\ built' = built \cup {b} /\ IsBuilt(b) /\ b.tx \in BuildGrant(faucet.asset, Free(h), h, to)
    /\ b.ask.to = to /\ b.ask.life = faucet.life /\ b.ask.at = clock /\ b.ask.n = Cardinality(built)
    /\ b.ask.state = "out" /\ g.to = to /\ g.at = clock /\ g.tx = b.tx

LEMMA GrantIs ==
  ASSUME NEW r, IsFaucet(faucet), Grant(r)
  PROVE  /\ faucet.phase = "idle"
         /\ \E to, h :
               /\ h \in faucet.file .. Tip
               /\ ~InWindow(faucet, to) /\ Len(Recent(faucet.recent, clock)) < PerHour
               /\ \/ Looks("idle", faucet.grant, h) /\ built' = built
                  \/ \E g, b : Looks("post", g, h) /\ NewGrant(g, b, to, h)
         /\ UNCHANGED <<views, mined, pool, saved, clock>>
<1>1. faucet.phase = "idle" /\ UNCHANGED <<views, mined, pool, saved, clock>>
  BY DEF Grant, Hears
<1>2. PICK to, h :
         /\ h \in faucet.file .. Tip
         /\ ~InWindow(faucet, to) /\ Len(Recent(faucet.recent, clock)) < PerHour
         /\ \/ faucet' = Looked(r, h) /\ built' = built
            \/ \E tx \in BuildGrant(faucet.asset, Free(h), h, to) :
                  /\ faucet' = [Looked(r, h) EXCEPT !.phase = "post", !.grant = [to |-> to, at |-> clock, tx |-> tx]]
                  /\ built' = built \cup {[ask |-> GrantAsk(to), tx |-> tx, spent |-> Spent(views[h + 1], tx)]}
  BY DEF Grant
<1>3. Fields(Looked(r, h), "idle", faucet.grant, h, Held(h), faucet.paid, Recent(faucet.recent, clock),
             faucet.life)
  <2>1. PICK f, s, q, x : f = faucet /\ s = SeenWith(r) /\ q = Recent(faucet.recent, clock) /\ x = Held(h)
    OBVIOUS
  <2>2. Fields([f EXCEPT !.seen = s, !.recent = q, !.held = x, !.file = h],
               f.phase, f.grant, h, x, f.paid, q, f.life)
    BY <2>1, ExceptIs
  <2>3. Looked(r, h) = [f EXCEPT !.seen = s, !.recent = q, !.held = x, !.file = h]
    BY <2>1 DEF Looked
  <2> QED
    BY <1>1, <2>1, <2>2, <2>3
<1>4. CASE faucet' = Looked(r, h) /\ built' = built
  BY <1>1, <1>2, <1>3, <1>4 DEF Looks
<1>5. ASSUME NEW tx \in BuildGrant(faucet.asset, Free(h), h, to),
             faucet' = [Looked(r, h) EXCEPT !.phase = "post", !.grant = [to |-> to, at |-> clock, tx |-> tx]],
             built' = built \cup {[ask |-> GrantAsk(to), tx |-> tx, spent |-> Spent(views[h + 1], tx)]}
      PROVE  \E g, b : Looks("post", g, h) /\ NewGrant(g, b, to, h)
  <2>1. PICK g : g = [to |-> to, at |-> clock, tx |-> tx]
    OBVIOUS
  <2>2. PICK l : l = Looked(r, h)
    OBVIOUS
  <2>3. faucet' = [l EXCEPT !.phase = "post", !.grant = g]
    BY <1>5, <2>1, <2>2
  <2>4. IsFaucet(l)
    BY <1>3, <2>2 DEF Fields
  <2>5. Fields(faucet', "post", g, l.file, l.held, l.paid, l.recent, l.life)
    BY <2>3, <2>4, PostedIs
  <2>6. Looks("post", g, h)
    BY <1>3, <2>2, <2>5 DEF Looks, Fields
  <2>7. PICK a : a = GrantAsk(to)
    OBVIOUS
  <2>8. PICK b : b = [ask |-> a, tx |-> tx, spent |-> Spent(views[h + 1], tx)]
    OBVIOUS
  <2>9. /\ IsAsk(a) /\ a.to = to /\ a.life = faucet.life /\ a.at = clock /\ a.n = Cardinality(built)
        /\ a.state = "out"
    BY <2>7 DEF GrantAsk, IsAsk
  <2>10. IsBuilt(b) /\ b.tx = tx /\ b.ask = a
    BY <2>8, <2>9 DEF IsBuilt
  <2>11. built' = built \cup {b}
    BY <1>5, <2>7, <2>8
  <2>12. NewGrant(g, b, to, h)
    BY <2>1, <2>9, <2>10, <2>11 DEF NewGrant
  <2> QED
    BY <2>6, <2>12
<1> QED
  BY <1>1, <1>2, <1>4, <1>5

LEMMA PostGrantIs ==
  ASSUME IsFaucet(faucet), PostGrant
  PROVE  /\ faucet.phase = "post"
         /\ Fields(faucet', "publish", faucet.grant, faucet.file, faucet.held, faucet.paid,
                   faucet.recent, faucet.life)
         /\ pool' = pool \/ (Submits(faucet.grant.tx) /\ pool' = pool \cup {faucet.grant.tx})
         /\ UNCHANGED <<views, mined, saved, clock, built>>
<1>1. PICK f : f = faucet
  OBVIOUS
<1>2. PICK end :
         /\ pool' = IF end # "request lost" /\ Submits(f.grant.tx) THEN pool \cup {f.grant.tx} ELSE pool
         /\ faucet' = [f EXCEPT !.phase = "publish", !.posted = (end = "answered" /\ Submits(f.grant.tx))]
  BY <1>1 DEF PostGrant
<1>3. PICK p : faucet' = [f EXCEPT !.phase = "publish", !.posted = p]
  BY <1>2
<1>4. Fields(faucet', "publish", f.grant, f.file, f.held, f.paid, f.recent, f.life)
  BY <1>1, <1>3 DEF IsFaucet, Fields
<1>5. pool' = pool \/ (Submits(faucet.grant.tx) /\ pool' = pool \cup {faucet.grant.tx})
  BY <1>1, <1>2
<1> QED
  BY <1>1, <1>4, <1>5 DEF PostGrant

HeldWith(held, g) == {x \in held : x[1] \notin g.tx.ins} \cup {<<op, g.at>> : op \in g.tx.ins}
PaidWith(paid, g) == {p \in paid : p[1] # g.to} \cup {<<g.to, g.at>>}

LEMMA RememberIs ==
  ASSUME NEW f, IsFaucet(f), NEW g
  PROVE  Fields(Remember(f, g), f.phase, f.grant, f.file, HeldWith(f.held, g), PaidWith(f.paid, g),
                Append(f.recent, g.at), f.life)
<1>1. PICK held, paid, recent :
         held = HeldWith(f.held, g) /\ paid = PaidWith(f.paid, g) /\ recent = Append(f.recent, g.at)
  OBVIOUS
<1>2. (f.paid \ Paid(f, g.to)) \cup {<<g.to, g.at>>} = paid
  BY <1>1 DEF PaidWith, Paid
<1>3. Remember(f, g) = [f EXCEPT !.held = held, !.paid = paid, !.recent = recent]
  <2>1. Remember(f, g) = [f EXCEPT !.held = HeldWith(f.held, g),
                                   !.paid = (f.paid \ Paid(f, g.to)) \cup {<<g.to, g.at>>},
                                   !.recent = Append(f.recent, g.at)]
    BY DEF Remember, HeldWith, IsFaucet
  <2> QED
    BY <1>1, <1>2, <2>1
<1>4. PICK r : r = [f EXCEPT !.held = held, !.paid = paid, !.recent = recent]
  OBVIOUS
<1>5. r = [phase |-> f.phase, grant |-> f.grant, posted |-> f.posted, file |-> f.file, held |-> held,
           seen |-> f.seen, paid |-> paid, recent |-> recent, life |-> f.life, asset |-> f.asset]
  BY <1>4 DEF IsFaucet
<1>6. Fields(r, f.phase, f.grant, f.file, held, paid, recent, f.life)
  BY <1>5 DEF IsFaucet, Fields
<1> QED
  BY <1>1, <1>3, <1>4, <1>6

LEMMA SettledIs ==
  ASSUME NEW f, IsFaucet(f), NEW phase, NEW grant
  PROVE  Fields([f EXCEPT !.phase = phase, !.posted = FALSE, !.grant = grant],
                phase, grant, f.file, f.held, f.paid, f.recent, f.life)
<1>1. PICK no : no = FALSE
  OBVIOUS
<1>2. PICK g : g = [f EXCEPT !.phase = phase, !.posted = no, !.grant = grant]
  OBVIOUS
<1>3. Fields(g, phase, grant, f.file, f.held, f.paid, f.recent, f.life)
  BY <1>2 DEF IsFaucet, Fields
<1> QED
  BY <1>1, <1>2, <1>3

LEMMA PublishGrantIs ==
  ASSUME IsFaucet(faucet), PublishGrant
  PROVE  /\ faucet.phase = "publish"
         /\ \/ /\ Fields(faucet', AfterPaying(faucet.grant), NoGrant, faucet.file, HeldWith(faucet.held, faucet.grant),
                         PaidWith(faucet.paid, faucet.grant), Append(faucet.recent, faucet.grant.at), faucet.life)
               /\ built' = Moved("out", "counted")
            \/ /\ Fields(faucet', "idle", NoGrant, faucet.file, faucet.held, faucet.paid, faucet.recent,
                         faucet.life)
               /\ built' = Moved("out", "dropped")
         /\ UNCHANGED <<views, mined, pool, saved, clock>>
<1>1. PICK f, no, ph : f = faucet /\ no = NoGrant /\ ph = AfterPaying(faucet.grant)
  OBVIOUS
<1>2. \/ /\ faucet' = [Remember(f, f.grant) EXCEPT !.phase = ph, !.posted = FALSE, !.grant = no]
         /\ built' = Moved("out", "counted")
      \/ /\ faucet' = [f EXCEPT !.phase = "idle", !.posted = FALSE, !.grant = no]
         /\ built' = Moved("out", "dropped")
  BY <1>1 DEF PublishGrant
<1>3. PICK m : m = Remember(f, f.grant)
  OBVIOUS
<1>4. Fields(m, f.phase, f.grant, f.file, HeldWith(f.held, f.grant), PaidWith(f.paid, f.grant),
             Append(f.recent, f.grant.at), f.life)
  BY <1>1, <1>3, RememberIs
<1>5. IsFaucet(m) /\ IsFaucet(f)
  BY <1>1, <1>4 DEF Fields
<1>6. Fields([m EXCEPT !.phase = ph, !.posted = FALSE, !.grant = no],
             ph, no, m.file, m.held, m.paid, m.recent, m.life)
  BY <1>5, SettledIs
<1>7. Fields([f EXCEPT !.phase = "idle", !.posted = FALSE, !.grant = no],
             "idle", no, f.file, f.held, f.paid, f.recent, f.life)
  BY <1>5, SettledIs
<1>8. CASE /\ faucet' = [m EXCEPT !.phase = ph, !.posted = FALSE, !.grant = no]
           /\ built' = Moved("out", "counted")
  <2>1. Fields(faucet', ph, no, m.file, m.held, m.paid, m.recent, m.life)
    BY <1>6, <1>8
  <2>2. Fields(faucet', ph, no, f.file, HeldWith(f.held, f.grant), PaidWith(f.paid, f.grant),
               Append(f.recent, f.grant.at), f.life)
    BY <1>4, <2>1 DEF Fields
  <2> QED
    BY <1>1, <1>8, <2>2 DEF PublishGrant
<1>9. CASE /\ faucet' = [f EXCEPT !.phase = "idle", !.posted = FALSE, !.grant = no]
           /\ built' = Moved("out", "dropped")
  <2>1. Fields(faucet', "idle", no, f.file, f.held, f.paid, f.recent, f.life)
    BY <1>7, <1>9
  <2> QED
    BY <1>1, <1>9, <2>1 DEF PublishGrant
<1> QED
  BY <1>2, <1>3, <1>8, <1>9

LEMMA SaveIs ==
  ASSUME IsFaucet(faucet), Save
  PROVE  /\ faucet.phase = "save"
         /\ Fields(faucet', "idle", faucet.grant, faucet.file, faucet.held, faucet.paid, faucet.recent,
                   faucet.life)
         /\ \/ /\ saved'.paid = faucet.paid /\ saved'.recent = faucet.recent
               /\ built' = Moved("counted", "kept")
            \/ saved' = saved /\ built' = built
         /\ UNCHANGED <<views, mined, pool, clock>>
<1>1. PICK f : f = faucet
  OBVIOUS
<1>2. faucet' = [f EXCEPT !.phase = "idle"]
  BY <1>1 DEF Save
<1>3. Fields(faucet', "idle", f.grant, f.file, f.held, f.paid, f.recent, f.life)
  BY <1>1, <1>2 DEF IsFaucet, Fields
<1>4. \/ /\ saved' = [paid |-> f.paid, recent |-> f.recent] /\ built' = Moved("counted", "kept")
      \/ saved' = saved /\ built' = built
  BY <1>1 DEF Save
<1> QED
  BY <1>1, <1>3, <1>4 DEF Save

LEMMA CrashIs ==
  ASSUME Crash
  PROVE  /\ Fields(faucet', "idle", NoGrant, faucet.file, {}, saved.paid, saved.recent, faucet.life + 1)
         /\ UNCHANGED <<views, mined, pool, saved, clock, built>>
<1>1. PICK no, l, p, q : no = NoGrant /\ l = faucet.life + 1 /\ p = saved.paid /\ q = saved.recent
  OBVIOUS
<1>2. faucet' = [phase |-> "idle", grant |-> no, posted |-> FALSE, file |-> faucet.file, held |-> {},
                 seen |-> {}, paid |-> p, recent |-> q, life |-> l, asset |-> faucet.asset]
  BY <1>1 DEF Crash, Started
<1>3. Fields(faucet', "idle", no, faucet.file, {}, p, q, l)
  BY <1>2 DEF IsFaucet, Fields
<1> QED
  BY <1>1, <1>3 DEF Crash

-----------------------------------------------------------------------------
(* The ghost's grants, moved from one state to another. *)

SameGrant(c, b) ==
    /\ c.tx = b.tx /\ c.spent = b.spent
    /\ c.ask.to = b.ask.to /\ c.ask.life = b.ask.life /\ c.ask.at = b.ask.at /\ c.ask.n = b.ask.n

LEMMA MoveIs ==
  ASSUME NEW b, IsBuilt(b), NEW from, NEW to
  PROVE  /\ IsBuilt(Move(b, from, to)) /\ SameGrant(Move(b, from, to), b)
         /\ Move(b, from, to).ask.state =
               IF b.ask.state = from /\ b.ask.life = faucet.life THEN to ELSE b.ask.state
         /\ b.ask.state # from => Move(b, from, to) = b
<1>1. PICK a : a = b.ask
  OBVIOUS
<1>2. PICK e : e = [a EXCEPT !.state = to]
  OBVIOUS
<1>3. e = [by |-> a.by, to |-> a.to, sats |-> a.sats, asset |-> a.asset, units |-> a.units,
           life |-> a.life, at |-> a.at, n |-> a.n, state |-> to]
  BY <1>1, <1>2 DEF IsBuilt, IsAsk
<1>4. PICK c : c = [b EXCEPT !.ask.state = to]
  OBVIOUS
<1>5. c = [ask |-> e, tx |-> b.tx, spent |-> b.spent]
  BY <1>1, <1>2, <1>4 DEF IsBuilt
<1>6. IsBuilt(c) /\ SameGrant(c, b) /\ c.ask.state = to
  BY <1>1, <1>3, <1>5 DEF IsBuilt, IsAsk, SameGrant
<1>7. Move(b, from, to) = IF b.ask.state = from /\ b.ask.life = faucet.life THEN c ELSE b
  BY <1>4 DEF Move
<1>8. SameGrant(b, b)
  BY DEF SameGrant
<1> QED
  BY <1>6, <1>7, <1>8

Moves(c, b, from, to) ==
    /\ SameGrant(c, b)
    /\ c.ask.state = IF b.ask.state = from /\ b.ask.life = faucet.life THEN to ELSE b.ask.state

LEMMA MovedIs ==
  ASSUME FaucetBase, NEW from \in {"out", "counted"}, NEW to \in {"counted", "kept", "dropped"},
         NEW out, out = Moved(from, to)
  PROVE  /\ IsFiniteSet(out) /\ Cardinality(out) = Cardinality(built)
         /\ \A c \in out : IsBuilt(c)
         /\ \A c \in out : c.ask.state # "command" => \E b \in Grants : Moves(c, b, from, to)
         /\ \A a, c \in out : a.ask.state # "command" /\ c.ask.state # "command" /\ a.ask.n = c.ask.n => a = c
<1>1. /\ IsFiniteSet(built)
      /\ \A b \in built : IsBuilt(Move(b, from, to)) /\ Moves(Move(b, from, to), b, from, to)
                          /\ (b.ask.state # from => Move(b, from, to) = b)
  BY MoveIs DEF FaucetBase, FaucetTypes, Moves
<1>2. PICK f : f = [b \in built |-> Move(b, from, to)]
  OBVIOUS
<1>3. /\ \A b \in built : f[b] \in out /\ IsBuilt(f[b]) /\ Moves(f[b], b, from, to) /\ (b.ask.state # from => f[b] = b)
      /\ \A c \in out : \E b \in built : c = f[b]
      /\ f \in [built -> out]
  BY <1>1, <1>2 DEF Moved
<1>4. \A b \in built : f[b].ask.state = "command" <=> b.ask.state = "command"
  BY <1>3 DEF Moves
<1>5. \A a, c \in built : f[a].ask.state # "command" /\ f[c].ask.state # "command" /\ f[a].ask.n = f[c].ask.n => a = c
  BY <1>3, <1>4 DEF FaucetBase, Numbered, Grants, Moves, SameGrant
<1>6. \A a, c \in built : f[a] = f[c] => a = c
  <2> SUFFICES ASSUME NEW a \in built, NEW c \in built, f[a] = f[c] PROVE a = c
    OBVIOUS
  <2>1. CASE f[a].ask.state = "command"
    <3>1. a.ask.state # from /\ c.ask.state # from
      BY <1>4, <2>1
    <3> QED
      BY <1>3, <3>1
  <2>2. CASE f[a].ask.state # "command"
    BY <1>5, <2>2
  <2> QED
    BY <2>1, <2>2
<1>7. f \in Surjection(built, out) /\ f \in Injection(built, out)
  BY <1>3, <1>6 DEF Surjection, Injection, IsInjective
<1>8. IsFiniteSet(out) /\ Cardinality(out) = Cardinality(built)
  BY <1>1, <1>7, FS_Surjection
<1>9. \A c \in out : IsBuilt(c) /\ (c.ask.state # "command" => \E b \in Grants : Moves(c, b, from, to))
  BY <1>3, <1>4 DEF Grants
<1>10. \A a, c \in out : a.ask.state # "command" /\ c.ask.state # "command" /\ a.ask.n = c.ask.n => a = c
  BY <1>3, <1>5
<1> QED
  BY <1>8, <1>9, <1>10

-----------------------------------------------------------------------------
(* The shape of the state. *)

LEMMA ViewsAre ==
  ASSUME NEW v, IsViews(v)
  PROVE  Len(v) \in Nat \ {0} /\ DOMAIN v = 1 .. Len(v)
<1>1. PICK S : v \in Seq(S)
  BY DEF IsViews
<1> QED
  BY <1>1 DEF IsViews

Grown(w, v, x) ==
    /\ IsViews(w) /\ Len(w) = Len(v) + 1 /\ w[Len(v) + 1] = x
    /\ \A i \in 1 .. Len(v) : w[i] = v[i]

LEMMA ViewsGrow ==
  ASSUME NEW v, IsViews(v), NEW x
  PROVE  Grown(Append(v, x), v, x)
<1>0. PICK w : w = Append(v, x)
  OBVIOUS
<1>1. PICK S : v \in Seq(S)
  BY DEF IsViews
<1>2. PICK T : T = S \cup {x}
  OBVIOUS
<1>3. v \in Seq(T) /\ x \in T
  BY <1>1, <1>2
<1>4. w \in Seq(T) /\ Len(w) = Len(v) + 1 /\ w[Len(v) + 1] = x /\ (\A i \in 1 .. Len(v) : w[i] = v[i]) /\ w # <<>>
  BY <1>0, <1>3
<1>5. Grown(w, v, x)
  BY <1>4 DEF IsViews, Grown
<1> QED
  BY <1>0, <1>5

\* A step that leaves the grants as they are.
LEMMA QuietBase ==
  ASSUME FaucetBase, FaucetTypes', Grants' = Grants, Cardinality(built') >= Cardinality(built),
         clock' >= clock, faucet'.life >= faucet.life,
         InFlight' => InFlight /\ faucet'.grant = faucet.grant,
         InFlight /\ faucet'.life = faucet.life => InFlight'
  PROVE  FaucetBase'
<1>1. /\ clock \in Nat /\ clock' \in Nat /\ faucet.life \in Nat /\ faucet'.life \in Nat
      /\ IsFiniteSet(built) /\ IsFiniteSet(built')
  BY DEF FaucetBase, FaucetTypes
<1>2. Cardinality(built) \in Nat /\ Cardinality(built') \in Nat
  BY <1>1, FS_CardinalityType
<1>3. GrantTypes'
  <2> SUFFICES ASSUME NEW b \in Grants
               PROVE  /\ b.ask.n \in Nat /\ b.ask.n < Cardinality(built')
                      /\ b.ask.at \in Nat /\ b.ask.at <= clock'
                      /\ b.ask.life \in Nat /\ b.ask.life <= faucet'.life
                      /\ b.ask.state \in {"out", "counted", "kept", "dropped"}
    BY DEF GrantTypes
  <2>1. /\ b.ask.n \in Nat /\ b.ask.n < Cardinality(built)
        /\ b.ask.at \in Nat /\ b.ask.at <= clock
        /\ b.ask.life \in Nat /\ b.ask.life <= faucet.life
        /\ b.ask.state \in {"out", "counted", "kept", "dropped"}
    BY DEF FaucetBase, GrantTypes
  <2> QED
    BY <1>1, <1>2, <2>1
<1>4. Numbered'
  BY DEF FaucetBase, Numbered
<1>5. Pending'
  <2>1. InFlight' => /\ faucet'.grant.at \in Nat /\ faucet'.grant.at <= clock'
                     /\ \A b \in Grants' : b.ask.at <= faucet'.grant.at
    BY <1>1 DEF FaucetBase, Pending
  <2>2. ASSUME NEW b \in Grants, b.ask.state = "out", b.ask.life = faucet'.life
        PROVE  /\ InFlight'
               /\ faucet'.grant.to = b.ask.to /\ faucet'.grant.at = b.ask.at /\ faucet'.grant.tx = b.tx
               /\ \A a \in Grants : a.ask.n <= b.ask.n
    <3>1. b.ask.life \in Nat /\ b.ask.life <= faucet.life
      BY DEF FaucetBase, GrantTypes
    <3>2. faucet'.life = faucet.life
      BY <1>1, <2>2, <3>1
    <3>3. /\ InFlight
          /\ faucet.grant.to = b.ask.to /\ faucet.grant.at = b.ask.at /\ faucet.grant.tx = b.tx
          /\ \A a \in Grants : a.ask.n <= b.ask.n
      BY <2>2, <3>2 DEF FaucetBase, Pending
    <3> QED
      BY <3>2, <3>3
  <2> QED
    BY <2>1, <2>2 DEF Pending
<1> QED
  BY <1>3, <1>4, <1>5 DEF FaucetBase

\* What the base says of the process, to be cited as one.
LEMMA TypesThen ==
  ASSUME FaucetBase
  PROVE  /\ IsFaucet(faucet) /\ IsViews(views) /\ clock \in Nat
         /\ faucet.phase \in {"idle", "post", "publish", "save", "down"}
         /\ faucet.life \in Nat /\ faucet.file \in Nat /\ faucet.file < Len(views)
         /\ faucet.recent \in Seq(Nat) /\ saved.recent \in Seq(Nat)
         /\ \A x \in faucet.held : x[2] \in Nat /\ x[2] <= clock
         /\ \A p \in faucet.paid \cup saved.paid : p[2] \in Nat /\ p[2] <= clock
         /\ IsFiniteSet(built) /\ Cardinality(built) \in Nat /\ \A b \in built : IsBuilt(b)
  BY FS_CardinalityType DEF FaucetBase, FaucetTypes

LEMMA IgnoreBase ==
  ASSUME FaucetBase, NEW r, Ignore(r)
  PROVE  FaucetBase'
<1>1. FaucetTypes'
  BY TypesThen, IgnoreIs DEF Fields, FaucetTypes
<1> QED
  BY <1>1, TypesThen, IgnoreIs, QuietBase DEF Fields, InFlight, Grants

LEMMA SkipBase ==
  ASSUME FaucetBase, NEW r, Skip(r)
  PROVE  FaucetBase'
<1>1. PICK recent \in {faucet.recent, Recent(faucet.recent, clock)} :
         Fields(faucet', "save", faucet.grant, faucet.file, faucet.held, faucet.paid, recent, faucet.life)
  BY TypesThen, SkipIs
<1>2. recent \in Seq(Nat)
  BY <1>1, TypesThen, RecentIs
<1>3. UNCHANGED <<views, mined, pool, saved, clock, built>> /\ faucet.phase = "idle"
  BY TypesThen, SkipIs
<1>4. FaucetTypes'
  BY <1>1, <1>2, <1>3, TypesThen DEF Fields, FaucetTypes
<1> QED
  BY <1>1, <1>3, <1>4, TypesThen, QuietBase DEF Fields, InFlight, Grants

LEMMA HeldIs ==
  ASSUME FaucetBase, NEW h
  PROVE  Held(h) \subseteq faucet.held
  BY DEF Held, HeldBack

LEMMA GrantBase ==
  ASSUME FaucetBase, NEW r, Grant(r)
  PROVE  FaucetBase'
<1>1. faucet.phase = "idle" /\ UNCHANGED <<views, mined, pool, saved, clock>>
  BY TypesThen, GrantIs
<1>2. PICK to, h :
         /\ h \in faucet.file .. Tip
         /\ \/ Looks("idle", faucet.grant, h) /\ built' = built
            \/ \E g, b : Looks("post", g, h) /\ NewGrant(g, b, to, h)
  BY TypesThen, GrantIs
<1>3. h \in Nat /\ h < Len(views)
  BY <1>2, TypesThen, ViewsAre DEF Tip
<1>4. Recent(faucet.recent, clock) \in Seq(Nat)
  BY TypesThen, RecentIs
<1>5. \A x \in Held(h) : x[2] \in Nat /\ x[2] <= clock
  BY TypesThen, HeldIs
<1>6. CASE Looks("idle", faucet.grant, h) /\ built' = built
  <2>1. FaucetTypes'
    BY <1>1, <1>3, <1>4, <1>5, <1>6, TypesThen DEF Looks, Fields, FaucetTypes
  <2> QED
    BY <1>1, <1>6, <2>1, TypesThen, QuietBase DEF Looks, Fields, InFlight, Grants
<1>7. ASSUME NEW g, NEW b, Looks("post", g, h), NewGrant(g, b, to, h) PROVE FaucetBase'
  <2>1. /\ built' = built \cup {b} /\ IsBuilt(b)
        /\ b.ask.to = to /\ b.ask.life = faucet.life /\ b.ask.at = clock /\ b.ask.n = Cardinality(built)
        /\ b.ask.state = "out" /\ g.to = to /\ g.at = clock /\ g.tx = b.tx
    BY <1>7 DEF NewGrant
  <2>2. Grants' = Grants \cup {b}
    BY <2>1 DEF Grants
  <2>3. \A a \in Grants : /\ a.ask.n \in Nat /\ a.ask.n < Cardinality(built) /\ a.ask.at \in Nat /\ a.ask.at <= clock
                          /\ a.ask.life \in Nat /\ a.ask.life <= faucet.life
                          /\ a.ask.state \in {"out", "counted", "kept", "dropped"}
    BY DEF FaucetBase, GrantTypes
  <2>4. b \notin built
    BY <2>1, <2>3, TypesThen DEF Grants
  <2>5. IsFiniteSet(built') /\ Cardinality(built') = Cardinality(built) + 1
    BY <2>1, <2>4, TypesThen, FS_AddElement
  <2>6. /\ faucet'.phase = "post" /\ faucet'.grant = g /\ faucet'.life = faucet.life
    BY <1>7 DEF Looks, Fields
  <2>7. FaucetTypes'
    BY <1>1, <1>3, <1>4, <1>5, <1>7, <2>1, <2>5, TypesThen DEF Looks, Fields, FaucetTypes
  <2>8. GrantTypes'
    <3>1. \A a \in Grants \cup {b} :
             /\ a.ask.n \in Nat /\ a.ask.n < Cardinality(built) + 1 /\ a.ask.at \in Nat /\ a.ask.at <= clock
             /\ a.ask.life \in Nat /\ a.ask.life <= faucet.life
             /\ a.ask.state \in {"out", "counted", "kept", "dropped"}
      BY <2>1, <2>3, TypesThen
    <3> QED
      BY <1>1, <2>2, <2>5, <2>6, <3>1 DEF GrantTypes
  <2>9. Numbered'
    <3>1. \A a \in Grants : a.ask.n # b.ask.n
      BY <2>1, <2>3, TypesThen
    <3> QED
      BY <2>2, <3>1 DEF FaucetBase, Numbered
  <2>10. Pending'
    <3>1. \A a \in Grants : ~(a.ask.state = "out" /\ a.ask.life = faucet.life)
      BY <1>1 DEF FaucetBase, Pending, InFlight
    <3>2. \A a \in Grants \cup {b} : a.ask.n <= b.ask.n /\ a.ask.at <= clock
      BY <2>1, <2>3, TypesThen
    <3>3. InFlight'
      BY <2>6 DEF InFlight
    <3> QED
      BY <1>1, <2>1, <2>2, <2>6, <3>1, <3>2, <3>3, TypesThen DEF Pending
  <2> QED
    BY <2>7, <2>8, <2>9, <2>10 DEF FaucetBase
<1> QED
  BY <1>2, <1>6, <1>7

LEMMA PostGrantBase ==
  ASSUME FaucetBase, PostGrant
  PROVE  FaucetBase'
<1>1. FaucetTypes'
  BY TypesThen, PostGrantIs DEF Fields, FaucetTypes
<1> QED
  BY <1>1, TypesThen, PostGrantIs, QuietBase DEF Fields, InFlight, Grants

\* A step that settles the grants of this process that are in one state.
LEMMA MovedBase ==
  ASSUME FaucetBase, FaucetTypes', clock' = clock, faucet'.life = faucet.life,
         NEW from \in {"out", "counted"}, NEW to \in {"counted", "kept", "dropped"}, built' = Moved(from, to),
         from = "counted" => ~InFlight, ~InFlight'
  PROVE  /\ FaucetBase'
         /\ \A c \in Grants' : \E b \in Grants : Moves(c, b, from, to)
<1>1. /\ Cardinality(built') = Cardinality(built)
      /\ \A c \in built' : c.ask.state # "command" => \E b \in Grants : Moves(c, b, from, to)
      /\ \A a, c \in built' : a.ask.state # "command" /\ c.ask.state # "command" /\ a.ask.n = c.ask.n => a = c
  BY MovedIs
<1>2. \A c \in Grants' : \E b \in Grants : Moves(c, b, from, to)
  BY <1>1 DEF Grants
<1>3. Numbered'
  BY <1>1 DEF Grants, Numbered
<1>4. GrantTypes'
  <2> SUFFICES ASSUME NEW c \in Grants'
               PROVE  /\ c.ask.n \in Nat /\ c.ask.n < Cardinality(built')
                      /\ c.ask.at \in Nat /\ c.ask.at <= clock'
                      /\ c.ask.life \in Nat /\ c.ask.life <= faucet'.life
                      /\ c.ask.state \in {"out", "counted", "kept", "dropped"}
    BY DEF GrantTypes
  <2>1. PICK b \in Grants : Moves(c, b, from, to)
    BY <1>2
  <2> QED
    BY <1>1, <2>1 DEF FaucetBase, GrantTypes, Moves, SameGrant
<1>5. Pending'
  <2>1. \A b \in Grants : b.ask.state = "out" /\ b.ask.life = faucet.life => from = "out"
    BY DEF FaucetBase, Pending
  <2>2. \A c \in Grants' : ~(c.ask.state = "out" /\ c.ask.life = faucet.life)
    BY <1>2, <2>1 DEF Moves, SameGrant
  <2> QED
    BY <2>2 DEF Pending
<1> QED
  BY <1>2, <1>3, <1>4, <1>5 DEF FaucetBase

LEMMA PublishGrantBase ==
  ASSUME FaucetBase, PublishGrant
  PROVE  FaucetBase'
<1>1. faucet.phase = "publish" /\ UNCHANGED <<views, mined, pool, saved, clock>>
  BY TypesThen, PublishGrantIs
<1>2. faucet.grant.at \in Nat /\ faucet.grant.at <= clock
  BY <1>1 DEF FaucetBase, Pending, InFlight
<1>3. CASE /\ Fields(faucet', AfterPaying(faucet.grant), NoGrant, faucet.file, HeldWith(faucet.held, faucet.grant),
                     PaidWith(faucet.paid, faucet.grant), Append(faucet.recent, faucet.grant.at), faucet.life)
           /\ built' = Moved("out", "counted")
  <2>1. PICK held, paid, recent : /\ held = HeldWith(faucet.held, faucet.grant)
                                  /\ paid = PaidWith(faucet.paid, faucet.grant)
                                  /\ recent = Append(faucet.recent, faucet.grant.at)
    OBVIOUS
  <2>2. \A x \in held : x[2] \in Nat /\ x[2] <= clock
    BY <1>2, <2>1, TypesThen DEF HeldWith
  <2>3. \A p \in paid \cup saved.paid : p[2] \in Nat /\ p[2] <= clock
    BY <1>2, <2>1, TypesThen DEF PaidWith
  <2>4. recent \in Seq(Nat)
    BY <1>2, <2>1, TypesThen
  <2>5. IsFiniteSet(built') /\ \A b \in built' : IsBuilt(b)
    BY <1>3, MovedIs
  <2>6. faucet'.phase \in {"save", "down"}
    BY <1>3 DEF Fields, AfterPaying
  <2>7. FaucetTypes'
    BY <1>1, <1>3, <2>1, <2>2, <2>3, <2>4, <2>5, <2>6, TypesThen DEF Fields, FaucetTypes
  <2>8. ~InFlight' /\ faucet'.life = faucet.life
    BY <1>3, <2>6 DEF Fields, InFlight
  <2> QED
    BY <1>1, <1>3, <2>7, <2>8, MovedBase
<1>4. CASE /\ Fields(faucet', "idle", NoGrant, faucet.file, faucet.held, faucet.paid, faucet.recent, faucet.life)
           /\ built' = Moved("out", "dropped")
  <2>1. IsFiniteSet(built') /\ \A b \in built' : IsBuilt(b)
    BY <1>4, MovedIs
  <2>2. FaucetTypes'
    BY <1>1, <1>4, <2>1, TypesThen DEF Fields, FaucetTypes
  <2>3. ~InFlight' /\ faucet'.life = faucet.life
    BY <1>4 DEF Fields, InFlight
  <2> QED
    BY <1>1, <1>4, <2>2, <2>3, MovedBase
<1> QED
  BY <1>3, <1>4, TypesThen, PublishGrantIs

LEMMA SaveBase ==
  ASSUME FaucetBase, Save
  PROVE  FaucetBase'
<1>1. /\ faucet.phase = "save" /\ UNCHANGED <<views, mined, pool, clock>>
      /\ Fields(faucet', "idle", faucet.grant, faucet.file, faucet.held, faucet.paid, faucet.recent, faucet.life)
  BY TypesThen, SaveIs
<1>2. ~InFlight /\ ~InFlight' /\ faucet'.life = faucet.life
  BY <1>1 DEF Fields, InFlight
<1>3. CASE saved'.paid = faucet.paid /\ saved'.recent = faucet.recent /\ built' = Moved("counted", "kept")
  <2>1. IsFiniteSet(built') /\ \A b \in built' : IsBuilt(b)
    BY <1>3, MovedIs
  <2>2. FaucetTypes'
    BY <1>1, <1>3, <2>1, TypesThen DEF Fields, FaucetTypes
  <2> QED
    BY <1>1, <1>2, <1>3, <2>2, MovedBase
<1>4. CASE saved' = saved /\ built' = built
  <2>1. FaucetTypes'
    BY <1>1, <1>4, TypesThen DEF Fields, FaucetTypes
  <2> QED
    BY <1>1, <1>2, <1>4, <2>1, TypesThen, QuietBase DEF Grants
<1> QED
  BY <1>3, <1>4, TypesThen, SaveIs

LEMMA CrashBase ==
  ASSUME FaucetBase, Crash
  PROVE  FaucetBase'
<1>1. FaucetTypes'
  BY TypesThen, CrashIs DEF Fields, FaucetTypes
<1> QED
  BY <1>1, TypesThen, CrashIs, QuietBase DEF Fields, InFlight, Grants

LEMMA TickBase ==
  ASSUME FaucetBase, Tick
  PROVE  FaucetBase'
<1>1. clock' = clock + 1 /\ UNCHANGED <<views, mined, pool, faucet, saved, built>>
  BY DEF Tick
<1>2. FaucetTypes'
  BY <1>1, TypesThen DEF FaucetBase, FaucetTypes
<1> QED
  BY <1>1, <1>2, TypesThen, QuietBase DEF InFlight, Grants

LEMMA MineBase ==
  ASSUME FaucetBase, Mine
  PROVE  FaucetBase'
<1>1. PICK x : views' = Append(views, x)
  BY DEF Mine
<1>2. UNCHANGED <<faucet, saved, clock, built>>
  BY DEF Mine
<1>3. IsViews(views') /\ Len(views') = Len(views) + 1
  <2>1. Grown(views', views, x)
    BY <1>1, TypesThen, ViewsGrow
  <2> QED
    BY <2>1 DEF Grown
<1>4. FaucetTypes'
  BY <1>2, <1>3, TypesThen, ViewsAre DEF FaucetBase, FaucetTypes
<1> QED
  BY <1>2, <1>4, TypesThen, QuietBase DEF InFlight, Grants

\* A command's transaction is no grant.
LEMMA CommandBase ==
  ASSUME FaucetBase, NEW c, Command(c)
  PROVE  FaucetBase' /\ Grants' = Grants
<1>1. PICK tx, s : built' = built \cup {[ask |-> Asked(c), tx |-> tx, spent |-> s]}
  BY DEF Command
<1>2. UNCHANGED <<views, mined, faucet, saved, clock>>
  BY DEF Command
<1>3. IsAsk(Asked(c)) /\ Asked(c).state = "command"
  <2>1. PICK by, to, units, asset, sats :
           Asked(c) = [by |-> by, to |-> to, units |-> units, life |-> 0, at |-> 0, n |-> 0, asset |-> asset,
                       sats |-> sats, state |-> "command"]
    BY DEF Asked
  <2> QED
    BY <2>1 DEF IsAsk
<1>4. PICK a : a = Asked(c)
  OBVIOUS
<1>5. PICK b : b = [ask |-> a, tx |-> tx, spent |-> s]
  OBVIOUS
<1>6. built' = built \cup {b} /\ IsBuilt(b) /\ b.ask.state = "command"
  BY <1>1, <1>3, <1>4, <1>5 DEF IsBuilt
<1>7. IsFiniteSet(built') /\ Cardinality(built') >= Cardinality(built)
  <2>1. IsFiniteSet(built) /\ Cardinality(built) \in Nat
    BY TypesThen
  <2>2. /\ IsFiniteSet(built \cup {b})
        /\ Cardinality(built \cup {b}) = IF b \in built THEN Cardinality(built) ELSE Cardinality(built) + 1
    BY <2>1, FS_AddElement
  <2> QED
    BY <1>6, <2>1, <2>2
<1>8. FaucetTypes'
  BY <1>2, <1>6, <1>7, TypesThen DEF FaucetBase, FaucetTypes
<1>9. Grants' = Grants
  BY <1>6 DEF Grants
<1> QED
  BY <1>2, <1>7, <1>8, <1>9, TypesThen, QuietBase DEF InFlight

LEMMA FaucetBaseInit ==
  ASSUME FaucetInit
  PROVE  FaucetBase
<1>1. PICK no : no = NoGrant
  OBVIOUS
<1>2. PICK asset :
         faucet = [phase |-> "idle", grant |-> no, posted |-> FALSE, file |-> 0, held |-> {}, seen |-> {},
                   paid |-> {}, recent |-> <<>>, life |-> 1, asset |-> asset]
  BY <1>1 DEF FaucetInit, Started
<1>3. /\ IsFaucet(faucet) /\ faucet.phase = "idle" /\ faucet.life = 1 /\ faucet.file = 0 /\ faucet.held = {}
      /\ faucet.paid = {} /\ faucet.recent = <<>>
  BY <1>2 DEF IsFaucet
<1>4. IsViews(views) /\ Len(views) = 1
  <2>1. views = <<GenesisCoins>> /\ views \in Seq({GenesisCoins})
    BY DEF FaucetInit
  <2> QED
    BY <2>1 DEF IsViews
<1>5. built = {} /\ IsFiniteSet(built) /\ Grants = {} /\ clock = 0 /\ saved.paid = {} /\ saved.recent = <<>>
  BY FS_EmptySet DEF FaucetInit, Grants
<1>6. FaucetTypes
  BY <1>3, <1>4, <1>5 DEF FaucetTypes
<1> QED
  BY <1>3, <1>5, <1>6 DEF FaucetBase, GrantTypes, Numbered, Pending, InFlight

LEMMA FaucetBaseNext ==
  ASSUME FaucetBase, [FaucetNext]_faucetVars
  PROVE  FaucetBase'
<1>1. CASE UNCHANGED faucetVars
  BY <1>1 DEF faucetVars, FaucetBase, FaucetTypes, GrantTypes, Numbered, Pending, InFlight, Grants
<1>2. CASE TakeFromRelay
  BY <1>2 DEF TakeFromRelay, FaucetBase, FaucetTypes, GrantTypes, Numbered, Pending, InFlight, Grants
<1> QED
  BY <1>1, <1>2, IgnoreBase, SkipBase, GrantBase, PostGrantBase, PublishGrantBase, SaveBase, CrashBase,
     TickBase, MineBase, CommandBase DEF FaucetNext

-----------------------------------------------------------------------------
(* The limits are kept. *)

SamePayment(c, b) == c.ask.to = b.ask.to /\ c.ask.at = b.ask.at /\ c.ask.n = b.ask.n
Timed(S) == \A b \in S : b.ask.n \in Nat /\ b.ask.at \in Nat
Past(S, now) == \A b \in S : b.ask.at <= now
Same(T, S) == \A c \in T : \E b \in S : SamePayment(c, b)
OneMore(T, S, n0, t) ==
    \A c \in T : \/ c.ask.n = n0 /\ c.ask.at = t
                 \/ c.ask.n # n0 /\ \E b \in S : SamePayment(c, b)
Distinct(S) == \A a, b \in S : a.ask.n = b.ask.n => a = b

LEMMA PaidCoversSame ==
  ASSUME NEW paid, NEW S, NEW T, PaidCovers(paid, S), Same(T, S)
  PROVE  PaidCovers(paid, T)
  BY DEF PaidCovers, SamePayment, Same

LEMMA AppendedIs ==
  ASSUME NEW q \in Seq(Nat), NEW t \in Nat, NEW N, N = Len(q)
  PROVE  /\ N \in Nat /\ Append(q, t) \in Seq(Nat) /\ Len(Append(q, t)) = N + 1 /\ Append(q, t)[N + 1] = t
         /\ \A i \in 1 .. N : i \in 1 .. N + 1 /\ Append(q, t)[i] = q[i]
  OBVIOUS

LEMMA UpToIs ==
  ASSUME NEW N \in Nat
  PROVE  IsFiniteSet(1 .. N) /\ Cardinality(1 .. N) = N
<1>1. IsFiniteSet(1 .. N) /\ Cardinality(1 .. N) = IF 1 > N THEN 0 ELSE N - 1 + 1
  BY FS_Interval
<1> QED
  BY <1>1

LEMMA ShiftIs ==
  ASSUME NEW N \in Nat, NEW k \in 0 .. N, NEW i \in 1 .. N, i > k
  PROVE  i - k \in 1 .. N - k /\ (i - k) + k = i
  OBVIOUS

LEMMA RecentCoversSame ==
  ASSUME NEW recent, NEW S, NEW T, NEW now \in Nat, NEW later \in Nat, now <= later, Timed(S),
         RecentCovers(recent, S, now), Same(T, S)
  PROVE  RecentCovers(recent, T, later)
<1>1. PICK f : Slot(f, recent, S, now)
  BY DEF RecentCovers
<1>2. \A b \in S : Fresh(b, later) => Fresh(b, now)
  BY FaucetAssumption DEF Timed, Fresh
<1>3. \A c \in T : Fresh(c, later) =>
         \E b \in S : Fresh(b, now) /\ c.ask.n = b.ask.n /\ c.ask.at = b.ask.at
  BY <1>2 DEF Fresh, SamePayment, Same
<1>4. \A c \in T : Fresh(c, later) => f[c.ask.n] \in 1 .. Len(recent) /\ recent[f[c.ask.n]] = c.ask.at
  BY <1>1, <1>3 DEF Slot
<1>5. \A c, d \in T : Fresh(c, later) /\ Fresh(d, later) /\ f[c.ask.n] = f[d.ask.n] => c.ask.n = d.ask.n
  BY <1>1, <1>3 DEF Slot
<1> QED
  BY <1>1, <1>4, <1>5 DEF RecentCovers, Slot

LEMMA RecentCoversRecent ==
  ASSUME NEW recent \in Seq(Nat), NEW S, NEW now \in Nat, Timed(S), Past(S, now),
         RecentCovers(recent, S, now)
  PROVE  RecentCovers(Recent(recent, now), S, now)
<1>1. PICK f : Slot(f, recent, S, now)
  BY DEF RecentCovers
<1>2. PICK q : q = Recent(recent, now)
  OBVIOUS
<1>3. PICK k \in 0 .. Len(recent) :
         /\ q \in Seq(Nat) /\ Len(q) = Len(recent) - k
         /\ \A i \in 1 .. Len(recent) - k : q[i] = recent[i + k]
         /\ \A j \in 1 .. k : Since(now, recent[j]) >= Hour
  BY <1>2, RecentIs
<1>4. \A b \in S : Fresh(b, now) => f[b.ask.n] \in 1 .. Len(recent) /\ f[b.ask.n] > k /\ recent[f[b.ask.n]] = b.ask.at
  <2> SUFFICES ASSUME NEW b \in S, Fresh(b, now)
               PROVE  f[b.ask.n] \in 1 .. Len(recent) /\ f[b.ask.n] > k /\ recent[f[b.ask.n]] = b.ask.at
    OBVIOUS
  <2>1. PICK i : i = f[b.ask.n]
    OBVIOUS
  <2>2. i \in 1 .. Len(recent) /\ recent[i] = b.ask.at
    BY <1>1, <2>1 DEF Slot
  <2>3. Since(now, b.ask.at) = now - b.ask.at
    BY SinceIs DEF Timed, Past
  <2>4. ~(i \in 1 .. k)
    <3>1. i \in 1 .. k => Since(now, recent[i]) >= Hour
      BY <1>3
    <3>2. now - b.ask.at < Hour /\ b.ask.at \in Nat /\ Hour \in Nat
      BY FaucetAssumption DEF Fresh, Timed
    <3> QED
      BY ONLY <2>2, <2>3, <3>1, <3>2, now \in Nat
  <2> QED
    BY <1>3, <2>1, <2>2, <2>4
<1>5. PICK g : g = [n \in Nat |-> IF f[n] > k THEN f[n] - k ELSE 0]
  OBVIOUS
<1>6. \A n \in Nat : f[n] > k => g[n] = f[n] - k
  BY <1>5
<1>7. \A b \in S : Fresh(b, now) => g[b.ask.n] = f[b.ask.n] - k /\ g[b.ask.n] \in 1 .. Len(q)
                                    /\ q[g[b.ask.n]] = b.ask.at
  <2> SUFFICES ASSUME NEW b \in S, Fresh(b, now)
               PROVE  g[b.ask.n] = f[b.ask.n] - k /\ g[b.ask.n] \in 1 .. Len(q) /\ q[g[b.ask.n]] = b.ask.at
    OBVIOUS
  <2>1. PICK i : i = f[b.ask.n]
    OBVIOUS
  <2>2. i \in 1 .. Len(recent) /\ i > k /\ recent[i] = b.ask.at
    BY <1>4, <2>1
  <2>3. g[b.ask.n] = i - k
    BY <1>6, <2>1, <2>2 DEF Timed
  <2>4. i - k \in 1 .. Len(recent) - k /\ (i - k) + k = i
    <3>1. Len(recent) \in Nat
      OBVIOUS
    <3> QED
      BY ONLY <1>3, <2>2, <3>1, ShiftIs
  <2>5. q[i - k] = b.ask.at
    BY <1>3, <2>2, <2>4
  <2> QED
    BY <1>3, <2>1, <2>3, <2>4, <2>5
<1>8. \A b, c \in S : Fresh(b, now) /\ Fresh(c, now) /\ g[b.ask.n] = g[c.ask.n] => b.ask.n = c.ask.n
  <2> SUFFICES ASSUME NEW b \in S, NEW c \in S, Fresh(b, now), Fresh(c, now), g[b.ask.n] = g[c.ask.n]
               PROVE  b.ask.n = c.ask.n
    OBVIOUS
  <2>1. PICK i, j : i = f[b.ask.n] /\ j = f[c.ask.n]
    OBVIOUS
  <2>2. i \in 1 .. Len(recent) /\ j \in 1 .. Len(recent) /\ i - k = j - k
    BY <1>4, <1>7, <2>1
  <2>3. i = j
    BY <1>3, <2>2
  <2> QED
    BY <1>1, <2>1, <2>3 DEF Slot
<1>9. Slot(g, q, S, now)
  BY <1>7, <1>8 DEF Slot
<1> QED
  BY <1>2, <1>9 DEF RecentCovers

LEMMA RecentCoversAppend ==
  ASSUME NEW recent \in Seq(Nat), NEW S, NEW T, NEW now \in Nat, NEW t \in Nat, NEW n0 \in Nat, Timed(S),
         RecentCovers(recent, S, now),
         OneMore(T, S, n0, t)
  PROVE  RecentCovers(Append(recent, t), T, now)
<1>1. PICK f : Slot(f, recent, S, now)
  BY DEF RecentCovers
<1>2. PICK q, N : q = Append(recent, t) /\ N = Len(recent)
  OBVIOUS
<1>3. /\ N \in Nat /\ q \in Seq(Nat) /\ Len(q) = N + 1 /\ q[N + 1] = t
      /\ \A i \in 1 .. N : i \in 1 .. N + 1 /\ q[i] = recent[i]
  BY <1>2, AppendedIs
<1>4. PICK g : g = [n \in Nat |-> IF n = n0 THEN N + 1 ELSE f[n]]
  OBVIOUS
<1>5. g[n0] = N + 1 /\ \A n \in Nat : n # n0 => g[n] = f[n]
  BY <1>4
<1>6. \A c \in T : Fresh(c, now) => \/ c.ask.n = n0 /\ c.ask.at = t
                                    \/ /\ c.ask.n # n0 /\ c.ask.n \in Nat /\ f[c.ask.n] \in 1 .. N
                                       /\ recent[f[c.ask.n]] = c.ask.at
  <2> SUFFICES ASSUME NEW c \in T, Fresh(c, now), c.ask.n # n0, NEW b \in S, SamePayment(c, b)
               PROVE  c.ask.n \in Nat /\ f[c.ask.n] \in 1 .. N /\ recent[f[c.ask.n]] = c.ask.at
    BY DEF OneMore
  <2>1. Fresh(b, now)
    BY DEF Fresh, SamePayment
  <2> QED
    BY <1>1, <1>2, <2>1 DEF Slot, SamePayment, Timed
<1>7. \A c \in T : Fresh(c, now) => g[c.ask.n] \in 1 .. Len(q) /\ q[g[c.ask.n]] = c.ask.at
  <2> SUFFICES ASSUME NEW c \in T, Fresh(c, now) PROVE g[c.ask.n] \in 1 .. Len(q) /\ q[g[c.ask.n]] = c.ask.at
    OBVIOUS
  <2>1. CASE c.ask.n = n0 /\ c.ask.at = t
    BY <1>3, <1>5, <2>1
  <2>2. CASE /\ c.ask.n # n0 /\ c.ask.n \in Nat /\ f[c.ask.n] \in 1 .. N
             /\ recent[f[c.ask.n]] = c.ask.at
    <3>1. PICK i : i = f[c.ask.n]
      OBVIOUS
    <3>2. i \in 1 .. N /\ recent[i] = c.ask.at /\ g[c.ask.n] = i
      BY <1>5, <2>2, <3>1
    <3>3. i \in 1 .. N + 1 /\ q[i] = c.ask.at
      BY <1>3, <3>2
    <3> QED
      BY <1>3, <3>2, <3>3
  <2> QED
    BY <1>6, <2>1, <2>2
<1>8. ASSUME NEW c \in T, NEW d \in T, Fresh(c, now), Fresh(d, now), g[c.ask.n] = g[d.ask.n]
      PROVE  c.ask.n = d.ask.n
  <2>1. CASE c.ask.n = n0 \/ d.ask.n = n0
    <3>1. \A e \in T : Fresh(e, now) /\ e.ask.n # n0 => g[e.ask.n] # N + 1
      <4> SUFFICES ASSUME NEW e \in T, Fresh(e, now), e.ask.n # n0 PROVE g[e.ask.n] # N + 1
        OBVIOUS
      <4>1. e.ask.n \in Nat /\ f[e.ask.n] \in 1 .. N
        BY <1>6
      <4>2. g[e.ask.n] \in 1 .. N
        BY <1>5, <4>1
      <4> QED
        BY ONLY <1>3, <4>2
    <3> QED
      BY <1>5, <1>8, <2>1, <3>1
  <2>2. CASE c.ask.n # n0 /\ d.ask.n # n0
    <3>1. PICK a \in S, b \in S : SamePayment(c, a) /\ SamePayment(d, b)
      BY <2>2 DEF OneMore
    <3>2. Fresh(a, now) /\ Fresh(b, now)
      BY <1>8, <3>1 DEF Fresh, SamePayment
    <3>3. f[a.ask.n] = f[b.ask.n]
      BY <1>5, <1>8, <2>2, <3>1 DEF SamePayment, Timed
    <3> QED
      BY <1>1, <3>1, <3>2, <3>3 DEF Slot, SamePayment
  <2> QED
    BY <2>1, <2>2
<1>9. Slot(g, q, T, now)
  BY <1>7, <1>8 DEF Slot
<1> QED
  BY <1>2, <1>9 DEF RecentCovers

\* So no more grants are in the last hour than recent has entries.
LEMMA RecentCounts ==
  ASSUME NEW recent \in Seq(Nat), NEW S, NEW now \in Nat, Timed(S), RecentCovers(recent, S, now),
         Distinct(S), NEW T, T \subseteq {b \in S : Fresh(b, now)}
  PROVE  IsFiniteSet(T) /\ Cardinality(T) \in Nat /\ Cardinality(T) <= Len(recent)
<1>1. PICK f : Slot(f, recent, S, now)
  BY DEF RecentCovers
<1>2. PICK g : g = [b \in T |-> f[b.ask.n]]
  OBVIOUS
<1>3. Len(recent) \in Nat
  OBVIOUS
<1>4. \A b \in T : g[b] = f[b.ask.n] /\ g[b] \in 1 .. Len(recent)
  BY <1>1, <1>2 DEF Slot
<1>5. \A a, b \in T : g[a] = g[b] => a = b
  BY <1>1, <1>4 DEF Slot, Distinct
<1>6. g \in Injection(T, 1 .. Len(recent))
  BY <1>2, <1>4, <1>5 DEF Injection, IsInjective
<1>7. IsFiniteSet(1 .. Len(recent)) /\ Cardinality(1 .. Len(recent)) = Len(recent)
  BY <1>3, UpToIs
<1> QED
  BY <1>3, <1>6, <1>7, FS_Injection, FS_CardinalityType

LEMMA GrantsTimed ==
  ASSUME FaucetBase, NEW S, S \subseteq Grants
  PROVE  Timed(S) /\ Past(S, clock) /\ Distinct(S)
  BY DEF FaucetBase, GrantTypes, Numbered, Timed, Past, Distinct

LEMMA KnownAre == NowKnown \subseteq Grants /\ KeptGrants \subseteq Grants /\ KeptGrants \subseteq NowKnown
  BY DEF NowKnown, KeptGrants

\* A step that leaves the grants, and forgets no more than Recent does.
LEMMA QuietLimits ==
  ASSUME FaucetBase, FaucetBase', LimitsInv, Grants' = Grants, clock' >= clock, faucet'.life = faucet.life,
         faucet'.paid = faucet.paid, saved' = saved,
         \/ faucet'.recent = faucet.recent
         \/ faucet'.recent = Recent(faucet.recent, clock)
  PROVE  LimitsInv'
<1>1. NowKnown' = NowKnown /\ KeptGrants' = KeptGrants
  BY DEF NowKnown, KeptGrants
<1>2. clock \in Nat /\ clock' \in Nat /\ clock <= clock' /\ faucet.recent \in Seq(Nat)
  BY TypesThen DEF FaucetBase, FaucetTypes
<1>3. /\ PaidCovers(faucet.paid, NowKnown) /\ RecentCovers(faucet.recent, NowKnown, clock)
      /\ PaidCovers(saved.paid, KeptGrants) /\ RecentCovers(saved.recent, KeptGrants, clock)
  BY DEF LimitsInv, Memory
<1>4. Timed(NowKnown) /\ Past(NowKnown, clock) /\ Timed(KeptGrants)
  BY KnownAre, GrantsTimed
<1>5. Same(NowKnown, NowKnown) /\ Same(KeptGrants, KeptGrants)
  BY DEF Same, SamePayment
<1>6. RecentCovers(faucet'.recent, NowKnown, clock)
  BY <1>2, <1>3, <1>4, RecentCoversRecent
<1>7. RecentCovers(faucet'.recent, NowKnown, clock') /\ RecentCovers(saved.recent, KeptGrants, clock')
  BY <1>2, <1>3, <1>4, <1>5, <1>6, RecentCoversSame
<1>8. Memory'
  BY <1>1, <1>3, <1>7 DEF Memory
<1>9. Spaced' /\ Rationed'
  BY DEF LimitsInv, Spaced, Rationed, KnownTo, Hourly
<1> QED
  BY <1>8, <1>9 DEF LimitsInv

LEMMA CrashLimits ==
  ASSUME FaucetBase, LimitsInv, Crash
  PROVE  LimitsInv'
<1>1. /\ faucet'.life = faucet.life + 1 /\ faucet'.paid = saved.paid /\ faucet'.recent = saved.recent
      /\ built' = built /\ clock' = clock /\ saved' = saved
  BY CrashIs DEF Fields
<1>2. Grants' = Grants /\ KeptGrants' = KeptGrants
  BY <1>1 DEF Grants, KeptGrants
<1>3. NowKnown' = KeptGrants
  <2>1. \A b \in Grants : b.ask.life # faucet.life + 1
    BY TypesThen DEF FaucetBase, GrantTypes
  <2> QED
    BY <1>1, <1>2, <2>1 DEF NowKnown, KeptGrants
<1>4. Memory'
  BY <1>1, <1>2, <1>3 DEF LimitsInv, Memory
<1>5. Spaced' /\ Rationed'
  BY <1>2 DEF LimitsInv, Spaced, Rationed, KnownTo, Hourly
<1> QED
  BY <1>4, <1>5 DEF LimitsInv

\* A later grant knows of no more than it did.
LEMMA MovedKnown ==
  ASSUME FaucetBase, NEW from \in {"out", "counted"}, NEW to \in {"counted", "kept", "dropped"},
         NEW b \in Grants, NEW l \in Grants, NEW c, NEW late, Moves(c, b, from, to), Moves(late, l, from, to),
         c.ask.n < late.ask.n, ~Forgotten(c, late)
  PROVE  b.ask.n < l.ask.n /\ ~Forgotten(b, l)
<1>1. /\ b.ask.life \in Nat /\ l.ask.life \in Nat /\ l.ask.life <= faucet.life /\ faucet.life \in Nat
  BY TypesThen DEF FaucetBase, GrantTypes
<1>2. /\ c.ask.n = b.ask.n /\ late.ask.n = l.ask.n /\ c.ask.life = b.ask.life /\ late.ask.life = l.ask.life
      /\ c.ask.state = IF b.ask.state = from /\ b.ask.life = faucet.life THEN to ELSE b.ask.state
  BY DEF Moves, SameGrant
<1>3. b.ask.state # "dropped"
  BY <1>2 DEF Forgotten
<1>4. ~(b.ask.life < l.ask.life /\ b.ask.state # "kept")
  <2> SUFFICES ASSUME b.ask.life < l.ask.life, b.ask.state # "kept" PROVE FALSE
    OBVIOUS
  <2>1. b.ask.life # faucet.life
    BY <1>1
  <2>2. c.ask.state = b.ask.state
    BY <1>2, <2>1
  <2> QED
    BY <1>2, <2>2 DEF Forgotten
<1> QED
  BY <1>2, <1>3, <1>4 DEF Forgotten

LEMMA MovedPast ==
  ASSUME FaucetBase, FaucetBase', LimitsInv, NEW from \in {"out", "counted"}, NEW to \in {"counted", "kept", "dropped"},
         \A c \in Grants' : \E b \in Grants : Moves(c, b, from, to)
  PROVE  Spaced' /\ Rationed'
<1>1. PICK src : src = [c \in Grants' |-> CHOOSE b \in Grants : Moves(c, b, from, to)]
  OBVIOUS
<1>2. \A c \in Grants' : src[c] \in Grants /\ Moves(c, src[c], from, to)
  BY <1>1
<1>3. \A late \in Grants' : \A c \in KnownTo(late, Grants') : src[c] \in KnownTo(src[late], Grants)
  BY <1>2, MovedKnown DEF KnownTo
<1>4. Spaced'
  <2> SUFFICES ASSUME NEW late \in Grants', NEW c \in KnownTo(late, Grants'), c.ask.to = late.ask.to
               PROVE  late.ask.at - c.ask.at >= PerAddress
    BY DEF Spaced
  <2>1. src[late] \in Grants /\ src[c] \in KnownTo(src[late], Grants)
    BY <1>2, <1>3
  <2>2. Moves(c, src[c], from, to) /\ Moves(late, src[late], from, to)
    BY <1>2 DEF KnownTo
  <2>3. /\ src[c].ask.to = c.ask.to /\ src[late].ask.to = late.ask.to
        /\ src[c].ask.at = c.ask.at /\ src[late].ask.at = late.ask.at
    BY <2>2 DEF Moves, SameGrant
  <2>4. src[late].ask.at - src[c].ask.at >= PerAddress
    BY <2>1, <2>3 DEF LimitsInv, Spaced
  <2> QED
    BY <2>3, <2>4
<1>5. Rationed'
  <2> SUFFICES ASSUME NEW late \in Grants' PROVE Cardinality(Hourly(late, Grants')) < PerHour
    BY DEF Rationed
  <2>1. PICK l, H, G : l = src[late] /\ H = Hourly(late, Grants') /\ G = Hourly(l, Grants)
    OBVIOUS
  <2>2. l \in Grants /\ l.ask.at = late.ask.at
    BY <1>2, <2>1 DEF Moves, SameGrant
  <2>3. \A c \in H : c \in Grants' /\ src[c] \in G
    <3> SUFFICES ASSUME NEW c \in H PROVE c \in Grants' /\ src[c] \in G
      OBVIOUS
    <3>1. c \in Grants' /\ c \in KnownTo(late, Grants') /\ late.ask.at - c.ask.at < Hour
      BY <2>1 DEF Hourly, KnownTo
    <3>2. src[c] \in KnownTo(l, Grants)
      BY <1>3, <2>1, <3>1
    <3>3. src[c].ask.at = c.ask.at
      BY <1>2, <3>1 DEF Moves, SameGrant
    <3> QED
      BY <2>1, <2>2, <3>1, <3>2, <3>3 DEF Hourly
  <2>4. PICK g : g = [c \in H |-> src[c]]
    OBVIOUS
  <2>5. \A a, c \in H : src[a] = src[c] => a = c
    <3> SUFFICES ASSUME NEW a \in H, NEW c \in H, src[a] = src[c] PROVE a = c
      OBVIOUS
    <3>1. a \in Grants' /\ c \in Grants' /\ a.ask.n = c.ask.n
      BY <1>2, <2>3 DEF Moves, SameGrant
    <3> QED
      BY <3>1 DEF FaucetBase, Numbered
  <2>6. g \in Injection(H, G)
    BY <2>3, <2>4, <2>5 DEF Injection, IsInjective
  <2>7. G \subseteq built /\ IsFiniteSet(built)
    BY <2>1, TypesThen DEF Hourly, KnownTo, Grants
  <2>8. IsFiniteSet(G)
    BY <2>7, FS_Subset
  <2>9. IsFiniteSet(H) /\ Cardinality(H) <= Cardinality(G)
    BY <2>6, <2>8, FS_Injection
  <2>10. Cardinality(H) \in Nat /\ Cardinality(G) \in Nat
    BY <2>8, <2>9, FS_CardinalityType
  <2>11. Cardinality(G) < PerHour
    BY <2>1, <2>2 DEF LimitsInv, Rationed
  <2> QED
    BY <2>1, <2>9, <2>10, <2>11, FaucetAssumption
<1> QED
  BY <1>4, <1>5

\* A new grant knows of what the process knows, and that is far enough back.
LEMMA NewGrantLimits ==
  ASSUME FaucetBase, FaucetBase', LimitsInv, NEW to, NEW h, NEW g, NEW b, faucet.phase = "idle",
         ~InWindow(faucet, to), Len(Recent(faucet.recent, clock)) < PerHour,
         Looks("post", g, h), NewGrant(g, b, to, h), saved' = saved, clock' = clock
  PROVE  LimitsInv'
<1>1. /\ built' = built \cup {b} /\ b.ask.to = to /\ b.ask.life = faucet.life /\ b.ask.at = clock
      /\ b.ask.n = Cardinality(built) /\ b.ask.state = "out"
  BY DEF NewGrant
<1>2. /\ faucet'.life = faucet.life /\ faucet'.paid = faucet.paid
      /\ faucet'.recent = Recent(faucet.recent, clock)
  BY DEF Looks, Fields
<1>3. Grants' = Grants \cup {b}
  BY <1>1 DEF Grants
<1>4. NowKnown' = NowKnown /\ KeptGrants' = KeptGrants
  BY <1>1, <1>2, <1>3 DEF NowKnown, KeptGrants
<1>5. /\ PaidCovers(faucet.paid, NowKnown) /\ RecentCovers(faucet.recent, NowKnown, clock)
      /\ PaidCovers(saved.paid, KeptGrants) /\ RecentCovers(saved.recent, KeptGrants, clock)
  BY DEF LimitsInv, Memory
<1>6. Timed(NowKnown) /\ Past(NowKnown, clock) /\ Distinct(NowKnown)
  BY KnownAre, GrantsTimed
<1>7. PICK q : q = Recent(faucet.recent, clock)
  OBVIOUS
<1>8. q \in Seq(Nat) /\ RecentCovers(q, NowKnown, clock) /\ clock \in Nat /\ Len(q) < PerHour
  BY <1>5, <1>6, <1>7, TypesThen, RecentIs, RecentCoversRecent
<1>9. Memory'
  BY <1>2, <1>4, <1>5, <1>7, <1>8 DEF Memory
<1>10. \A a \in Grants : a.ask.n \in Nat /\ a.ask.n < b.ask.n /\ a.ask.life \in Nat /\ a.ask.life <= faucet.life
                         /\ a.ask.at \in Nat /\ a.ask.at <= clock
                         /\ a.ask.state \in {"out", "counted", "kept", "dropped"}
  BY <1>1 DEF FaucetBase, GrantTypes
<1>11. \A late \in Grants : KnownTo(late, Grants') = KnownTo(late, Grants)
  <2>1. Cardinality(built) \in Nat
    BY TypesThen
  <2> QED
    BY <1>1, <1>3, <1>10, <2>1 DEF KnownTo
<1>12. KnownTo(b, Grants') \subseteq NowKnown
  <2> SUFFICES ASSUME NEW a \in KnownTo(b, Grants') PROVE a \in NowKnown
    OBVIOUS
  <2>1. a.ask.n < b.ask.n /\ ~Forgotten(a, b) /\ a \in Grants'
    BY DEF KnownTo
  <2>2. a # b
    BY <1>1, <2>1, TypesThen
  <2>3. a \in Grants
    BY <1>3, <2>1, <2>2
  <2>4. a.ask.state # "dropped" /\ ~(a.ask.life < faucet.life /\ a.ask.state # "kept")
    BY <1>1, <2>1 DEF Forgotten
  <2>5. ~(a.ask.state = "out" /\ a.ask.life = faucet.life)
    BY <2>3 DEF FaucetBase, Pending, InFlight
  <2>6. a.ask.life < faucet.life \/ a.ask.life = faucet.life
    BY <1>10, <2>3, TypesThen
  <2> QED
    BY <1>10, <2>3, <2>4, <2>5, <2>6 DEF NowKnown
<1>13. \A a \in KnownTo(b, Grants') : a.ask.to = b.ask.to => b.ask.at - a.ask.at >= PerAddress
  <2> SUFFICES ASSUME NEW a \in NowKnown, a.ask.to = to PROVE clock - a.ask.at >= PerAddress
    BY <1>1, <1>12
  <2>1. PICK p \in faucet.paid : p[1] = to /\ p[2] >= a.ask.at
    BY <1>5 DEF PaidCovers
  <2>2. p[2] \in Nat /\ p[2] <= clock /\ clock \in Nat
    BY <2>1, TypesThen
  <2>3. ~(Since(clock, p[2]) < PerAddress)
    BY <2>1 DEF InWindow, Paid
  <2>4. Since(clock, p[2]) = clock - p[2]
    BY <2>2, SinceIs
  <2>5. a.ask.at \in Nat
    BY <1>6 DEF Timed
  <2>6. PerAddress \in Nat
    BY FaucetAssumption
  <2> QED
    BY <2>1, <2>2, <2>3, <2>4, <2>5, <2>6
<1>14. Spaced'
  BY <1>3, <1>11, <1>13 DEF LimitsInv, Spaced
<1>15. Cardinality(Hourly(b, Grants')) < PerHour
  <2>1. PICK T : T = Hourly(b, Grants')
    OBVIOUS
  <2>2. T \subseteq {a \in NowKnown : Fresh(a, clock)}
    BY <1>1, <1>12, <2>1 DEF Hourly, Fresh
  <2>3. Cardinality(T) \in Nat /\ Cardinality(T) <= Len(q)
    BY <1>6, <1>8, <2>2, RecentCounts
  <2>4. Len(q) \in Nat /\ PerHour \in Nat
    BY <1>8, FaucetAssumption
  <2> QED
    BY <1>8, <2>1, <2>3, <2>4
<1>16. Rationed'
  BY <1>3, <1>11, <1>15 DEF LimitsInv, Rationed, Hourly
<1> QED
  BY <1>9, <1>14, <1>16 DEF LimitsInv

LEMMA GrantLimits ==
  ASSUME FaucetBase, FaucetBase', LimitsInv, NEW r, Grant(r)
  PROVE  LimitsInv'
<1>1. faucet.phase = "idle" /\ UNCHANGED <<views, mined, pool, saved, clock>>
  BY TypesThen, GrantIs
<1>2. PICK to, h :
         /\ ~InWindow(faucet, to) /\ Len(Recent(faucet.recent, clock)) < PerHour
         /\ \/ Looks("idle", faucet.grant, h) /\ built' = built
            \/ \E g, b : Looks("post", g, h) /\ NewGrant(g, b, to, h)
  BY TypesThen, GrantIs
<1>3. CASE Looks("idle", faucet.grant, h) /\ built' = built
  <2>1. Grants' = Grants /\ clock' >= clock
    BY <1>1, <1>3, TypesThen DEF Grants
  <2>2. faucet'.life = faucet.life /\ faucet'.paid = faucet.paid /\ faucet'.recent = Recent(faucet.recent, clock)
    BY <1>3 DEF Looks, Fields
  <2> QED
    BY <1>1, <2>1, <2>2, QuietLimits
<1>4. ASSUME NEW g, NEW b, Looks("post", g, h), NewGrant(g, b, to, h) PROVE LimitsInv'
  BY <1>1, <1>2, <1>4, NewGrantLimits
<1> QED
  BY <1>2, <1>3, <1>4

LEMMA PublishGrantLimits ==
  ASSUME FaucetBase, FaucetBase', LimitsInv, PublishGrant
  PROVE  LimitsInv'
<1>1. faucet.phase = "publish" /\ UNCHANGED <<views, mined, pool, saved, clock>>
  BY TypesThen, PublishGrantIs
<1>2. PICK g : g = faucet.grant
  OBVIOUS
<1>3. g.at \in Nat /\ g.at <= clock /\ clock \in Nat /\ \A b \in Grants : b.ask.at <= g.at
  BY <1>1, <1>2, TypesThen DEF FaucetBase, Pending, InFlight
<1>4. /\ PaidCovers(faucet.paid, NowKnown) /\ RecentCovers(faucet.recent, NowKnown, clock)
      /\ PaidCovers(saved.paid, KeptGrants) /\ RecentCovers(saved.recent, KeptGrants, clock)
  BY DEF LimitsInv, Memory
<1>5. Timed(NowKnown) /\ Timed(KeptGrants) /\ Timed(Grants)
  BY KnownAre, GrantsTimed
<1>6. ASSUME NEW to \in {"counted", "dropped"}, \A c \in Grants' : \E b \in Grants : Moves(c, b, "out", to)
      PROVE  /\ PaidCovers(saved'.paid, KeptGrants') /\ RecentCovers(saved'.recent, KeptGrants', clock')
  <2>1. Same(KeptGrants', KeptGrants)
    BY <1>6 DEF KeptGrants, Same, SamePayment, Moves, SameGrant
  <2> QED
    BY <1>1, <1>3, <1>4, <1>5, <2>1, PaidCoversSame, RecentCoversSame
<1>7. CASE /\ Fields(faucet', AfterPaying(faucet.grant), NoGrant, faucet.file, HeldWith(faucet.held, faucet.grant),
                     PaidWith(faucet.paid, faucet.grant), Append(faucet.recent, faucet.grant.at), faucet.life)
           /\ built' = Moved("out", "counted")
  <2>1. /\ ~InFlight' /\ faucet'.life = faucet.life /\ FaucetTypes' /\ faucet'.paid = PaidWith(faucet.paid, g)
        /\ faucet'.recent = Append(faucet.recent, g.at)
    BY <1>2, <1>7 DEF Fields, AfterPaying, InFlight, FaucetBase
  <2>2. \A c \in Grants' : \E b \in Grants : Moves(c, b, "out", "counted")
    BY <1>1, <1>7, <2>1, MovedBase
  <2>3. \A c \in NowKnown' : \E b \in Grants :
           /\ SamePayment(c, b)
           /\ b \in NowKnown \/ (b.ask.state = "out" /\ b.ask.life = faucet.life)
    BY <2>1, <2>2 DEF NowKnown, Moves, SameGrant, SamePayment
  <2>4. \A b \in Grants : b.ask.state = "out" /\ b.ask.life = faucet.life =>
           b.ask.to = g.to /\ b.ask.at = g.at /\ \A a \in Grants : a.ask.n <= b.ask.n
    BY <1>2 DEF FaucetBase, Pending
  <2>5. PaidCovers(PaidWith(faucet.paid, g), NowKnown')
    <3> SUFFICES ASSUME NEW c \in NowKnown'
                 PROVE  \E p \in PaidWith(faucet.paid, g) : p[1] = c.ask.to /\ p[2] >= c.ask.at
      BY DEF PaidCovers
    <3>1. PICK b \in Grants : /\ SamePayment(c, b)
                              /\ b \in NowKnown \/ (b.ask.state = "out" /\ b.ask.life = faucet.life)
      BY <2>3
    <3>2. c.ask.to = b.ask.to /\ c.ask.at = b.ask.at /\ b.ask.at \in Nat /\ b.ask.at <= g.at
      BY <1>3, <1>5, <3>1 DEF SamePayment, Timed
    <3>3. PICK e : e = <<g.to, g.at>>
      OBVIOUS
    <3>4. e \in PaidWith(faucet.paid, g) /\ e[1] = g.to /\ e[2] = g.at
      BY <3>3 DEF PaidWith
    <3>5. CASE b.ask.to = g.to
      BY <1>3, <3>2, <3>4, <3>5
    <3>6. CASE b.ask.to # g.to
      <4>1. b \in NowKnown
        BY <2>4, <3>1, <3>6
      <4>2. PICK p \in faucet.paid : p[1] = b.ask.to /\ p[2] >= b.ask.at
        BY <1>4, <4>1 DEF PaidCovers
      <4>3. p \in PaidWith(faucet.paid, g)
        BY <3>6, <4>2 DEF PaidWith
      <4> QED
        BY <3>2, <4>2, <4>3
    <3> QED
      BY <3>5, <3>6
  <2>6. PICK n0 \in Nat : \A b \in Grants :
           /\ b.ask.state = "out" /\ b.ask.life = faucet.life => b.ask.n = n0
           /\ b.ask.n = n0 => b.ask.state = "out" /\ b.ask.life = faucet.life
    <3>1. CASE \E b \in Grants : b.ask.state = "out" /\ b.ask.life = faucet.life
      <4>1. PICK b \in Grants : b.ask.state = "out" /\ b.ask.life = faucet.life
        BY <3>1
      <4>2. \A a \in Grants : a.ask.n = b.ask.n => a = b
        BY DEF FaucetBase, Numbered
      <4>3. \A a \in Grants : a.ask.state = "out" /\ a.ask.life = faucet.life => a.ask.n = b.ask.n
        <5> SUFFICES ASSUME NEW a \in Grants, a.ask.state = "out", a.ask.life = faucet.life PROVE a.ask.n = b.ask.n
          OBVIOUS
        <5>1. a.ask.n <= b.ask.n /\ b.ask.n <= a.ask.n /\ a.ask.n \in Nat /\ b.ask.n \in Nat
          BY <1>5, <2>4, <4>1 DEF Timed
        <5> QED
          BY <5>1
      <4>4. b.ask.n \in Nat
        BY <1>5 DEF Timed
      <4> QED
        BY <4>1, <4>2, <4>3, <4>4
    <3>2. CASE ~\E b \in Grants : b.ask.state = "out" /\ b.ask.life = faucet.life
      <4>1. Cardinality(built) \in Nat /\ \A b \in Grants : b.ask.n # Cardinality(built)
        BY TypesThen DEF FaucetBase, GrantTypes
      <4> QED
        BY <3>2, <4>1
    <3> QED
      BY <3>1, <3>2
  <2>7. OneMore(NowKnown', NowKnown, n0, g.at)
    <3> SUFFICES ASSUME NEW c \in NowKnown'
                 PROVE  \/ c.ask.n = n0 /\ c.ask.at = g.at
                        \/ c.ask.n # n0 /\ \E b \in NowKnown : SamePayment(c, b)
      BY DEF OneMore
    <3>1. PICK b \in Grants : /\ SamePayment(c, b)
                              /\ b \in NowKnown \/ (b.ask.state = "out" /\ b.ask.life = faucet.life)
      BY <2>3
    <3>2. CASE b.ask.state = "out" /\ b.ask.life = faucet.life
      BY <2>4, <2>6, <3>1, <3>2 DEF SamePayment
    <3>3. CASE b \in NowKnown
      <4>1. b.ask.n # n0
        BY <2>6, <3>3 DEF NowKnown
      <4> QED
        BY <3>1, <3>3, <4>1 DEF SamePayment
    <3> QED
      BY <3>1, <3>2, <3>3
  <2>8. faucet.recent \in Seq(Nat)
    BY TypesThen
  <2>9. RecentCovers(Append(faucet.recent, g.at), NowKnown', clock)
    BY <1>3, <1>4, <1>5, <2>6, <2>7, <2>8, RecentCoversAppend
  <2>10. Memory'
    BY <1>1, <1>6, <2>1, <2>2, <2>5, <2>9 DEF Memory
  <2>11. Spaced' /\ Rationed'
    BY <2>2, MovedPast
  <2> QED
    BY <2>10, <2>11 DEF LimitsInv
<1>8. CASE /\ Fields(faucet', "idle", NoGrant, faucet.file, faucet.held, faucet.paid, faucet.recent, faucet.life)
           /\ built' = Moved("out", "dropped")
  <2>1. /\ ~InFlight' /\ faucet'.life = faucet.life /\ FaucetTypes' /\ faucet'.paid = faucet.paid
        /\ faucet'.recent = faucet.recent
    BY <1>8 DEF Fields, InFlight, FaucetBase
  <2>2. \A c \in Grants' : \E b \in Grants : Moves(c, b, "out", "dropped")
    BY <1>1, <1>8, <2>1, MovedBase
  <2>3. Same(NowKnown', NowKnown)
    BY <2>1, <2>2 DEF NowKnown, Moves, SameGrant, Same, SamePayment
  <2>4. PaidCovers(faucet.paid, NowKnown') /\ RecentCovers(faucet.recent, NowKnown', clock)
    BY <1>3, <1>4, <1>5, <2>3, PaidCoversSame, RecentCoversSame
  <2>5. Memory'
    BY <1>1, <1>6, <2>1, <2>2, <2>4 DEF Memory
  <2>6. Spaced' /\ Rationed'
    BY <2>2, MovedPast
  <2> QED
    BY <2>5, <2>6 DEF LimitsInv
<1> QED
  BY <1>7, <1>8, TypesThen, PublishGrantIs

LEMMA SaveLimits ==
  ASSUME FaucetBase, FaucetBase', LimitsInv, Save
  PROVE  LimitsInv'
<1>1. /\ faucet.phase = "save" /\ UNCHANGED <<views, mined, pool, clock>>
      /\ Fields(faucet', "idle", faucet.grant, faucet.file, faucet.held, faucet.paid, faucet.recent, faucet.life)
  BY TypesThen, SaveIs
<1>2. /\ ~InFlight /\ ~InFlight' /\ faucet'.life = faucet.life /\ faucet'.paid = faucet.paid
      /\ faucet'.recent = faucet.recent /\ FaucetTypes'
  BY <1>1 DEF Fields, InFlight, FaucetBase
<1>3. CASE saved'.paid = faucet.paid /\ saved'.recent = faucet.recent /\ built' = Moved("counted", "kept")
  <2>1. \A c \in Grants' : \E b \in Grants : Moves(c, b, "counted", "kept")
    BY <1>1, <1>2, <1>3, MovedBase
  <2>2. Same(NowKnown', NowKnown)
    BY <1>2, <2>1 DEF NowKnown, Moves, SameGrant, Same, SamePayment
  <2>3. Same(KeptGrants', NowKnown)
    BY <1>2, <2>1 DEF NowKnown, KeptGrants, Moves, SameGrant, Same, SamePayment
  <2>4. PaidCovers(faucet.paid, NowKnown) /\ RecentCovers(faucet.recent, NowKnown, clock)
    BY DEF LimitsInv, Memory
  <2>5. Timed(NowKnown) /\ clock \in Nat /\ clock <= clock
    BY KnownAre, GrantsTimed, TypesThen
  <2>6. /\ PaidCovers(faucet.paid, NowKnown') /\ RecentCovers(faucet.recent, NowKnown', clock)
        /\ PaidCovers(faucet.paid, KeptGrants') /\ RecentCovers(faucet.recent, KeptGrants', clock)
    BY <2>2, <2>3, <2>4, <2>5, PaidCoversSame, RecentCoversSame
  <2>7. Memory'
    BY <1>1, <1>2, <1>3, <2>6 DEF Memory
  <2>8. Spaced' /\ Rationed'
    BY <2>1, MovedPast
  <2> QED
    BY <2>7, <2>8 DEF LimitsInv
<1>4. CASE saved' = saved /\ built' = built
  <2>1. Grants' = Grants /\ clock' >= clock
    BY <1>1, <1>4, TypesThen DEF Grants
  <2> QED
    BY <1>2, <1>4, <2>1, QuietLimits
<1> QED
  BY <1>3, <1>4, TypesThen, SaveIs

LEMMA LimitsNext ==
  ASSUME FaucetBase, FaucetBase', LimitsInv, [FaucetNext]_faucetVars
  PROVE  LimitsInv'
<1>1. ASSUME NEW r, Ignore(r) PROVE LimitsInv'
  BY <1>1, TypesThen, IgnoreIs, QuietLimits DEF Fields, Grants
<1>2. ASSUME NEW r, Skip(r) PROVE LimitsInv'
  BY <1>2, TypesThen, SkipIs, QuietLimits DEF Fields, Grants
<1>3. CASE PostGrant
  BY <1>3, TypesThen, PostGrantIs, QuietLimits DEF Fields, Grants
<1>4. CASE Tick
  BY <1>4, TypesThen, QuietLimits DEF Tick, Grants
<1>5. CASE Mine
  BY <1>5, TypesThen, QuietLimits DEF Mine, Grants
<1>6. CASE TakeFromRelay
  BY <1>6, TypesThen, QuietLimits DEF TakeFromRelay, Grants
<1>7. ASSUME NEW c, Command(c) PROVE LimitsInv'
  <2>1. Grants' = Grants /\ UNCHANGED <<faucet, saved, clock>>
    BY <1>7, CommandBase DEF Command
  <2> QED
    BY <2>1, TypesThen, QuietLimits
<1>8. CASE UNCHANGED faucetVars
  BY <1>8, TypesThen, QuietLimits DEF faucetVars, Grants
<1> QED
  BY <1>1, <1>2, <1>3, <1>4, <1>5, <1>6, <1>7, <1>8, GrantLimits, PublishGrantLimits, SaveLimits, CrashLimits
     DEF FaucetNext

LEMMA LimitsInit ==
  ASSUME FaucetInit, FaucetBase
  PROVE  LimitsInv
<1>1. Grants = {} /\ NowKnown = {} /\ KeptGrants = {}
  BY DEF FaucetInit, Grants, NowKnown, KeptGrants
<1>2. Memory
  BY <1>1 DEF Memory, PaidCovers, RecentCovers, Slot
<1> QED
  BY <1>1, <1>2 DEF LimitsInv, Spaced, Rationed

LEMMA LimitsHold ==
  ASSUME FaucetBase, LimitsInv
  PROVE  GrantsRespectLimits
<1> DEFINE out == {b \in Grants : b.ask.state \in {"counted", "kept"} \/ IsOut(b.tx)}
           known(late) == {b \in out : b.ask.n < late.ask.n /\ ~Forgotten(b, late)}
<1>1. \A late \in out : known(late) \subseteq KnownTo(late, Grants) /\ late \in Grants
  BY DEF KnownTo
<1>2. \A late \in out : \A b \in known(late) : b.ask.to = late.ask.to => late.ask.at - b.ask.at >= PerAddress
  <2> HIDE DEF known, out
  <2> QED
    BY <1>1 DEF LimitsInv, Spaced
<1>3. ASSUME NEW late \in out
      PROVE  Cardinality({b \in known(late) : late.ask.at - b.ask.at < Hour}) < PerHour
  <2>1. PICK T, H : T = {b \in known(late) : late.ask.at - b.ask.at < Hour} /\ H = Hourly(late, Grants)
    OBVIOUS
  <2>2. T \subseteq H
    <3> HIDE DEF known, out
    <3> QED
      BY <1>1, <1>3, <2>1 DEF Hourly
  <2>3. H \subseteq built /\ IsFiniteSet(built)
    BY <2>1, TypesThen DEF Hourly, KnownTo, Grants
  <2>4. IsFiniteSet(H)
    BY <2>3, FS_Subset
  <2>5. IsFiniteSet(T) /\ Cardinality(T) <= Cardinality(H)
    BY <2>2, <2>4, FS_Subset
  <2>6. Cardinality(T) \in Nat /\ Cardinality(H) \in Nat
    BY <2>4, <2>5, FS_CardinalityType
  <2>7. Cardinality(H) < PerHour /\ PerHour \in Nat
    BY <1>1, <1>3, <2>1, FaucetAssumption DEF LimitsInv, Rationed
  <2> QED
    BY <2>1, <2>5, <2>6, <2>7
<1> QED
  BY <1>2, <1>3 DEF GrantsRespectLimits

-----------------------------------------------------------------------------
(* A grant spends coins that are free. *)

LEMMA SelectIn ==
  ASSUME NEW coins, NEW amount, NEW bound, NEW p \in Select(coins, amount, bound)
  PROVE  p \subseteq coins
  BY DEF Select, Enough

LEMMA PickCarriersIn ==
  ASSUME NEW carriers, NEW asset, NEW units, NEW p \in PickCarriers(carriers, asset, units)
  PROVE  p \subseteq carriers
  BY DEF PickCarriers, Enough

SpendsFrom(tries, coins) == \A a \in tries : a.spent \subseteq coins

LEMMA AttemptIn ==
  ASSUME NEW free, NEW required, NEW paid, NEW listed, NEW fee, NEW bound, NEW me
  PROVE  SpendsFrom(Attempt(free, required, paid, listed, fee, bound, me), free \cup required)
<1> DEFINE have == Balance(required)
           extra == IF have >= paid + bound THEN {{}} ELSE Select(free, Max({0, paid - have}), bound)
<1>1. \A e \in extra : e \subseteq free
  BY SelectIn
<1>2. ASSUME NEW a \in Attempt(free, required, paid, listed, fee, bound, me)
      PROVE  \E e \in extra : a.spent = required \cup e
  <2>1. PICK e \in extra : \E m, l : a = [spent |-> required \cup e, min |-> m, laid |-> l]
    BY <1>2 DEF Attempt
  <2>2. a.spent = required \cup e
    <3> HIDE DEF extra
    <3> QED
      BY <2>1
  <2> QED
    BY <2>2
<1> HIDE DEF extra
<1> QED
  BY <1>1, <1>2 DEF SpendsFrom

LEMMA AgainIn ==
  ASSUME NEW tries, NEW free, NEW required, NEW paid, NEW listed, NEW fee, NEW me,
         SpendsFrom(tries, free \cup required)
  PROVE  SpendsFrom(UNION {Again(a, free, required, paid, listed, fee, me) : a \in tries}, free \cup required)
<1>1. ASSUME NEW a \in tries, NEW x \in Again(a, free, required, paid, listed, fee, me)
      PROVE  x.spent \subseteq free \cup required
  <2>1. x = a \/ x \in Attempt(free, required, paid, listed, fee, a.min + FeeBound, me)
    BY <1>1 DEF Again
  <2> QED
    BY <2>1, AttemptIn DEF SpendsFrom
<1> QED
  BY <1>1 DEF SpendsFrom

LEMMA BuildOutputsIn ==
  ASSUME NEW coins, NEW required, NEW tip, NEW outputs, NEW records, NEW fee, NEW signer,
         NEW tx \in BuildOutputs(coins, required, tip, outputs, records, fee, signer)
  PROVE  tx.ins \subseteq Ops(coins \cup required)
<1> DEFINE me == ScriptFor(signer.key)
           paid == Total(outputs)
           listed == outputs \o [i \in DOMAIN records |-> Output(<<"return", records[i]>>, 0)]
           free == {c \in Mature(coins, tip) : c.op \notin Ops(required)}
           again(tries) == UNION {Again(a, free, required, paid, listed, fee, me) : a \in tries}
           first == Attempt(free, required, paid, listed, fee, Or(fee, FeeBound), me)
<1>1. \E a \in again(again(again(again(first)))) : \E l : tx = SignInputs(Ops(a.spent), l.outs, signer)
  BY DEF BuildOutputs
<1>2. free \cup required \subseteq coins \cup required
  BY DEF Mature
<1>3. SpendsFrom(first, free \cup required)
  <2> HIDE DEF free, paid, listed, me
  <2> QED
    BY AttemptIn
<1>4. \A t : SpendsFrom(t, free \cup required) => SpendsFrom(again(t), free \cup required)
  <2> HIDE DEF free, paid, listed, me
  <2> QED
    BY AgainIn
<1>5. SpendsFrom(again(again(again(again(first)))), free \cup required)
  <2> HIDE DEF again, first, free
  <2> QED
    BY <1>3, <1>4
<1> HIDE DEF again, first, free
<1>6. PICK a \in again(again(again(again(first)))) : \E l : tx = SignInputs(Ops(a.spent), l.outs, signer)
  BY <1>1
<1>7. tx.ins = Ops(a.spent)
  BY <1>6 DEF SignInputs
<1>8. a.spent \subseteq coins \cup required
  BY <1>2, <1>5, <1>6 DEF SpendsFrom
<1> QED
  BY <1>7, <1>8 DEF Ops

LEMMA BuildGrantIn ==
  ASSUME NEW asset, NEW free, NEW tip, NEW to, NEW tx \in BuildGrant(asset, free, tip, to)
  PROVE  tx.ins \subseteq Ops(free)
<1>1. PlainCoins(free) \subseteq free /\ SortCoins(free, asset).carriers \subseteq free
  BY DEF PlainCoins, SortCoins
<1>2. \E p, outputs, records, signer :
         /\ p \subseteq free
         /\ tx \in BuildOutputs(PlainCoins(free), p, tip, outputs, records, {}, signer)
  <2>1. CASE asset = {}
    BY <2>1 DEF BuildGrant
  <2>2. CASE asset # {}
    <3>1. PICK p \in PickCarriers(SortCoins(free, asset).carriers, The(asset), GrantUnits) :
             tx \in GrantFrom(The(asset), p, BalanceOf(p, The(asset)), free, tip, to)
      BY <2>2 DEF BuildGrant
    <3>2. p \subseteq free
      BY <1>1, <3>1, PickCarriersIn
    <3>3. \E outputs, records, signer : tx \in BuildOutputs(PlainCoins(free), p, tip, outputs, records, {}, signer)
      BY <3>1 DEF GrantFrom
    <3> QED
      BY <3>2, <3>3
  <2> QED
    BY <2>1, <2>2
<1>3. PICK p, outputs, records, signer :
         /\ p \subseteq free
         /\ tx \in BuildOutputs(PlainCoins(free), p, tip, outputs, records, {}, signer)
  BY <1>2
<1>4. tx.ins \subseteq Ops(PlainCoins(free) \cup p)
  BY <1>3, BuildOutputsIn
<1> QED
  BY <1>1, <1>3, <1>4 DEF Ops

-----------------------------------------------------------------------------
(* No coin is made twice. *)

\* A transaction whose inputs are there now has made nothing yet.
LEMMA UnspentMadeNothing ==
  ASSUME NEW v, IsViews(v), Continuous(v), Born(v),
         NEW t, t.ins # {}, t.ins \subseteq Ops(v[Len(v)]), NEW i
  PROVE  \A k \in 1 .. Len(v) : <<Txid(t), i>> \notin Ops(v[k])
<1> SUFFICES ASSUME NEW k \in 1 .. Len(v), <<Txid(t), i>> \in Ops(v[k]) PROVE FALSE
  OBVIOUS
<1>1. PICK c \in v[k] : c.op = <<Txid(t), i>>
  BY DEF Ops
<1>2. c.op[1] = Txid(t)
  BY <1>1
<1>3. c.op[1][1] = t.ins /\ c.op[1] # <<"genesis">>
  BY <1>2 DEF Txid
<1>4. PICK j \in 1 .. k - 1 : t.ins \subseteq Ops(v[j]) /\ t.ins \cap Ops(v[j + 1]) = {}
  BY <1>1, <1>3 DEF Born
<1>5. PICK q \in t.ins : TRUE
  OBVIOUS
<1>6. q \in Ops(v[j]) /\ q \notin Ops(v[j + 1]) /\ q \in Ops(v[Len(v)])
  BY <1>4, <1>5
<1>7. PICK d \in v[Len(v)] : d.op = q
  BY <1>6 DEF Ops
<1>8. Len(v) \in Nat \ {0}
  BY ViewsAre
<1>9. Len(v) \in 1 .. Len(v) /\ j \in 1 .. Len(v) /\ j + 1 \in j .. Len(v)
  BY <1>4, <1>8
<1>10. d \in v[j + 1]
  BY <1>6, <1>7, <1>9 DEF Continuous
<1> QED
  BY <1>6, <1>7, <1>10 DEF Ops

\* A block: unspent coins stay, new ones are of transactions whose inputs were there and are gone.
Block(v, x, txs) ==
    /\ \A t \in txs : t.ins # {} /\ t.ins \subseteq Ops(v[Len(v)])
    /\ \A d \in x : \/ d \in v[Len(v)] /\ \A t \in txs : d.op \notin t.ins
                    \/ \E t \in txs : \E i : d.op = <<Txid(t), i>>

LEMMA BlockKeeps ==
  ASSUME NEW v, IsViews(v), Continuous(v), Born(v), NEW x, NEW txs, Block(v, x, txs), NEW w, w = Append(v, x)
  PROVE  Continuous(w) /\ Born(w)
<1>1. /\ IsViews(w) /\ Len(w) = Len(v) + 1 /\ w[Len(v) + 1] = x
      /\ \A i \in 1 .. Len(v) : w[i] = v[i]
  <2>1. Grown(w, v, x)
    BY ViewsGrow
  <2> QED
    BY <2>1 DEF Grown
<1>2. PICK N : N = Len(v)
  OBVIOUS
<1>3. N \in Nat \ {0} /\ Len(w) = N + 1 /\ w[N + 1] = x /\ \A i \in 1 .. N : w[i] = v[i]
  BY <1>1, <1>2, ViewsAre
<1>4. ASSUME NEW d \in x
      PROVE  \/ d \in v[N] /\ \A t \in txs : d.op \notin t.ins
             \/ /\ \A k \in 1 .. N : d.op \notin Ops(v[k])
                /\ \E t \in txs : \E i : d.op = <<Txid(t), i>>
  <2>1. CASE \E t \in txs : \E i : d.op = <<Txid(t), i>>
    <3>1. PICK t \in txs : \E i : d.op = <<Txid(t), i>>
      BY <2>1
    <3>4. PICK i : d.op = <<Txid(t), i>>
      BY <3>1
    <3>2. t.ins # {} /\ t.ins \subseteq Ops(v[Len(v)])
      BY <3>1 DEF Block
    <3>3. \A k \in 1 .. N : <<Txid(t), i>> \notin Ops(v[k])
      BY <1>2, <3>2, UnspentMadeNothing
    <3> QED
      BY <2>1, <3>3, <3>4
  <2> QED
    BY <1>2, <1>4, <2>1 DEF Block
<1>5. Continuous(w)
  <2> SUFFICES ASSUME NEW m \in 1 .. N + 1, NEW d \in w[m], NEW i \in 1 .. m, d.op \in Ops(w[i]), NEW l \in i .. m
               PROVE  d \in w[l]
    BY <1>3 DEF Continuous
  <2>1. CASE m \in 1 .. N
    <3>1. i \in 1 .. N /\ l \in 1 .. N /\ w[m] = v[m] /\ w[i] = v[i] /\ w[l] = v[l]
      BY <1>3, <2>1
    <3> QED
      BY <1>2, <2>1, <3>1 DEF Continuous
  <2>2. CASE m = N + 1
    <3>1. d \in x
      BY <1>3, <2>2
    <3>2. CASE l = N + 1
      BY <1>3, <3>1, <3>2
    <3>3. CASE l # N + 1
      <4>1. i \in 1 .. N /\ l \in 1 .. N /\ l \in i .. N /\ N \in 1 .. N
        BY <1>3, <2>2, <3>3
      <4>2. w[i] = v[i] /\ w[l] = v[l]
        BY <1>3, <4>1
      <4>3. d \in v[N]
        BY <1>4, <3>1, <4>1, <4>2
      <4> QED
        BY <1>2, <4>1, <4>2, <4>3 DEF Continuous
    <3> QED
      BY <3>2, <3>3
  <2> QED
    BY <1>3, <2>1, <2>2
<1>6. Born(w)
  <2> SUFFICES ASSUME NEW k \in 1 .. N + 1, NEW c \in w[k]
               PROVE  \/ c.op[1] = <<"genesis">>
                      \/ \E j \in 1 .. k - 1 : /\ c.op[1][1] # {} /\ c.op[1][1] \subseteq Ops(w[j])
                                               /\ c.op[1][1] \cap Ops(w[j + 1]) = {}
    BY <1>3 DEF Born
  <2>1. ASSUME NEW e, NEW n \in 1 .. N, e \in v[n], n <= k
        PROVE  \/ e.op[1] = <<"genesis">>
               \/ \E j \in 1 .. k - 1 : /\ e.op[1][1] # {} /\ e.op[1][1] \subseteq Ops(w[j])
                                        /\ e.op[1][1] \cap Ops(w[j + 1]) = {}
    <3> SUFFICES ASSUME e.op[1] # <<"genesis">>
                 PROVE  \E j \in 1 .. k - 1 : /\ e.op[1][1] # {} /\ e.op[1][1] \subseteq Ops(w[j])
                                              /\ e.op[1][1] \cap Ops(w[j + 1]) = {}
      OBVIOUS
    <3>1. PICK j \in 1 .. n - 1 : /\ e.op[1][1] # {} /\ e.op[1][1] \subseteq Ops(v[j])
                                  /\ e.op[1][1] \cap Ops(v[j + 1]) = {}
      BY <1>2, <2>1 DEF Born
    <3>2. j \in 1 .. k - 1 /\ j \in 1 .. N /\ j + 1 \in 1 .. N
      BY <1>3, <2>1, <3>1
    <3>3. w[j] = v[j] /\ w[j + 1] = v[j + 1]
      BY <1>3, <3>2
    <3> QED
      BY <3>1, <3>2, <3>3
  <2>2. CASE k \in 1 .. N
    <3>1. c \in v[k] /\ k <= k
      BY <1>3, <2>2
    <3> QED
      BY <2>1, <2>2, <3>1
  <2>3. CASE k = N + 1
    <3>1. c \in x /\ N \in 1 .. N
      BY <1>3, <2>3
    <3>2. CASE c \in v[N]
      <4>1. N <= k
        BY <1>3, <2>3
      <4> QED
        BY <2>1, <3>1, <3>2, <4>1
    <3>3. CASE \E t \in txs : \E i : c.op = <<Txid(t), i>>
      <4>1. PICK t \in txs : \E i : c.op = <<Txid(t), i>>
        BY <3>3
      <4>2. c.op[1] = Txid(t)
        BY <4>1
      <4>3. c.op[1][1] = t.ins
        BY <4>2 DEF Txid
      <4>4. t.ins # {} /\ t.ins \subseteq Ops(v[N])
        BY <1>2, <4>1 DEF Block
      <4>5. t.ins \cap Ops(x) = {}
        <5> SUFFICES ASSUME NEW d \in x, d.op \in t.ins PROVE FALSE
          BY DEF Ops
        <5>1. d.op \in Ops(v[N])
          BY <4>4
        <5> QED
          BY <1>4, <3>1, <4>1, <5>1
      <4>6. w[N] = v[N] /\ N \in 1 .. k - 1
        BY <1>3, <2>3, <3>1
      <4> QED
        BY <1>3, <4>3, <4>4, <4>5, <4>6
    <3> QED
      BY <1>4, <3>1, <3>2, <3>3
  <2> QED
    BY <1>3, <2>2, <2>3
<1> QED
  BY <1>5, <1>6

\* A coin of the faucet that a file lacks, of one it had, is not in a later file.
LEMMA GoneForGood ==
  ASSUME NEW v, IsViews(v), Continuous(v), NEW op, NEW i \in 1 .. Len(v), op \in Ops(v[i]),
         NEW j \in i .. Len(v), op \notin MyOps(v[j])
  PROVE  \A h \in j .. Len(v) : op \notin MyOps(v[h])
<1> SUFFICES ASSUME NEW h \in j .. Len(v), op \in MyOps(v[h]) PROVE FALSE
  OBVIOUS
<1>1. PICK d \in v[h] : d.op = op /\ d.script = Me
  BY DEF MyOps, Ops, FromState
<1>2. Len(v) \in Nat
  BY ViewsAre
<1>3. h \in 1 .. Len(v) /\ i \in 1 .. h /\ j \in i .. h
  BY <1>2
<1>4. d \in v[j]
  BY <1>1, <1>3 DEF Continuous
<1> QED
  BY <1>1, <1>4 DEF MyOps, Ops, FromState

-----------------------------------------------------------------------------
(* The steps and the coins. *)

\* What the producer takes spends coins of its last block.
LEMMA SubmitsIs ==
  ASSUME PoolSpends, IsViews(views), NEW tx, Submits(tx)
  PROVE  tx.ins # {} /\ tx.ins \subseteq Ops(views[Len(views)])
<1>1. Tip + 1 = Len(views)
  BY ViewsAre DEF Tip
<1>2. CASE tx \in pool
  BY <1>2 DEF PoolSpends
<1>3. CASE Ops(Spent(views[Tip + 1], tx)) = tx.ins /\ tx.ins # {}
  BY <1>1, <1>3 DEF Ops, Spent
<1> QED
  BY <1>2, <1>3 DEF Submits

LEMMA PoolThen ==
  ASSUME PoolSpends, IsViews(views), views' = views, NEW tx,
         pool' = pool \/ (Submits(tx) /\ pool' = pool \cup {tx})
  PROVE  PoolSpends'
<1>1. CASE pool' = pool
  BY <1>1 DEF PoolSpends
<1>2. CASE Submits(tx) /\ pool' = pool \cup {tx}
  <2>1. tx.ins # {} /\ tx.ins \subseteq Ops(views[Len(views)])
    BY <1>2, SubmitsIs
  <2> QED
    BY <1>2, <2>1 DEF PoolSpends
<1> QED
  BY <1>1, <1>2

\* A block is one: what it takes from the pool is there, and gone after.
LEMMA MineIs ==
  ASSUME PoolSpends, IsViews(views), Mine
  PROVE  \E x, txs : views' = Append(views, x) /\ Block(views, x, txs)
<1> DEFINE old == views[Tip + 1]
           txs == {t \in pool : CheckAssets(Spent(old, t), t)}
           stay == {c \in old : \A t \in txs : c.op \notin t.ins}
           new == UNION {NewCoins(old, t, Tip + 1) : t \in txs}
<1>1. views' = Append(views, stay \cup new)
  BY DEF Mine
<1>2. Tip + 1 = Len(views)
  BY ViewsAre DEF Tip
<1>3. \A t \in txs : t.ins # {} /\ t.ins \subseteq Ops(views[Len(views)])
  BY DEF PoolSpends
<1>4. \A d \in stay : d \in views[Len(views)] /\ \A t \in txs : d.op \notin t.ins
  BY <1>2
<1>5. ASSUME NEW d \in new PROVE \E t \in txs : \E i : d.op = <<Txid(t), i>>
  <2> HIDE DEF txs, old
  <2>1. PICK t \in txs : d \in NewCoins(old, t, Tip + 1)
    OBVIOUS
  <2>2. \E i : d.op = <<Txid(t), i>>
    BY <2>1 DEF NewCoins
  <2> QED
    BY <2>2
<1>6. Block(views, stay \cup new, txs)
  <2> HIDE DEF txs, stay, new
  <2> QED
    BY <1>3, <1>4, <1>5 DEF Block
<1> HIDE DEF txs, stay, new
<1> QED
  BY <1>1, <1>6

\* What is held back of what the file had.
LEMMA LookedHeld ==
  ASSUME FaucetBase, NEW op, NEW at \in Nat, NEW h \in faucet.file .. Tip,
         Continuous(views), \E k \in 1 .. faucet.file + 1 : op \in Ops(views[k]),
         HeldOr(op, at)
  PROVE  \/ \E x \in Held(h) : x[1] = op /\ x[2] >= at
         \/ \A i \in h + 1 .. Len(views) : op \notin MyOps(views[i])
         \/ clock - at >= Hold
<1>1. /\ IsViews(views) /\ Len(views) \in Nat \ {0} /\ clock \in Nat /\ faucet.file \in Nat
      /\ h \in Nat /\ faucet.file <= h /\ h + 1 <= Len(views) /\ Hold \in Nat
  BY TypesThen, ViewsAre, FaucetAssumption DEF Tip
<1>2. CASE \A i \in faucet.file + 1 .. Len(views) : op \notin MyOps(views[i])
  BY <1>1, <1>2
<1>3. ASSUME NEW x \in faucet.held, x[1] = op, x[2] >= at,
             x \notin Held(h)
      PROVE  \/ \A i \in h + 1 .. Len(views) : op \notin MyOps(views[i])
             \/ clock - at >= Hold
  <2>1. x[2] \in Nat /\ x[2] <= clock
    BY TypesThen, <1>3
  <2>2. ViewCoins(View(h), FaucetKey) = FromState(views[h + 1], Me)
    BY DEF ViewCoins, View, Me
  <2>3. op \notin MyOps(views[h + 1]) \/ ~(Since(clock, x[2]) < Hold)
    BY <1>3, <2>2 DEF Held, HeldBack, MyOps
  <2>4. CASE op \notin MyOps(views[h + 1])
    <3>1. PICK k \in 1 .. faucet.file + 1 : op \in Ops(views[k])
      OBVIOUS
    <3>2. k \in 1 .. Len(views) /\ h + 1 \in k .. Len(views)
      BY <1>1, <3>1
    <3> QED
      BY <1>1, <2>4, <3>1, <3>2, GoneForGood
  <2>5. CASE ~(Since(clock, x[2]) < Hold)
    <3>1. Since(clock, x[2]) = clock - x[2]
      BY <1>1, <2>1, SinceIs
    <3> QED
      BY <1>1, <1>3, <2>1, <2>5, <3>1
  <2> QED
    BY <2>3, <2>4, <2>5
<1> QED
  BY <1>2, <1>3 DEF HeldOr

\* What a step keeps of the coins, when the grants and the chain stay.
LEMMA QuietCoins ==
  ASSUME FaucetBase, FaucetBase', CoinsInv, views' = views, PoolSpends', Grants' = Grants, clock' >= clock,
         faucet'.life = faucet.life, faucet'.held = faucet.held, faucet'.file = faucet.file
  PROVE  CoinsInv'
<1>1. Continuous(views)' /\ Born(views)' /\ FromTheFile' /\ GrantsNeverConflict'
  BY DEF CoinsInv, Continuous, Born, FromTheFile, GrantsNeverConflict
<1>2. clock \in Nat /\ clock' \in Nat
  BY DEF FaucetBase, FaucetTypes
<1>3. HeldFast'
  <2> SUFFICES ASSUME NEW b \in Grants, b.ask.life = faucet.life, b.ask.state \in {"counted", "kept"},
                      NEW op \in b.tx.ins
               PROVE  HeldOr(op, b.ask.at)'
    BY DEF HeldFast
  <2>1. b.ask.at \in Nat /\ Hold \in Nat
    BY FaucetAssumption DEF FaucetBase, GrantTypes
  <2>2. HeldOr(op, b.ask.at)
    BY DEF CoinsInv, HeldFast
  <2> QED
    BY <1>2, <2>1, <2>2 DEF HeldOr
<1> QED
  BY <1>1, <1>3 DEF CoinsInv

LEMMA CrashCoins ==
  ASSUME FaucetBase, CoinsInv, Crash
  PROVE  CoinsInv'
<1>1. /\ faucet'.life = faucet.life + 1 /\ faucet'.file = faucet.file /\ UNCHANGED <<views, pool, clock, built>>
  BY CrashIs DEF Fields
<1>2. Grants' = Grants
  BY <1>1 DEF Grants
<1>3. \A b \in Grants : b.ask.life # faucet.life + 1
  BY TypesThen DEF FaucetBase, GrantTypes
<1>4. HeldFast'
  BY <1>1, <1>2, <1>3 DEF HeldFast
<1>5. Continuous(views)' /\ Born(views)' /\ PoolSpends' /\ FromTheFile' /\ GrantsNeverConflict'
  BY <1>1, <1>2 DEF CoinsInv, Continuous, Born, PoolSpends, FromTheFile, GrantsNeverConflict
<1> QED
  BY <1>4, <1>5 DEF CoinsInv

LEMMA MineCoins ==
  ASSUME FaucetBase, CoinsInv, Mine
  PROVE  CoinsInv'
<1>1. pool' = {} /\ UNCHANGED <<faucet, clock, built>>
  BY DEF Mine
<1>2. Grants' = Grants
  BY <1>1 DEF Grants
<1>3. IsViews(views) /\ Len(views) \in Nat \ {0} /\ faucet.file \in Nat /\ faucet.file < Len(views)
  BY TypesThen, ViewsAre
<1>4. PICK x, txs : views' = Append(views, x) /\ Block(views, x, txs)
  BY <1>3, MineIs DEF CoinsInv
<1>5. Continuous(views') /\ Born(views')
  BY <1>3, <1>4, BlockKeeps DEF CoinsInv
<1>6. IsViews(views') /\ Len(views') = Len(views) + 1 /\ \A i \in 1 .. Len(views) : views'[i] = views[i]
  <2>1. Grown(views', views, x)
    BY <1>3, <1>4, ViewsGrow
  <2> QED
    BY <2>1 DEF Grown
<1>7. PoolSpends' /\ GrantsNeverConflict'
  BY <1>1, <1>2 DEF CoinsInv, PoolSpends, GrantsNeverConflict
<1>8. FromTheFile'
  <2> SUFFICES ASSUME NEW b \in Grants, NEW op \in b.tx.ins
               PROVE  \E k \in 1 .. faucet.file + 1 : op \in Ops(views'[k])
    BY <1>1, <1>2 DEF FromTheFile
  <2>1. PICK k \in 1 .. faucet.file + 1 : op \in Ops(views[k])
    BY DEF CoinsInv, FromTheFile
  <2>2. views'[k] = views[k]
    BY <1>3, <1>6
  <2> QED
    BY <2>1, <2>2
<1>9. HeldFast'
  <2> SUFFICES ASSUME NEW b \in Grants, b.ask.life = faucet.life, b.ask.state \in {"counted", "kept"},
                      NEW op \in b.tx.ins
               PROVE  HeldOr(op, b.ask.at)'
    BY <1>1, <1>2 DEF HeldFast
  <2>1. HeldOr(op, b.ask.at)
    BY DEF CoinsInv, HeldFast
  <2>2. CASE \A h \in faucet.file + 1 .. Len(views) : op \notin MyOps(views[h])
    <3>1. PICK k \in 1 .. faucet.file + 1 : op \in Ops(views'[k])
      BY <1>1, <1>2, <1>8 DEF FromTheFile
    <3>2. faucet.file + 1 \in faucet.file + 1 .. Len(views) /\ faucet.file + 1 \in 1 .. Len(views)
      BY <1>3
    <3>3. op \notin MyOps(views'[faucet.file + 1])
      BY <1>6, <2>2, <3>2
    <3>4. k \in 1 .. Len(views') /\ faucet.file + 1 \in k .. Len(views')
      BY <1>3, <1>6, <3>1
    <3>5. \A h \in faucet.file + 1 .. Len(views') : op \notin MyOps(views'[h])
      BY <1>5, <1>6, <3>1, <3>3, <3>4, GoneForGood
    <3> QED
      BY <1>1, <3>5 DEF HeldOr
  <2> QED
    BY <1>1, <2>1, <2>2 DEF HeldOr
<1> QED
  BY <1>5, <1>7, <1>8, <1>9 DEF CoinsInv

\* A step that looks at the file, and grants or not.
LEMMA GrantCoins ==
  ASSUME FaucetBase, FaucetBase', CoinsInv, NEW r, Grant(r)
  PROVE  CoinsInv'
<1>1. faucet.phase = "idle" /\ UNCHANGED <<views, mined, pool, saved, clock>>
  BY TypesThen, GrantIs
<1>2. PICK to, h :
         /\ h \in faucet.file .. Tip
         /\ \/ Looks("idle", faucet.grant, h) /\ built' = built
            \/ \E g, b : Looks("post", g, h) /\ NewGrant(g, b, to, h)
  BY TypesThen, GrantIs
<1>3. faucet'.life = faucet.life /\ faucet'.file = h /\ faucet'.held = Held(h)
  BY <1>2 DEF Looks, Fields
<1>4. /\ IsViews(views) /\ Len(views) \in Nat \ {0} /\ clock \in Nat /\ faucet.file \in Nat
      /\ h \in Nat /\ faucet.file <= h /\ h + 1 <= Len(views) /\ Hold \in Nat
  BY <1>2, TypesThen, ViewsAre, FaucetAssumption DEF Tip
<1>5. Continuous(views)' /\ Born(views)' /\ PoolSpends'
  BY <1>1 DEF CoinsInv, Continuous, Born, PoolSpends
<1>6. ASSUME NEW b \in Grants, NEW op \in b.tx.ins
      PROVE  /\ \E k \in 1 .. faucet.file + 1 : op \in Ops(views[k])
             /\ \E k \in 1 .. h + 1 : op \in Ops(views[k])
  <2>1. PICK k \in 1 .. faucet.file + 1 : op \in Ops(views[k])
    BY DEF CoinsInv, FromTheFile
  <2>2. k \in 1 .. h + 1
    BY <1>4, <2>1
  <2> QED
    BY <2>1, <2>2
<1>7. ASSUME NEW b \in Grants, b.ask.life = faucet.life, b.ask.state \in {"counted", "kept"},
             NEW op \in b.tx.ins
      PROVE  /\ b.ask.at \in Nat
             /\ \/ \E x \in Held(h) : x[1] = op /\ x[2] >= b.ask.at
                \/ \A i \in h + 1 .. Len(views) : op \notin MyOps(views[i])
                \/ clock - b.ask.at >= Hold
  <2>1. HeldOr(op, b.ask.at)
    BY <1>7 DEF CoinsInv, HeldFast
  <2>2. b.ask.at \in Nat
    BY DEF FaucetBase, GrantTypes
  <2>3. PICK at : at = b.ask.at
    OBVIOUS
  <2>4. Continuous(views)
    BY DEF CoinsInv
  <2>5. \E k \in 1 .. faucet.file + 1 : op \in Ops(views[k])
    BY <1>6, <1>7
  <2>6. \/ \E x \in Held(h) : x[1] = op /\ x[2] >= at
        \/ \A i \in h + 1 .. Len(views) : op \notin MyOps(views[i])
        \/ clock - at >= Hold
    BY <1>2, <2>1, <2>2, <2>3, <2>4, <2>5, LookedHeld
  <2> QED
    BY <2>2, <2>3, <2>6
<1>8. ASSUME NEW b \in Grants, b.ask.life = faucet.life, b.ask.state \in {"counted", "kept"},
             NEW op \in b.tx.ins
      PROVE  HeldOr(op, b.ask.at)'
  BY <1>1, <1>3, <1>7, <1>8 DEF HeldOr
<1>9. CASE built' = built
  <2>1. Grants' = Grants
    BY <1>9 DEF Grants
  <2>2. HeldFast'
    BY <1>3, <1>8, <2>1 DEF HeldFast
  <2>3. FromTheFile'
    BY <1>1, <1>3, <1>6, <2>1 DEF FromTheFile
  <2>4. GrantsNeverConflict'
    BY <2>1 DEF CoinsInv, GrantsNeverConflict
  <2> QED
    BY <1>5, <2>2, <2>3, <2>4 DEF CoinsInv
<1>10. ASSUME NEW g, NEW b, NewGrant(g, b, to, h) PROVE CoinsInv'
  <2>1. /\ built' = built \cup {b} /\ b.tx \in BuildGrant(faucet.asset, Free(h), h, to)
        /\ b.ask.life = faucet.life /\ b.ask.at = clock /\ b.ask.n = Cardinality(built) /\ b.ask.state = "out"
    BY <1>10 DEF NewGrant
  <2>2. Grants' = Grants \cup {b}
    BY <2>1 DEF Grants
  <2>3. b.tx.ins \subseteq Ops(Free(h))
    BY <2>1, BuildGrantIn
  <2>4. ViewCoins(View(h), FaucetKey) = FromState(views[h + 1], Me)
    BY DEF ViewCoins, View, Me
  <2>5. ASSUME NEW op \in b.tx.ins
        PROVE  op \in MyOps(views[h + 1]) /\ op \in Ops(views[h + 1]) /\ \A x \in Held(h) : x[1] # op
    <3>1. PICK c \in Free(h) : c.op = op
      BY <2>3 DEF Ops
    <3>2. c \in FromState(views[h + 1], Me) /\ \A x \in Held(h) : x[1] # c.op
      BY <2>4, <3>1 DEF Free
    <3> QED
      BY <3>1, <3>2 DEF MyOps, Ops, FromState
  <2>6. HeldFast'
    BY <1>3, <1>8, <2>1, <2>2 DEF HeldFast
  <2>7. FromTheFile'
    <3>1. h + 1 \in 1 .. h + 1
      BY <1>4
    <3>2. \A op \in b.tx.ins : \E k \in 1 .. h + 1 : op \in Ops(views[k])
      BY <2>5, <3>1
    <3> QED
      BY <1>1, <1>3, <1>6, <2>2, <3>2 DEF FromTheFile
  <2>8. ASSUME NEW a \in Grants, a.ask.life = b.ask.life, a.tx.ins \cap b.tx.ins # {}
        PROVE  a.ask.state = "dropped" \/ b.ask.at - a.ask.at >= Hold
    <3> SUFFICES ASSUME a.ask.state # "dropped" PROVE clock - a.ask.at >= Hold
      BY <2>1
    <3>1. a.ask.state \in {"counted", "kept"} /\ a.ask.life = faucet.life
      BY <1>1, <2>1, <2>8 DEF FaucetBase, GrantTypes, Pending, InFlight
    <3>2. PICK op : op \in a.tx.ins /\ op \in b.tx.ins
      BY <2>8
    <3>3. op \in MyOps(views[h + 1]) /\ \A x \in Held(h) : x[1] # op
      BY <2>5, <3>2
    <3>4. h + 1 \in h + 1 .. Len(views)
      BY <1>4
    <3> QED
      BY <1>7, <3>1, <3>2, <3>3, <3>4
  <2>9. ASSUME NEW a \in Grants PROVE ~(b.ask.n < a.ask.n)
    <3>1. a.ask.n \in Nat /\ a.ask.n < Cardinality(built) /\ Cardinality(built) \in Nat
      BY TypesThen DEF FaucetBase, GrantTypes
    <3> QED
      BY <2>1, <3>1
  <2>10. ~(b.ask.n < b.ask.n)
    BY <2>1, TypesThen
  <2>11. GrantsNeverConflict'
    <3> SUFFICES ASSUME NEW a \in Grants \cup {b}, NEW d \in Grants \cup {b}, a.ask.n < d.ask.n,
                        a.ask.life = d.ask.life, a.tx.ins \cap d.tx.ins # {}
                 PROVE  a.ask.state = "dropped" \/ d.ask.at - a.ask.at >= Hold
      BY <2>2 DEF GrantsNeverConflict
    <3>1. CASE a \in Grants /\ d \in Grants
      BY <3>1 DEF CoinsInv, GrantsNeverConflict
    <3>2. CASE a = b
      BY <2>9, <2>10, <3>2
    <3>3. CASE a \in Grants /\ d = b
      BY <2>8, <3>3
    <3> QED
      BY <3>1, <3>2, <3>3
  <2> QED
    BY <1>5, <2>6, <2>7, <2>11 DEF CoinsInv
<1> QED
  BY <1>2, <1>9, <1>10

\* A step that settles grants: what is counted is held back.
LEMMA MovedCoins ==
  ASSUME FaucetBase, CoinsInv, views' = views, pool' = pool, clock' = clock, faucet'.life = faucet.life,
         faucet'.file = faucet.file,
         NEW from \in {"out", "counted"}, NEW to \in {"counted", "kept", "dropped"},
         from = "out" => to # "kept", from = "counted" => to = "kept",
         \A c \in Grants' : \E b \in Grants : Moves(c, b, from, to),
         HeldFast'
  PROVE  CoinsInv'
<1>1. Continuous(views)' /\ Born(views)' /\ PoolSpends'
  BY DEF CoinsInv, Continuous, Born, PoolSpends
<1>2. FromTheFile'
  BY DEF CoinsInv, FromTheFile, Moves, SameGrant
<1>3. GrantsNeverConflict'
  <2> SUFFICES ASSUME NEW c \in Grants', NEW d \in Grants', c.ask.n < d.ask.n,
                      c.ask.life = d.ask.life, c.tx.ins \cap d.tx.ins # {}
               PROVE  c.ask.state = "dropped" \/ d.ask.at - c.ask.at >= Hold
    BY DEF GrantsNeverConflict
  <2>1. PICK a \in Grants : Moves(c, a, from, to)
    OBVIOUS
  <2>2. PICK b \in Grants : Moves(d, b, from, to)
    OBVIOUS
  <2>3. a.ask.state = "dropped" \/ b.ask.at - a.ask.at >= Hold
    BY <2>1, <2>2 DEF CoinsInv, GrantsNeverConflict, Moves, SameGrant
  <2> QED
    BY <2>1, <2>2, <2>3 DEF Moves, SameGrant
<1> QED
  BY <1>1, <1>2, <1>3 DEF CoinsInv

LEMMA PublishGrantCoins ==
  ASSUME FaucetBase, FaucetBase', CoinsInv, PublishGrant
  PROVE  CoinsInv'
<1>1. faucet.phase = "publish" /\ UNCHANGED <<views, mined, pool, saved, clock>>
  BY TypesThen, PublishGrantIs
<1>2. InFlight
  BY <1>1 DEF InFlight
<1>3. PICK g : g = faucet.grant
  OBVIOUS
<1>4. CASE /\ Fields(faucet', AfterPaying(faucet.grant), NoGrant, faucet.file, HeldWith(faucet.held, faucet.grant),
                     PaidWith(faucet.paid, faucet.grant), Append(faucet.recent, faucet.grant.at), faucet.life)
           /\ built' = Moved("out", "counted")
  <2>1. /\ ~InFlight' /\ faucet'.life = faucet.life /\ FaucetTypes' /\ faucet'.file = faucet.file
        /\ faucet'.held = HeldWith(faucet.held, g)
    BY <1>3, <1>4 DEF Fields, AfterPaying, InFlight, FaucetBase
  <2>2. \A c \in Grants' : \E b \in Grants : Moves(c, b, "out", "counted")
    BY <1>1, <1>4, <2>1, MovedBase
  <2>3. HeldFast'
    <3> SUFFICES ASSUME NEW c \in Grants', c.ask.life = faucet.life, c.ask.state \in {"counted", "kept"},
                        NEW op \in c.tx.ins
                 PROVE  HeldOr(op, c.ask.at)'
      BY <2>1 DEF HeldFast
    <3>1. PICK b \in Grants : Moves(c, b, "out", "counted")
      BY <2>2
    <3>2. c.tx = b.tx /\ c.ask.at = b.ask.at /\ b.ask.life = faucet.life
      BY <3>1 DEF Moves, SameGrant
    <3>3. b.ask.at <= g.at /\ g.at \in Nat /\ b.ask.at \in Nat
      BY <1>2, <1>3 DEF FaucetBase, Pending, GrantTypes
    <3>4. CASE op \in g.tx.ins
      <4>1. <<op, g.at>> \in faucet'.held
        BY <2>1, <3>4 DEF HeldWith
      <4>2. <<op, g.at>>[1] = op /\ <<op, g.at>>[2] >= c.ask.at
        BY <3>2, <3>3
      <4> QED
        BY <4>1, <4>2 DEF HeldOr
    <3>5. CASE op \notin g.tx.ins
      <4>1. b.ask.state # "out"
        BY <1>3, <3>2, <3>5 DEF FaucetBase, Pending
      <4>2. b.ask.state \in {"counted", "kept"}
        BY <3>1, <4>1 DEF Moves
      <4>3. HeldOr(op, c.ask.at)
        BY <3>2, <4>2 DEF CoinsInv, HeldFast
      <4>4. \A x \in faucet.held : x[1] = op => x \in faucet'.held
        BY <2>1, <3>5 DEF HeldWith
      <4> QED
        BY <1>1, <2>1, <4>3, <4>4 DEF HeldOr
    <3> QED
      BY <3>4, <3>5
  <2> QED
    BY <1>1, <2>1, <2>2, <2>3, MovedCoins
<1>5. CASE /\ Fields(faucet', "idle", NoGrant, faucet.file, faucet.held, faucet.paid, faucet.recent, faucet.life)
           /\ built' = Moved("out", "dropped")
  <2>1. /\ ~InFlight' /\ faucet'.life = faucet.life /\ FaucetTypes' /\ faucet'.file = faucet.file
        /\ faucet'.held = faucet.held
    BY <1>5 DEF Fields, InFlight, FaucetBase
  <2>2. \A c \in Grants' : \E b \in Grants : Moves(c, b, "out", "dropped")
    BY <1>1, <1>5, <2>1, MovedBase
  <2>3. HeldFast'
    <3> SUFFICES ASSUME NEW c \in Grants', c.ask.life = faucet.life, c.ask.state \in {"counted", "kept"},
                        NEW op \in c.tx.ins
                 PROVE  HeldOr(op, c.ask.at)'
      BY <2>1 DEF HeldFast
    <3>1. PICK b \in Grants : Moves(c, b, "out", "dropped")
      BY <2>2
    <3>2. HeldOr(op, c.ask.at)
      BY <3>1 DEF CoinsInv, HeldFast, Moves, SameGrant
    <3> QED
      BY <1>1, <2>1, <3>2 DEF HeldOr
  <2> QED
    BY <1>1, <2>1, <2>2, <2>3, MovedCoins
<1> QED
  BY <1>4, <1>5, TypesThen, PublishGrantIs

LEMMA SaveCoins ==
  ASSUME FaucetBase, FaucetBase', CoinsInv, Save
  PROVE  CoinsInv'
<1>1. /\ faucet.phase = "save" /\ UNCHANGED <<views, mined, pool, clock>>
      /\ Fields(faucet', "idle", faucet.grant, faucet.file, faucet.held, faucet.paid, faucet.recent, faucet.life)
  BY TypesThen, SaveIs
<1>2. /\ ~InFlight /\ ~InFlight' /\ faucet'.life = faucet.life /\ faucet'.file = faucet.file
      /\ faucet'.held = faucet.held /\ FaucetTypes'
  BY <1>1 DEF Fields, InFlight, FaucetBase
<1>3. CASE built' = Moved("counted", "kept")
  <2>1. \A c \in Grants' : \E b \in Grants : Moves(c, b, "counted", "kept")
    BY <1>1, <1>2, <1>3, MovedBase
  <2>2. HeldFast'
    <3> SUFFICES ASSUME NEW c \in Grants', c.ask.life = faucet.life, c.ask.state \in {"counted", "kept"},
                        NEW op \in c.tx.ins
                 PROVE  HeldOr(op, c.ask.at)'
      BY <1>2 DEF HeldFast
    <3>1. PICK b \in Grants : Moves(c, b, "counted", "kept")
      BY <2>1
    <3>2. HeldOr(op, c.ask.at)
      BY <3>1 DEF CoinsInv, HeldFast, Moves, SameGrant
    <3> QED
      BY <1>1, <1>2, <3>2 DEF HeldOr
  <2> QED
    BY <1>1, <1>2, <2>1, <2>2, MovedCoins
<1>4. CASE built' = built
  <2>1. Grants' = Grants /\ clock' >= clock /\ PoolSpends'
    BY <1>1, <1>4, TypesThen DEF Grants, CoinsInv, PoolSpends
  <2> QED
    BY <1>1, <1>2, <2>1, QuietCoins
<1> QED
  BY <1>3, <1>4, TypesThen, SaveIs

LEMMA CoinsNext ==
  ASSUME FaucetBase, FaucetBase', CoinsInv, [FaucetNext]_faucetVars
  PROVE  CoinsInv'
<1>1. IsFaucet(faucet) /\ IsViews(views) /\ clock \in Nat /\ PoolSpends
  BY TypesThen DEF CoinsInv
<1>2. ASSUME NEW r, Ignore(r) PROVE CoinsInv'
  <2>1. /\ UNCHANGED <<views, pool, clock, built>> /\ faucet'.life = faucet.life
        /\ faucet'.held = faucet.held /\ faucet'.file = faucet.file
    BY <1>1, <1>2, IgnoreIs DEF Fields
  <2>2. PoolSpends' /\ Grants' = Grants /\ clock' >= clock
    BY <1>1, <2>1 DEF PoolSpends, Grants
  <2> QED
    BY <2>1, <2>2, QuietCoins
<1>3. ASSUME NEW r, Skip(r) PROVE CoinsInv'
  <2>1. /\ UNCHANGED <<views, pool, clock, built>> /\ faucet'.life = faucet.life
        /\ faucet'.held = faucet.held /\ faucet'.file = faucet.file
    BY <1>1, <1>3, SkipIs DEF Fields
  <2>2. PoolSpends' /\ Grants' = Grants /\ clock' >= clock
    BY <1>1, <2>1 DEF PoolSpends, Grants
  <2> QED
    BY <2>1, <2>2, QuietCoins
<1>4. CASE PostGrant
  <2>1. /\ UNCHANGED <<views, clock, built>> /\ faucet'.life = faucet.life
        /\ faucet'.held = faucet.held /\ faucet'.file = faucet.file
        /\ pool' = pool \/ (Submits(faucet.grant.tx) /\ pool' = pool \cup {faucet.grant.tx})
    BY <1>1, <1>4, PostGrantIs DEF Fields
  <2>2. PoolSpends'
    BY <1>1, <2>1, PoolThen
  <2>3. Grants' = Grants /\ clock' >= clock
    BY <1>1, <2>1 DEF Grants
  <2> QED
    BY <2>1, <2>2, <2>3, QuietCoins
<1>5. CASE Tick
  <2>1. UNCHANGED <<views, pool, faucet, built>> /\ clock' = clock + 1
    BY <1>5 DEF Tick
  <2>2. PoolSpends' /\ Grants' = Grants /\ clock' >= clock
    BY <1>1, <2>1 DEF PoolSpends, Grants
  <2> QED
    BY <2>1, <2>2, QuietCoins
<1>6. CASE TakeFromRelay
  <2>1. UNCHANGED <<views, faucet, clock, built>>
    BY <1>6 DEF TakeFromRelay
  <2>2. PICK tx : pool' = pool \/ (Submits(tx) /\ pool' = pool \cup {tx})
    BY <1>6 DEF TakeFromRelay
  <2>3. PoolSpends'
    BY <1>1, <2>1, <2>2, PoolThen
  <2>4. Grants' = Grants /\ clock' >= clock
    BY <1>1, <2>1 DEF Grants
  <2> QED
    BY <2>1, <2>3, <2>4, QuietCoins
<1>7. ASSUME NEW c, Command(c) PROVE CoinsInv'
  <2>1. UNCHANGED <<views, faucet, clock>> /\ Grants' = Grants
    BY <1>7, CommandBase DEF Command
  <2>2. PICK tx : pool' = pool \/ (Submits(tx) /\ pool' = pool \cup {tx})
    BY <1>7 DEF Command
  <2>3. PoolSpends' /\ clock' >= clock
    BY <1>1, <2>1, <2>2, PoolThen
  <2> QED
    BY <2>1, <2>3, QuietCoins
<1>8. CASE UNCHANGED faucetVars
  <2>1. UNCHANGED <<views, pool, faucet, clock, built>>
    BY <1>8 DEF faucetVars
  <2>2. PoolSpends' /\ Grants' = Grants /\ clock' >= clock
    BY <1>1, <2>1 DEF PoolSpends, Grants
  <2> QED
    BY <2>1, <2>2, QuietCoins
<1> QED
  BY <1>2, <1>3, <1>4, <1>5, <1>6, <1>7, <1>8, GrantCoins, PublishGrantCoins, SaveCoins, CrashCoins, MineCoins
     DEF FaucetNext

LEMMA CoinsInit ==
  ASSUME FaucetInit, FaucetBase
  PROVE  CoinsInv
<1>1. views = <<GenesisCoins>> /\ pool = {} /\ Grants = {}
  BY DEF FaucetInit, Grants
<1>2. Len(views) = 1 /\ views[1] = GenesisCoins /\ 1 .. 1 = {1}
  BY <1>1
<1>3. Born(views)
  BY <1>2, GenesisAssumption DEF Born
<1>4. Continuous(views)
  <2> SUFFICES ASSUME NEW m \in 1 .. 1, NEW d \in views[m], NEW i \in 1 .. m, NEW l \in i .. m PROVE d \in views[l]
    BY <1>2 DEF Continuous
  <2>1. l = m
    OBVIOUS
  <2> QED
    BY <2>1
<1>5. PoolSpends /\ FromTheFile /\ HeldFast /\ GrantsNeverConflict
  BY <1>1 DEF PoolSpends, FromTheFile, HeldFast, GrantsNeverConflict
<1> QED
  BY <1>3, <1>4, <1>5 DEF CoinsInv

-----------------------------------------------------------------------------
(* The theorems. *)

\* The faucet of faucet.rs always keeps to its shape: the file it read is one the chain has had,
\* no time it remembers is ahead of the clock, grants are told apart by their number, and one
\* that is neither posted and published to the end nor given up is the one it is at.
THEOREM FaucetBaseHolds == FaucetSpec => []FaucetBase
<1>1. FaucetInit => FaucetBase
  BY FaucetBaseInit
<1>2. FaucetBase /\ [FaucetNext]_faucetVars => FaucetBase'
  BY FaucetBaseNext
<1> QED
  BY <1>1, <1>2, PTL DEF FaucetSpec

\* faucet.rs 8-10: whatever is asked, lost, crashed or saved in whatever order, one grant per
\* destination script per window and at most per_hour an hour, over restarts too.
THEOREM GrantsRespectLimitsHolds == FaucetSpec => []GrantsRespectLimits
<1>1. FaucetInit => FaucetBase /\ LimitsInv
  BY FaucetBaseInit, LimitsInit
<1>2. FaucetBase /\ LimitsInv /\ [FaucetNext]_faucetVars => (FaucetBase /\ LimitsInv)'
  BY FaucetBaseNext, LimitsNext
<1>3. FaucetBase /\ LimitsInv => GrantsRespectLimits
  BY LimitsHold
<1> QED
  BY <1>1, <1>2, <1>3, PTL DEF FaucetSpec

\* faucet.rs 4-8: however far behind the file it reads is, a grant does not spend the coins of an
\* earlier one of the same process that was taken, unless their hold is over.
THEOREM GrantsNeverConflictHolds == FaucetSpec => []GrantsNeverConflict
<1>1. FaucetInit => FaucetBase /\ CoinsInv
  BY FaucetBaseInit, CoinsInit
<1>2. FaucetBase /\ CoinsInv /\ [FaucetNext]_faucetVars => (FaucetBase /\ CoinsInv)'
  BY FaucetBaseNext, CoinsNext
<1>3. FaucetBase /\ CoinsInv => GrantsNeverConflict
  BY DEF CoinsInv
<1> QED
  BY <1>1, <1>2, <1>3, PTL DEF FaucetSpec
=============================================================================
