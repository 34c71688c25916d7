---------------------------- MODULE BooksProofs -----------------------------
(***************************************************************************)
(* What the market keeps beside the rows, proved equal to the rows: the    *)
(* open interest, the vault's reservation and the mark aggregates follow   *)
(* the open positions.                                                     *)
(*                                                                         *)
(* Each of the sums runs over a selection of the open positions (all, one  *)
(* direction, one direction of one asset).  A transaction changes one row  *)
(* at a time; a selection that agrees before and after on the other rows   *)
(* moves by what that row adds (RowMoved), whether the row appears, goes   *)
(* or changes its size.                                                    *)
(***************************************************************************)
EXTENDS MarketProofs

(* The part of a total that a selection of its indexes makes up. *)
Part(f, S) == Total([i \in S |-> f[i]])

(* One index aside. *)
LEMMA PartSplit ==
  ASSUME NEW S, IsFiniteSet(S), NEW f, \A i \in S : f[i] \in Nat, NEW id
  PROVE  /\ Part(f, S) \in Nat /\ Part(f, S \ {id}) \in Nat
         /\ Part(f, S) = Part(f, S \ {id}) + (IF id \in S THEN f[id] ELSE 0)
<1> DEFINE h == [i \in S |-> f[i]]
           k == [i \in S \ {id} |-> f[i]]
<1>1. h \in [S -> Nat] /\ k \in [S \ {id} -> Nat]
  OBVIOUS
<1>2. IsFiniteSet(S \ {id})
  BY FS_Subset
<1>3. Total(h) \in Nat /\ Total(k) \in Nat
  BY <1>1, <1>2, TotalType
<1>4. CASE id \in S
  <2>1. Total([y \in S \ {id} |-> h[y]]) = Total(h) - h[id]
    BY <1>1, <1>4, TotalRemove
  <2>2. [y \in S \ {id} |-> h[y]] = k
    OBVIOUS
  <2>3. h[id] = f[id] /\ f[id] \in Nat
    BY <1>4
  <2> HIDE DEF h, k
  <2>4. Total(h) = Total(k) + f[id]
    BY <1>3, <2>1, <2>2, <2>3
  <2> QED
    BY <1>3, <1>4, <2>4 DEF Part, h, k
<1>5. CASE id \notin S
  <2>1. S \ {id} = S
    BY <1>5
  <2>2. h = k
    BY <2>1
  <2> QED
    BY <1>3, <1>5, <2>2 DEF Part
<1> QED
  BY <1>4, <1>5

(* Two functions and two selections that agree but for one index. *)
LEMMA PartMoved ==
  ASSUME NEW S, IsFiniteSet(S), NEW T, IsFiniteSet(T),
         NEW f, \A i \in S : f[i] \in Nat, NEW g, \A i \in T : g[i] \in Nat,
         NEW id, S \ {id} = T \ {id}, \A i \in S \ {id} : g[i] = f[i]
  PROVE  /\ Part(f, S) \in Nat /\ Part(g, T) \in Nat
         /\ Part(g, T) = Part(f, S) - (IF id \in S THEN f[id] ELSE 0)
                                    + (IF id \in T THEN g[id] ELSE 0)
<1>1. /\ Part(f, S) \in Nat /\ Part(f, S \ {id}) \in Nat
      /\ Part(f, S) = Part(f, S \ {id}) + (IF id \in S THEN f[id] ELSE 0)
  BY PartSplit
<1>2. /\ Part(g, T) \in Nat
      /\ Part(g, T) = Part(g, T \ {id}) + (IF id \in T THEN g[id] ELSE 0)
  BY PartSplit
<1>3. Part(g, T \ {id}) = Part(f, S \ {id})
  <2>1. [i \in T \ {id} |-> g[i]] = [i \in S \ {id} |-> f[i]]
    OBVIOUS
  <2> QED
    BY <2>1 DEF Part
<1> QED
  BY <1>1, <1>2, <1>3

-----------------------------------------------------------------------------
(* The row of one id may differ between two market records. *)
RowMoved(n, q, id) ==
  /\ DOMAIN q.positions \ {id} = DOMAIN n.positions \ {id}
  /\ \A i \in DOMAIN n.positions \ {id} :
       /\ q.positions[i].size = n.positions[i].size
       /\ q.positions[i].entry = n.positions[i].entry
       /\ q.positions[i].asset = n.positions[i].asset
       /\ q.positions[i].dir = n.positions[i].dir

SizeAt(n, i) == n.positions[i].size
KAt(n, i) == KDelta(n.positions[i].size, n.positions[i].entry)

Sizes(n) == [i \in DOMAIN n.positions |-> SizeAt(n, i)]
Ks(n) == [i \in DOMAIN n.positions |-> KAt(n, i)]

LEMMA RowWeights ==
  ASSUME NEW n, PositionsOK(n), NEW S \in SUBSET DOMAIN n.positions
  PROVE  /\ IsFiniteSet(S)
         /\ \A i \in S : Sizes(n)[i] \in Nat /\ Ks(n)[i] \in Nat
         /\ SizeOf(n, S) = Part(Sizes(n), S) /\ KOf(n, S) = Part(Ks(n), S)
<1>1. IsFiniteSet(S)
  BY PositionsFinite, FS_Subset
<1>2. \A i \in S : n.positions[i].size \in Nat /\ n.positions[i].entry \in Nat \ {0}
  BY DEF PositionsOK, RowOK, PositionOK
<1>3. \A i \in S : KAt(n, i) \in Nat
  BY <1>2, KDeltaType DEF KAt
<1>4. /\ \A i \in S : Sizes(n)[i] = SizeAt(n, i)
      /\ \A i \in S : Ks(n)[i] = KAt(n, i)
  BY DEF Sizes, Ks
<1>5. [i \in S |-> n.positions[i].size] = [i \in S |-> Sizes(n)[i]]
  BY <1>4 DEF SizeAt
<1>6. [i \in S |-> KDelta(n.positions[i].size, n.positions[i].entry)] = [i \in S |-> Ks(n)[i]]
  BY <1>4 DEF KAt
<1> QED
  BY <1>1, <1>2, <1>3, <1>4, <1>5, <1>6 DEF SizeAt, SizeOf, KOf, Part

(* What a selection's sums do when one row moves. *)
LEMMA SumsMoved ==
  ASSUME NEW n, PositionsOK(n), NEW q, PositionsOK(q), NEW id, RowMoved(n, q, id),
         NEW S \in SUBSET DOMAIN n.positions, NEW T \in SUBSET DOMAIN q.positions,
         S \ {id} = T \ {id}
  PROVE  /\ SizeOf(n, S) \in Nat /\ SizeOf(q, T) \in Nat
         /\ SizeOf(q, T) = SizeOf(n, S) - (IF id \in S THEN SizeAt(n, id) ELSE 0)
                                        + (IF id \in T THEN SizeAt(q, id) ELSE 0)
         /\ KOf(n, S) \in Nat /\ KOf(q, T) \in Nat
         /\ KOf(q, T) = KOf(n, S) - (IF id \in S THEN KAt(n, id) ELSE 0)
                                  + (IF id \in T THEN KAt(q, id) ELSE 0)
<1>1. /\ IsFiniteSet(S) /\ \A i \in S : Sizes(n)[i] \in Nat /\ Ks(n)[i] \in Nat
      /\ SizeOf(n, S) = Part(Sizes(n), S) /\ KOf(n, S) = Part(Ks(n), S)
  BY RowWeights
<1>2. /\ IsFiniteSet(T) /\ \A i \in T : Sizes(q)[i] \in Nat /\ Ks(q)[i] \in Nat
      /\ SizeOf(q, T) = Part(Sizes(q), T) /\ KOf(q, T) = Part(Ks(q), T)
  BY RowWeights
<1>3. \A i \in S \ {id} : i \in DOMAIN q.positions /\ i \in DOMAIN n.positions
  BY DEF RowMoved
<1>4. \A i \in S \ {id} : Sizes(q)[i] = Sizes(n)[i]
  BY <1>3 DEF RowMoved, Sizes, SizeAt
<1>5. \A i \in S \ {id} : Ks(q)[i] = Ks(n)[i]
  BY <1>3 DEF RowMoved, Ks, KAt
<1>6. /\ id \in S => Sizes(n)[id] = SizeAt(n, id) /\ Ks(n)[id] = KAt(n, id)
      /\ id \in T => Sizes(q)[id] = SizeAt(q, id) /\ Ks(q)[id] = KAt(q, id)
  BY DEF Sizes, Ks
<1> DEFINE f == Sizes(n)
           g == Sizes(q)
           h == Ks(n)
           k == Ks(q)
<1> HIDE DEF f, g, h, k
<1>7. /\ Part(f, S) \in Nat /\ Part(g, T) \in Nat
      /\ Part(g, T) = Part(f, S) - (IF id \in S THEN f[id] ELSE 0)
                                 + (IF id \in T THEN g[id] ELSE 0)
  <2>1. /\ \A i \in S : f[i] \in Nat
        /\ \A i \in T : g[i] \in Nat
        /\ \A i \in S \ {id} : g[i] = f[i]
    BY <1>1, <1>2, <1>4 DEF f, g
  <2> QED
    BY <1>1, <1>2, <2>1, PartMoved
<1>8. /\ Part(h, S) \in Nat /\ Part(k, T) \in Nat
      /\ Part(k, T) = Part(h, S) - (IF id \in S THEN h[id] ELSE 0)
                                 + (IF id \in T THEN k[id] ELSE 0)
  <2>1. /\ \A i \in S : h[i] \in Nat
        /\ \A i \in T : k[i] \in Nat
        /\ \A i \in S \ {id} : k[i] = h[i]
    BY <1>1, <1>2, <1>5 DEF h, k
  <2> QED
    BY <1>1, <1>2, <2>1, PartMoved
<1> QED
  BY <1>1, <1>2, <1>6, <1>7, <1>8 DEF f, g, h, k

-----------------------------------------------------------------------------
(* One row loses `gone` of its size, and goes with the last of it. *)
RowLoses(n, q, id, gone) ==
  /\ id \in DOMAIN n.positions
  /\ gone \in Nat /\ gone <= SizeAt(n, id)
  /\ RowMoved(n, q, id)
  /\ id \in DOMAIN q.positions <=> gone < SizeAt(n, id)
  /\ id \in DOMAIN q.positions =>
       /\ q.positions[id].size = SizeAt(n, id) - gone
       /\ q.positions[id].entry = n.positions[id].entry
       /\ q.positions[id].asset = n.positions[id].asset
       /\ q.positions[id].dir = n.positions[id].dir

(* A row that was not there is there. *)
RowGained(n, q, id) ==
  /\ id \notin DOMAIN n.positions /\ id \in DOMAIN q.positions
  /\ RowMoved(n, q, id)

(* Rounded down, two parts weigh at most what the whole weighs. *)
LEMMA KDeltaSplit ==
  ASSUME NEW a \in Nat, NEW b \in Nat, NEW entry \in Nat \ {0}
  PROVE  KDelta(a, entry) + KDelta(b, entry) <= KDelta(a + b, entry)
<1> DEFINE x == KDelta(a, entry)
           y == KDelta(b, entry)
           z == KDelta(a + b, entry)
           A == a * PRECISION
           B == b * PRECISION
           C == (a + b) * PRECISION
<1>1. A \in Nat /\ B \in Nat /\ C \in Nat /\ C = A + B
  BY Scales
<1>2. x = A \div entry /\ y = B \div entry /\ z = C \div entry
  BY DEF KDelta
<1> HIDE DEF x, y, z, A, B, C
<1>3. /\ x \in Nat /\ entry * x <= A
      /\ y \in Nat /\ entry * y <= B
  BY <1>1, <1>2, DivBound
<1>4. z \in Nat /\ C < entry * (z + 1)
  BY <1>1, <1>2
<1>5. entry * (x + y) < entry * (z + 1)
  BY <1>1, <1>3, <1>4
<1>6. x + y < z + 1
  BY <1>3, <1>4, <1>5
<1> QED
  BY <1>3, <1>4, <1>6 DEF x, y, z

LEMMA SumsLose ==
  ASSUME NEW n, PositionsOK(n), NEW q, PositionsOK(q), NEW id, NEW gone,
         RowLoses(n, q, id, gone),
         NEW S \in SUBSET DOMAIN n.positions, NEW T \in SUBSET DOMAIN q.positions,
         S \ {id} = T \ {id}, id \in T <=> (id \in S /\ id \in DOMAIN q.positions)
  PROVE  /\ SizeOf(n, S) \in Nat /\ SizeOf(q, T) \in Nat
         /\ SizeOf(q, T) = SizeOf(n, S) - (IF id \in S THEN gone ELSE 0)
         /\ KOf(n, S) \in Nat /\ KOf(q, T) \in Nat
         /\ KOf(q, T) + (IF id \in S THEN KDelta(gone, n.positions[id].entry) ELSE 0)
              <= KOf(n, S)
<1> DEFINE entry == n.positions[id].entry
           was == SizeAt(n, id)
<1>1. was \in Nat /\ entry \in Nat \ {0} /\ gone \in Nat /\ gone <= was
  BY DEF RowLoses, PositionsOK, RowOK, PositionOK, SizeAt
<1>2. RowMoved(n, q, id)
  BY DEF RowLoses
<1>3. /\ SizeOf(n, S) \in Nat /\ SizeOf(q, T) \in Nat
      /\ SizeOf(q, T) = SizeOf(n, S) - (IF id \in S THEN SizeAt(n, id) ELSE 0)
                                     + (IF id \in T THEN SizeAt(q, id) ELSE 0)
      /\ KOf(n, S) \in Nat /\ KOf(q, T) \in Nat
      /\ KOf(q, T) = KOf(n, S) - (IF id \in S THEN KAt(n, id) ELSE 0)
                               + (IF id \in T THEN KAt(q, id) ELSE 0)
  BY <1>2, SumsMoved
<1>4. CASE id \notin S
  <2>1. id \notin T
    BY <1>4
  <2> QED
    BY <1>3, <1>4, <2>1
<1>5. CASE id \in S /\ id \notin T
  <2>1. gone = was
    BY <1>1, <1>5 DEF RowLoses, SizeAt
  <2>2. KAt(n, id) = KDelta(gone, entry) /\ KDelta(gone, entry) \in Nat
    BY <1>1, <2>1, KDeltaType DEF KAt, SizeAt
  <2> HIDE DEF entry
  <2>3. KOf(q, T) + KDelta(gone, entry) <= KOf(n, S)
    BY <1>3, <1>5, <2>2
  <2>4. SizeOf(q, T) = SizeOf(n, S) - gone
    BY <1>1, <1>3, <1>5, <2>1
  <2> QED
    BY <1>3, <1>5, <2>3, <2>4 DEF entry
<1>6. CASE id \in S /\ id \in T
  <2>1. SizeAt(q, id) = was - gone /\ q.positions[id].entry = entry
    BY <1>6 DEF RowLoses, SizeAt
  <2>2. KDelta(gone, entry) + KDelta(was - gone, entry) <= KDelta(was, entry)
    <3>1. was - gone \in Nat /\ gone + (was - gone) = was
      BY <1>1
    <3> QED
      BY <1>1, <3>1, KDeltaSplit
  <2>3. KAt(q, id) = KDelta(was - gone, entry) /\ KAt(n, id) = KDelta(was, entry)
    BY <2>1 DEF KAt, SizeAt
  <2>4. /\ KDelta(gone, entry) \in Nat /\ KDelta(was - gone, entry) \in Nat
        /\ KDelta(was, entry) \in Nat
    BY <1>1, KDeltaType
  <2> HIDE DEF entry, was
  <2>5. KOf(q, T) + KDelta(gone, entry) <= KOf(n, S)
    BY <1>3, <1>6, <2>2, <2>3, <2>4
  <2>6. SizeOf(q, T) = SizeOf(n, S) - gone
    BY <1>1, <1>3, <1>6, <2>1 DEF was
  <2> QED
    BY <1>3, <1>6, <2>5, <2>6 DEF entry
<1> QED
  BY <1>4, <1>5, <1>6

LEMMA SumsGain ==
  ASSUME NEW n, PositionsOK(n), NEW q, PositionsOK(q), NEW id, RowGained(n, q, id),
         NEW S \in SUBSET DOMAIN n.positions, NEW T \in SUBSET DOMAIN q.positions,
         S \ {id} = T \ {id}
  PROVE  /\ SizeOf(n, S) \in Nat /\ SizeOf(q, T) \in Nat
         /\ SizeOf(q, T) = SizeOf(n, S) + (IF id \in T THEN SizeAt(q, id) ELSE 0)
         /\ KOf(n, S) \in Nat /\ KOf(q, T) \in Nat
         /\ KOf(q, T) = KOf(n, S) + (IF id \in T THEN KAt(q, id) ELSE 0)
<1>1. RowMoved(n, q, id) /\ id \notin S
  BY DEF RowGained
<1>2. /\ SizeOf(n, S) \in Nat /\ SizeOf(q, T) \in Nat
      /\ SizeOf(q, T) = SizeOf(n, S) - (IF id \in S THEN SizeAt(n, id) ELSE 0)
                                     + (IF id \in T THEN SizeAt(q, id) ELSE 0)
      /\ KOf(n, S) \in Nat /\ KOf(q, T) \in Nat
      /\ KOf(q, T) = KOf(n, S) - (IF id \in S THEN KAt(n, id) ELSE 0)
                               + (IF id \in T THEN KAt(q, id) ELSE 0)
  BY <1>1, SumsMoved
<1>3. id \in T => SizeAt(q, id) \in Nat /\ KAt(q, id) \in Nat
  <2>1. id \in T => q.positions[id].size \in Nat /\ q.positions[id].entry \in Nat \ {0}
    BY DEF PositionsOK, RowOK, PositionOK
  <2> QED
    BY <2>1, KDeltaType DEF SizeAt, KAt
<1> QED
  BY <1>1, <1>2, <1>3

-----------------------------------------------------------------------------
(* The books against the rows. *)

Way(n, dir) == {i \in DOMAIN n.positions : n.positions[i].dir = dir}

(* BooksFollowPositions of any market record. *)
Books(n) ==
  /\ n.pool.reserved_payout = SizeOf(n, DOMAIN n.positions)
  /\ n.total_long = SizeOf(n, Way(n, "Long"))
  /\ n.total_short = SizeOf(n, Way(n, "Short"))
  /\ \A a \in Assets : /\ n.exposure[a].ls = SizeOf(n, Side(n, a, "Long"))
                       /\ n.exposure[a].ss = SizeOf(n, Side(n, a, "Short"))
  /\ \A a \in Assets : /\ n.exposure[a].lk >= KOf(n, Side(n, a, "Long"))
                       /\ n.exposure[a].sk >= KOf(n, Side(n, a, "Short"))

(* What stands in the books, apart from the rows. *)
AccountsKept(n, q) ==
  /\ q.pool.reserved_payout = n.pool.reserved_payout
  /\ q.total_long = n.total_long /\ q.total_short = n.total_short
  /\ q.exposure = n.exposure

AccountsShrunk(n, q, a, dir, size, entry) ==
  /\ q.pool.reserved_payout = Floor0(n.pool.reserved_payout - size)
  /\ q.total_long = IF dir = "Long" THEN Floor0(n.total_long - size) ELSE n.total_long
  /\ q.total_short = IF dir = "Short" THEN Floor0(n.total_short - size) ELSE n.total_short
  /\ q.exposure = [n.exposure EXCEPT
                     ![a] = Shrunk(n.exposure[a], dir, size, KDelta(size, entry))]

TotalsGrown(n, q, a, dir, size, entry) ==
  /\ q.total_long = IF dir = "Long" THEN n.total_long + size ELSE n.total_long
  /\ q.total_short = IF dir = "Short" THEN n.total_short + size ELSE n.total_short
  /\ q.exposure = [n.exposure EXCEPT
                     ![a] = Grown(n.exposure[a], dir, size, KDelta(size, entry))]

AccountsGrown(n, q, a, dir, size, entry) ==
  /\ q.pool.reserved_payout = n.pool.reserved_payout + size
  /\ TotalsGrown(n, q, a, dir, size, entry)

(* The selections of two records that differ in one row. *)
LEMMA Selections ==
  ASSUME NEW n, NEW q, NEW id, RowMoved(n, q, id)
  PROVE  /\ \A dir : /\ Way(n, dir) \in SUBSET DOMAIN n.positions
                     /\ Way(q, dir) \in SUBSET DOMAIN q.positions
                     /\ Way(n, dir) \ {id} = Way(q, dir) \ {id}
         /\ \A a, dir : /\ Side(n, a, dir) \in SUBSET DOMAIN n.positions
                        /\ Side(q, a, dir) \in SUBSET DOMAIN q.positions
                        /\ Side(n, a, dir) \ {id} = Side(q, a, dir) \ {id}
<1>1. \A i : i # id => (i \in DOMAIN q.positions <=> i \in DOMAIN n.positions)
  BY DEF RowMoved
<1>2. \A i \in DOMAIN n.positions \ {id} :
        q.positions[i].asset = n.positions[i].asset /\ q.positions[i].dir = n.positions[i].dir
  BY DEF RowMoved
<1>3. \A dir : Way(n, dir) \ {id} = Way(q, dir) \ {id}
  BY <1>1, <1>2 DEF Way
<1>4. \A a, dir : Side(n, a, dir) \ {id} = Side(q, a, dir) \ {id}
  BY <1>1, <1>2 DEF Side
<1> QED
  BY <1>3, <1>4 DEF Way, Side

(* The aggregates of one asset: the other direction and the other assets are *)
(* as before.                                                                *)
SidesShrunk(n, q, a, dir, size, k, x) ==
  /\ q.exposure[x].ls = IF x = a /\ dir = "Long"
                          THEN Floor0(n.exposure[x].ls - size) ELSE n.exposure[x].ls
  /\ q.exposure[x].ss = IF x = a /\ dir = "Short"
                          THEN Floor0(n.exposure[x].ss - size) ELSE n.exposure[x].ss
  /\ q.exposure[x].lk = IF x = a /\ dir = "Long"
                          THEN Floor0(n.exposure[x].lk - k) ELSE n.exposure[x].lk
  /\ q.exposure[x].sk = IF x = a /\ dir = "Short"
                          THEN Floor0(n.exposure[x].sk - k) ELSE n.exposure[x].sk

SidesGrown(n, q, a, dir, size, k, x) ==
  /\ q.exposure[x].ls = IF x = a /\ dir = "Long"
                          THEN n.exposure[x].ls + size ELSE n.exposure[x].ls
  /\ q.exposure[x].ss = IF x = a /\ dir = "Short"
                          THEN n.exposure[x].ss + size ELSE n.exposure[x].ss
  /\ q.exposure[x].lk = IF x = a /\ dir = "Long"
                          THEN n.exposure[x].lk + k ELSE n.exposure[x].lk
  /\ q.exposure[x].sk = IF x = a /\ dir = "Short"
                          THEN n.exposure[x].sk + k ELSE n.exposure[x].sk

LEMMA ShrunkSides ==
  ASSUME NEW n, BooksOK(n), NEW q, NEW a \in Assets, NEW dir \in Dirs, NEW size \in Nat,
         NEW entry, AccountsShrunk(n, q, a, dir, size, entry), NEW x \in Assets
  PROVE  SidesShrunk(n, q, a, dir, size, KDelta(size, entry), x)
<1> DEFINE k == KDelta(size, entry)
<1>1. q.exposure = [n.exposure EXCEPT ![a] = Shrunk(n.exposure[a], dir, size, k)]
  BY DEF AccountsShrunk
<1>2. DOMAIN n.exposure = Assets /\ DOMAIN n.exposure[a] = ExposureFields
  BY DEF BooksOK
<1>3. dir = "Long" \/ dir = "Short"
  BY DEF Dirs
<1> SUFFICES SidesShrunk(n, q, a, dir, size, k, x)
  OBVIOUS
<1> HIDE DEF k
<1>4. CASE x # a
  BY <1>1, <1>2, <1>4 DEF SidesShrunk
<1>5. CASE x = a
  <2>1. q.exposure[a] = Shrunk(n.exposure[a], dir, size, k)
    BY <1>1, <1>2
  <2> QED
    BY <1>2, <1>3, <1>5, <2>1 DEF Shrunk, ExposureFields, SidesShrunk
<1> QED
  BY <1>4, <1>5

LEMMA GrownSides ==
  ASSUME NEW n, BooksOK(n), NEW q, NEW a \in Assets, NEW dir \in Dirs, NEW size \in Nat,
         NEW entry, AccountsGrown(n, q, a, dir, size, entry), NEW x \in Assets
  PROVE  SidesGrown(n, q, a, dir, size, KDelta(size, entry), x)
<1> DEFINE k == KDelta(size, entry)
<1>1. q.exposure = [n.exposure EXCEPT ![a] = Grown(n.exposure[a], dir, size, k)]
  BY DEF AccountsGrown, TotalsGrown
<1>2. DOMAIN n.exposure = Assets /\ DOMAIN n.exposure[a] = ExposureFields
  BY DEF BooksOK
<1>3. dir = "Long" \/ dir = "Short"
  BY DEF Dirs
<1> SUFFICES SidesGrown(n, q, a, dir, size, k, x)
  OBVIOUS
<1> HIDE DEF k
<1>4. CASE x # a
  BY <1>1, <1>2, <1>4 DEF SidesGrown
<1>5. CASE x = a
  <2>1. q.exposure[a] = Grown(n.exposure[a], dir, size, k)
    BY <1>1, <1>2
  <2> QED
    BY <1>2, <1>3, <1>5, <2>1 DEF Grown, ExposureFields, SidesGrown
<1> QED
  BY <1>4, <1>5

(* A row that loses size, with the books that lose it too: whatever saturates *)
(* had enough, and what is taken from the aggregates is at most what the row  *)
(* no longer weighs.                                                          *)
LEMMA Shrinks ==
  ASSUME NEW n, PositionsOK(n), BooksOK(n), NEW q, PositionsOK(q), Books(n),
         NEW id, NEW gone, RowLoses(n, q, id, gone), NEW a, NEW dir, NEW entry,
         a = n.positions[id].asset, dir = n.positions[id].dir, entry = n.positions[id].entry,
         AccountsShrunk(n, q, a, dir, gone, entry)
  PROVE  Books(q)
<1> DEFINE k == KDelta(gone, entry)
<1>1. /\ id \in DOMAIN n.positions /\ gone \in Nat /\ RowMoved(n, q, id)
      /\ id \in DOMAIN q.positions =>
           q.positions[id].asset = a /\ q.positions[id].dir = dir
  BY DEF RowLoses
<1>2. a \in Assets /\ dir \in Dirs /\ entry \in Nat \ {0}
  BY <1>1 DEF PositionsOK, RowOK, PositionOK
<1>3. k \in Nat
  BY <1>1, <1>2, KDeltaType
<1>4. \A x, d : /\ id \in Way(n, d) <=> d = dir
                /\ id \in Way(q, d) <=> d = dir /\ id \in DOMAIN q.positions
                /\ id \in Side(n, x, d) <=> x = a /\ d = dir
                /\ id \in Side(q, x, d) <=> x = a /\ d = dir /\ id \in DOMAIN q.positions
  BY <1>1 DEF Way, Side
<1>5. \A S \in SUBSET DOMAIN n.positions, T \in SUBSET DOMAIN q.positions :
        S \ {id} = T \ {id} /\ (id \in T <=> (id \in S /\ id \in DOMAIN q.positions)) =>
          /\ SizeOf(n, S) \in Nat /\ SizeOf(q, T) \in Nat
          /\ SizeOf(q, T) = SizeOf(n, S) - (IF id \in S THEN gone ELSE 0)
          /\ KOf(n, S) \in Nat /\ KOf(q, T) \in Nat
          /\ KOf(q, T) + (IF id \in S THEN k ELSE 0) <= KOf(n, S)
  BY SumsLose
<1> HIDE DEF k
<1>6. \A d : /\ SizeOf(n, Way(n, d)) \in Nat /\ SizeOf(q, Way(q, d)) \in Nat
             /\ SizeOf(q, Way(q, d)) = SizeOf(n, Way(n, d)) - (IF d = dir THEN gone ELSE 0)
  <2> TAKE d
  <2>1. /\ Way(n, d) \in SUBSET DOMAIN n.positions
        /\ Way(q, d) \in SUBSET DOMAIN q.positions
        /\ Way(n, d) \ {id} = Way(q, d) \ {id}
    BY <1>1, Selections
  <2> QED
    BY <1>4, <1>5, <2>1
<1>7. \A x, d :
        /\ SizeOf(n, Side(n, x, d)) \in Nat /\ SizeOf(q, Side(q, x, d)) \in Nat
        /\ SizeOf(q, Side(q, x, d))
             = SizeOf(n, Side(n, x, d)) - (IF x = a /\ d = dir THEN gone ELSE 0)
        /\ KOf(n, Side(n, x, d)) \in Nat /\ KOf(q, Side(q, x, d)) \in Nat
        /\ KOf(q, Side(q, x, d)) + (IF x = a /\ d = dir THEN k ELSE 0)
             <= KOf(n, Side(n, x, d))
  <2> TAKE x, d
  <2>1. /\ Side(n, x, d) \in SUBSET DOMAIN n.positions
        /\ Side(q, x, d) \in SUBSET DOMAIN q.positions
        /\ Side(n, x, d) \ {id} = Side(q, x, d) \ {id}
    BY <1>1, Selections
  <2> QED
    BY <1>4, <1>5, <2>1
<1>8. q.pool.reserved_payout = SizeOf(q, DOMAIN q.positions)
  <2>1. DOMAIN n.positions \ {id} = DOMAIN q.positions \ {id}
    BY <1>1 DEF RowMoved
  <2>2. /\ SizeOf(n, DOMAIN n.positions) \in Nat /\ SizeOf(q, DOMAIN q.positions) \in Nat
        /\ SizeOf(q, DOMAIN q.positions) = SizeOf(n, DOMAIN n.positions) - gone
    BY <1>1, <1>5, <2>1
  <2> QED
    BY <1>1, <2>2 DEF Books, AccountsShrunk, Floor0
<1>9. q.total_long = SizeOf(q, Way(q, "Long")) /\ q.total_short = SizeOf(q, Way(q, "Short"))
  <2>1. /\ q.total_long = IF dir = "Long" THEN Floor0(n.total_long - gone) ELSE n.total_long
        /\ q.total_short = IF dir = "Short" THEN Floor0(n.total_short - gone)
                                            ELSE n.total_short
    BY DEF AccountsShrunk
  <2>2. n.total_long = SizeOf(n, Way(n, "Long")) /\ n.total_short = SizeOf(n, Way(n, "Short"))
    BY DEF Books
  <2> QED
    BY <1>1, <1>2, <1>6, <2>1, <2>2 DEF Floor0, Dirs
<1>10. ASSUME NEW x \in Assets
       PROVE  /\ q.exposure[x].ls = SizeOf(q, Side(q, x, "Long"))
              /\ q.exposure[x].ss = SizeOf(q, Side(q, x, "Short"))
              /\ q.exposure[x].lk >= KOf(q, Side(q, x, "Long"))
              /\ q.exposure[x].sk >= KOf(q, Side(q, x, "Short"))
  <2>1. SidesShrunk(n, q, a, dir, gone, KDelta(gone, entry), x)
    BY <1>1, <1>2, ShrunkSides
  <2>2. /\ n.exposure[x].lk \in Nat /\ n.exposure[x].sk \in Nat
    BY DEF BooksOK
  <2>3. /\ n.exposure[x].ls = SizeOf(n, Side(n, x, "Long"))
        /\ n.exposure[x].ss = SizeOf(n, Side(n, x, "Short"))
        /\ n.exposure[x].lk >= KOf(n, Side(n, x, "Long"))
        /\ n.exposure[x].sk >= KOf(n, Side(n, x, "Short"))
    BY DEF Books
  <2>4. /\ SizeOf(n, Side(n, x, "Long")) \in Nat /\ SizeOf(q, Side(q, x, "Long")) \in Nat
        /\ SizeOf(q, Side(q, x, "Long"))
             = SizeOf(n, Side(n, x, "Long")) - (IF x = a /\ "Long" = dir THEN gone ELSE 0)
        /\ KOf(n, Side(n, x, "Long")) \in Nat /\ KOf(q, Side(q, x, "Long")) \in Nat
        /\ KOf(q, Side(q, x, "Long")) + (IF x = a /\ "Long" = dir THEN k ELSE 0)
             <= KOf(n, Side(n, x, "Long"))
    BY <1>7
  <2>5. /\ SizeOf(n, Side(n, x, "Short")) \in Nat /\ SizeOf(q, Side(q, x, "Short")) \in Nat
        /\ SizeOf(q, Side(q, x, "Short"))
             = SizeOf(n, Side(n, x, "Short")) - (IF x = a /\ "Short" = dir THEN gone ELSE 0)
        /\ KOf(n, Side(n, x, "Short")) \in Nat /\ KOf(q, Side(q, x, "Short")) \in Nat
        /\ KOf(q, Side(q, x, "Short")) + (IF x = a /\ "Short" = dir THEN k ELSE 0)
             <= KOf(n, Side(n, x, "Short"))
    BY <1>7
  <2>6. /\ q.exposure[x].ls = SizeOf(q, Side(q, x, "Long"))
        /\ q.exposure[x].lk >= KOf(q, Side(q, x, "Long"))
    BY <1>1, <1>3, <2>1, <2>2, <2>3, <2>4 DEF Floor0, SidesShrunk, k
  <2>7. /\ q.exposure[x].ss = SizeOf(q, Side(q, x, "Short"))
        /\ q.exposure[x].sk >= KOf(q, Side(q, x, "Short"))
    BY <1>1, <1>3, <2>1, <2>2, <2>3, <2>5 DEF Floor0, SidesShrunk, k
  <2> QED
    BY <2>6, <2>7
<1> QED
  BY <1>8, <1>9, <1>10 DEF Books

(* A new row, with the books that gain it. *)
LEMMA Grows ==
  ASSUME NEW n, PositionsOK(n), BooksOK(n), NEW q, PositionsOK(q), Books(n),
         NEW id, RowGained(n, q, id), NEW a, NEW dir, NEW size, NEW entry,
         a = q.positions[id].asset, dir = q.positions[id].dir, size = q.positions[id].size,
         entry = q.positions[id].entry, AccountsGrown(n, q, a, dir, size, entry)
  PROVE  Books(q)
<1> DEFINE k == KDelta(size, entry)
<1>1. id \notin DOMAIN n.positions /\ id \in DOMAIN q.positions /\ RowMoved(n, q, id)
  BY DEF RowGained
<1>2. a \in Assets /\ dir \in Dirs /\ size \in Nat /\ entry \in Nat \ {0}
  BY <1>1 DEF PositionsOK, RowOK, PositionOK
<1>3. k \in Nat /\ SizeAt(q, id) = size /\ KAt(q, id) = k
  BY <1>2, KDeltaType DEF SizeAt, KAt
<1>4. \A x, d : /\ id \in Way(q, d) <=> d = dir
                /\ id \in Side(q, x, d) <=> x = a /\ d = dir
  BY <1>1 DEF Way, Side
<1>5. \A S \in SUBSET DOMAIN n.positions, T \in SUBSET DOMAIN q.positions :
        S \ {id} = T \ {id} =>
          /\ SizeOf(n, S) \in Nat /\ SizeOf(q, T) \in Nat
          /\ SizeOf(q, T) = SizeOf(n, S) + (IF id \in T THEN SizeAt(q, id) ELSE 0)
          /\ KOf(n, S) \in Nat /\ KOf(q, T) \in Nat
          /\ KOf(q, T) = KOf(n, S) + (IF id \in T THEN KAt(q, id) ELSE 0)
  BY SumsGain
<1> HIDE DEF k
<1>6. \A d : /\ SizeOf(n, Way(n, d)) \in Nat
             /\ SizeOf(q, Way(q, d)) = SizeOf(n, Way(n, d)) + (IF d = dir THEN size ELSE 0)
  <2> TAKE d
  <2>1. /\ Way(n, d) \in SUBSET DOMAIN n.positions
        /\ Way(q, d) \in SUBSET DOMAIN q.positions
        /\ Way(n, d) \ {id} = Way(q, d) \ {id}
    BY <1>1, Selections
  <2> QED
    BY <1>3, <1>4, <1>5, <2>1
<1>7. \A x, d :
        /\ SizeOf(n, Side(n, x, d)) \in Nat
        /\ SizeOf(q, Side(q, x, d))
             = SizeOf(n, Side(n, x, d)) + (IF x = a /\ d = dir THEN size ELSE 0)
        /\ KOf(n, Side(n, x, d)) \in Nat
        /\ KOf(q, Side(q, x, d)) = KOf(n, Side(n, x, d)) + (IF x = a /\ d = dir THEN k ELSE 0)
  <2> TAKE x, d
  <2>1. /\ Side(n, x, d) \in SUBSET DOMAIN n.positions
        /\ Side(q, x, d) \in SUBSET DOMAIN q.positions
        /\ Side(n, x, d) \ {id} = Side(q, x, d) \ {id}
    BY <1>1, Selections
  <2> QED
    BY <1>3, <1>4, <1>5, <2>1
<1>8. q.pool.reserved_payout = SizeOf(q, DOMAIN q.positions)
  <2>1. DOMAIN n.positions \ {id} = DOMAIN q.positions \ {id}
    BY <1>1 DEF RowMoved
  <2>2. SizeOf(q, DOMAIN q.positions) = SizeOf(n, DOMAIN n.positions) + size
    BY <1>1, <1>3, <1>5, <2>1
  <2> QED
    BY <2>2 DEF Books, AccountsGrown
<1>9. q.total_long = SizeOf(q, Way(q, "Long")) /\ q.total_short = SizeOf(q, Way(q, "Short"))
  <2>1. /\ q.total_long = IF dir = "Long" THEN n.total_long + size ELSE n.total_long
        /\ q.total_short = IF dir = "Short" THEN n.total_short + size ELSE n.total_short
    BY DEF AccountsGrown, TotalsGrown
  <2>2. n.total_long = SizeOf(n, Way(n, "Long")) /\ n.total_short = SizeOf(n, Way(n, "Short"))
    BY DEF Books
  <2> QED
    BY <1>2, <1>6, <2>1, <2>2 DEF Dirs
<1>10. ASSUME NEW x \in Assets
       PROVE  /\ q.exposure[x].ls = SizeOf(q, Side(q, x, "Long"))
              /\ q.exposure[x].ss = SizeOf(q, Side(q, x, "Short"))
              /\ q.exposure[x].lk >= KOf(q, Side(q, x, "Long"))
              /\ q.exposure[x].sk >= KOf(q, Side(q, x, "Short"))
  <2>1. SidesGrown(n, q, a, dir, size, KDelta(size, entry), x)
    BY <1>1, <1>2, GrownSides
  <2>2. /\ n.exposure[x].lk \in Nat /\ n.exposure[x].sk \in Nat
    BY DEF BooksOK
  <2>3. /\ n.exposure[x].ls = SizeOf(n, Side(n, x, "Long"))
        /\ n.exposure[x].ss = SizeOf(n, Side(n, x, "Short"))
        /\ n.exposure[x].lk >= KOf(n, Side(n, x, "Long"))
        /\ n.exposure[x].sk >= KOf(n, Side(n, x, "Short"))
    BY DEF Books
  <2>4. /\ SizeOf(n, Side(n, x, "Long")) \in Nat
        /\ SizeOf(q, Side(q, x, "Long"))
             = SizeOf(n, Side(n, x, "Long")) + (IF x = a /\ "Long" = dir THEN size ELSE 0)
        /\ KOf(n, Side(n, x, "Long")) \in Nat
        /\ KOf(q, Side(q, x, "Long"))
             = KOf(n, Side(n, x, "Long")) + (IF x = a /\ "Long" = dir THEN k ELSE 0)
    BY <1>7
  <2>5. /\ SizeOf(n, Side(n, x, "Short")) \in Nat
        /\ SizeOf(q, Side(q, x, "Short"))
             = SizeOf(n, Side(n, x, "Short")) + (IF x = a /\ "Short" = dir THEN size ELSE 0)
        /\ KOf(n, Side(n, x, "Short")) \in Nat
        /\ KOf(q, Side(q, x, "Short"))
             = KOf(n, Side(n, x, "Short")) + (IF x = a /\ "Short" = dir THEN k ELSE 0)
    BY <1>7
  <2>6. /\ q.exposure[x].ls = SizeOf(q, Side(q, x, "Long"))
        /\ q.exposure[x].lk >= KOf(q, Side(q, x, "Long"))
    BY <1>3, <2>1, <2>2, <2>3, <2>4 DEF SidesGrown, k
  <2>7. /\ q.exposure[x].ss = SizeOf(q, Side(q, x, "Short"))
        /\ q.exposure[x].sk >= KOf(q, Side(q, x, "Short"))
    BY <1>3, <2>1, <2>2, <2>3, <2>5 DEF SidesGrown, k
  <2> QED
    BY <2>6, <2>7
<1> QED
  BY <1>8, <1>9, <1>10 DEF Books

(* Rows that differ in nothing the books count. *)
SameRows(n, q) ==
  /\ DOMAIN q.positions = DOMAIN n.positions
  /\ \A i \in DOMAIN n.positions :
       /\ q.positions[i].size = n.positions[i].size
       /\ q.positions[i].entry = n.positions[i].entry
       /\ q.positions[i].asset = n.positions[i].asset
       /\ q.positions[i].dir = n.positions[i].dir

LEMMA Footing ==
  ASSUME NEW n, Books(n), NEW q, SameRows(n, q), AccountsKept(n, q)
  PROVE  Books(q)
<1>1. ASSUME NEW S \in SUBSET DOMAIN n.positions
      PROVE  SizeOf(q, S) = SizeOf(n, S) /\ KOf(q, S) = KOf(n, S)
  <2>1. \A i \in S : /\ q.positions[i].size = n.positions[i].size
                     /\ q.positions[i].entry = n.positions[i].entry
    BY DEF SameRows
  <2>2. [i \in S |-> q.positions[i].size] = [i \in S |-> n.positions[i].size]
    BY <2>1
  <2>3. [i \in S |-> KDelta(q.positions[i].size, q.positions[i].entry)]
          = [i \in S |-> KDelta(n.positions[i].size, n.positions[i].entry)]
    BY <2>1
  <2> QED
    BY <2>2, <2>3 DEF SizeOf, KOf
<1>2. \A d : Way(n, d) \in SUBSET DOMAIN n.positions /\ Way(q, d) = Way(n, d)
  BY DEF Way, SameRows
<1>3. \A a, d : Side(n, a, d) \in SUBSET DOMAIN n.positions /\ Side(q, a, d) = Side(n, a, d)
  BY DEF Side, SameRows
<1>4. DOMAIN q.positions = DOMAIN n.positions
  BY DEF SameRows
<1>5. /\ q.pool.reserved_payout = SizeOf(q, DOMAIN q.positions)
      /\ q.total_long = SizeOf(q, Way(q, "Long"))
      /\ q.total_short = SizeOf(q, Way(q, "Short"))
  BY <1>1, <1>2, <1>4 DEF Books, AccountsKept
<1>6. \A a \in Assets : /\ q.exposure[a].ls = SizeOf(q, Side(q, a, "Long"))
                        /\ q.exposure[a].ss = SizeOf(q, Side(q, a, "Short"))
  BY <1>1, <1>3 DEF Books, AccountsKept
<1>7. \A a \in Assets : /\ q.exposure[a].lk >= KOf(q, Side(q, a, "Long"))
                        /\ q.exposure[a].sk >= KOf(q, Side(q, a, "Short"))
  BY <1>1, <1>3 DEF Books, AccountsKept
<1> QED
  BY <1>5, <1>6, <1>7 DEF Books

-----------------------------------------------------------------------------
(* What the operators do to the books. *)

Reserves(p, r) == "reserved_payout" \in DOMAIN p /\ p.reserved_payout = r

(* Money that comes and goes leaves the reservation alone. *)
LEMMA ReservesKept ==
  ASSUME NEW p, NEW r, Reserves(p, r)
  PROVE  /\ \A x : Reserves(TransferIn(p, x), r)
         /\ \A x : Reserves(credit_vault_receipt(p, x), r)
         /\ \A x : Reserves(fund_vault_buffer(p, x), r)
         /\ \A x : Reserves(record_bad_debt(p, x), r)
         /\ \A x : Reserves(pay_bounty(p, x), r)
         /\ \A x : Reserves(pay_from_buffer(p, x), r)
         /\ \A x : Reserves(route_protocol_fee(p, VaultConfig, x), r)
         /\ \A t, x : Reserves(settle_pnl(p, t, x), r)
         /\ \A t : Reserves(claim_shortfall(p, t), r)
         /\ \A x, y : Reserves(Withdrawn(p, VaultConfig, x, y), r)
         /\ \A a, x : Reserves(sync_exposure(p, a, x, 0), r)
<1>1. \A x : Reserves(TransferIn(p, x), r)
  BY DEF Reserves, TransferIn
<1>2. \A x : Reserves(credit_vault_receipt(p, x), r)
  BY DEF Reserves, credit_vault_receipt, receive_loss
<1>3. \A x : Reserves(fund_vault_buffer(p, x), r)
  BY DEF Reserves, fund_vault_buffer, fund_buffer
<1>4. \A x : Reserves(record_bad_debt(p, x), r)
  BY DEF Reserves, record_bad_debt, draw_buffer
<1>5. \A x : Reserves(pay_bounty(p, x), r)
  BY DEF Reserves, pay_bounty
<1>6. \A x : Reserves(pay_from_buffer(p, x), r)
  BY DEF Reserves, pay_from_buffer
<1>7. \A x : Reserves(route_protocol_fee(p, VaultConfig, x), r)
  BY DEF Reserves, route_protocol_fee
<1>8. \A t, x : Reserves(settle_pnl(p, t, x), r)
  BY DEF Reserves, settle_pnl
<1>9. \A t : Reserves(claim_shortfall(p, t), r)
  BY DEF Reserves, claim_shortfall
<1>10. \A x, y : Reserves(Withdrawn(p, VaultConfig, x, y), r)
  BY DEF Reserves, Withdrawn
<1>11. \A a, x : Reserves(sync_exposure(p, a, x, 0), r)
  BY DEF Reserves, sync_exposure
<1> QED
  BY <1>1, <1>2, <1>3, <1>4, <1>5, <1>6, <1>7, <1>8, <1>9, <1>10, <1>11

LEMMA PoolReserves ==
  ASSUME NEW n, MarketOK(n)
  PROVE  Reserves(n.pool, n.pool.reserved_payout) /\ n.pool.reserved_payout \in Nat
BY DEF MarketOK, MoneyOK, PoolInv, PoolOK, PoolFields, Reserves

LEMMA AccountsTransitive ==
  ASSUME NEW n, NEW b, NEW q
  PROVE  /\ AccountsKept(n, b) /\ AccountsKept(b, q) => AccountsKept(n, q)
         /\ \A a, dir, size, entry :
              AccountsKept(n, b) /\ AccountsShrunk(b, q, a, dir, size, entry)
                => AccountsShrunk(n, q, a, dir, size, entry)
         /\ \A a, dir, size, entry :
              AccountsShrunk(n, b, a, dir, size, entry) /\ AccountsKept(b, q)
                => AccountsShrunk(n, q, a, dir, size, entry)
         /\ \A a, dir, size, entry :
              AccountsGrown(n, b, a, dir, size, entry) /\ AccountsKept(b, q)
                => AccountsGrown(n, q, a, dir, size, entry)
<1>1. AccountsKept(n, b) /\ AccountsKept(b, q) => AccountsKept(n, q)
  BY DEF AccountsKept
<1>2. ASSUME NEW a, NEW dir, NEW size, NEW entry, AccountsKept(n, b),
             AccountsShrunk(b, q, a, dir, size, entry)
      PROVE  AccountsShrunk(n, q, a, dir, size, entry)
  BY <1>2, Zenon DEF AccountsKept, AccountsShrunk
<1>3. ASSUME NEW a, NEW dir, NEW size, NEW entry, AccountsKept(b, q),
             AccountsShrunk(n, b, a, dir, size, entry)
      PROVE  AccountsShrunk(n, q, a, dir, size, entry)
  BY <1>3, Zenon DEF AccountsKept, AccountsShrunk
<1>4. ASSUME NEW a, NEW dir, NEW size, NEW entry, AccountsKept(b, q),
             AccountsGrown(n, b, a, dir, size, entry)
      PROVE  AccountsGrown(n, q, a, dir, size, entry)
  BY <1>4, Zenon DEF AccountsKept, AccountsGrown, TotalsGrown
<1> QED
  BY <1>1, <1>2, <1>3, <1>4

LEMMA BookOnlyAccounts ==
  ASSUME NEW n, NEW q
  PROVE  /\ BookOnly(n, q) => AccountsKept(n, q) /\ q.positions = n.positions
         /\ RowsOnly(n, q) => AccountsKept(n, q)
BY DEF BookOnly, RowsOnly, AccountsKept, SameMoney, SameBooks, SamePositions

LEMMA MoneyOnlyAccounts ==
  ASSUME NEW n, NEW q, MoneyOnly(n, q), Reserves(q.pool, n.pool.reserved_payout)
  PROVE  AccountsKept(n, q) /\ q.positions = n.positions
BY DEF MoneyOnly, AccountsKept, SameBooks, SamePositions, Reserves

LEMMA SettleClosedAccounts ==
  ASSUME NEW n, MarketOK(n), NEW pos, NEW collateral, NEW net, NEW keeper_fee
  PROVE  AccountsKept(n, SettleClosed(n, pos, collateral, net, keeper_fee))
<1> DEFINE r == n.pool.reserved_payout
           paid == SettlePaid(n.pool, net)
           owed == LossOwed(net, collateral)
           fee_paid == Least(keeper_fee, collateral - owed)
           to_trader == collateral - owed - fee_paid + paid
           settled == IF net > 0 THEN settle_pnl(n.pool, pos.trader, net) ELSE n.pool
           booked == record_bad_debt(settled, -(collateral + net))
           credited == credit_vault_receipt(TransferIn(booked, owed), owed)
           adl == [n.adl EXCEPT ![pos.asset] = n.adl[pos.asset] \/ (net > 0 /\ paid < net)]
           cash == n.cash + paid - owed - Floor0(fee_paid) - Floor0(to_trader)
           q == SettleClosed(n, pos, collateral, net, keeper_fee)
<1>1. Reserves(n.pool, r)
  BY PoolReserves
<1>2. q = [[n EXCEPT !.adl = adl] EXCEPT !.pool = credited, !.cash = cash]
  BY DEF SettleClosed, flag_adl_on_shortfall, MarketOK, MoneyOK, MarketFields
<1> HIDE DEF adl, cash, r
<1>3. Reserves(settled, r)
  BY <1>1, ReservesKept
<1> HIDE DEF settled
<1>4. Reserves(booked, r)
  BY <1>3, ReservesKept
<1> HIDE DEF booked, owed
<1>5. Reserves(TransferIn(booked, owed), r)
  BY <1>4, ReservesKept
<1>6. Reserves(credited, r)
  BY <1>5, ReservesKept
<1> HIDE DEF credited, q
<1>7. /\ q.pool = credited /\ q.total_long = n.total_long /\ q.total_short = n.total_short
      /\ q.exposure = n.exposure
  BY <1>2 DEF MarketOK, MoneyOK, MarketFields
<1> QED
  BY <1>6, <1>7 DEF AccountsKept, Reserves, q, r

LEMMA ShrinkAccounts ==
  ASSUME NEW n, DOMAIN n = MarketFields, n.pool.reserved_payout \in Nat,
         Reserves(n.pool, n.pool.reserved_payout),
         NEW a, NEW dir, NEW size \in Nat, NEW entry, NEW mark
  PROVE  LET q == DecreaseOi(n, a, dir, size, entry, mark)
         IN  AccountsShrunk(n, q, a, dir, size, entry) /\ DOMAIN q = MarketFields
<1> DEFINE e == Shrunk(n.exposure[a], dir, size, KDelta(size, entry))
           pnl == exposure_upnl(e, mark)
           exposure == [n.exposure EXCEPT ![a] = e]
           pool == sync_exposure(n.pool, a, pnl, size)
           long == IF dir = "Long" THEN Floor0(n.total_long - size) ELSE n.total_long
           short == IF dir = "Short" THEN Floor0(n.total_short - size) ELSE n.total_short
           q == DecreaseOi(n, a, dir, size, entry, mark)
<1>1. q = [[n EXCEPT !.total_long = long, !.total_short = short] EXCEPT
             !.exposure = exposure, !.pool = pool]
  BY DEF DecreaseOi, WithExposure, MarketFields
<1> HIDE DEF e, pnl
<1>2. pool.reserved_payout = Floor0(n.pool.reserved_payout - size)
  BY DEF sync_exposure, Reserves, Floor0
<1> HIDE DEF pool, long, short, exposure, q
<1>3. /\ q.pool = pool /\ q.exposure = exposure /\ DOMAIN q = MarketFields
      /\ q.total_long = long /\ q.total_short = short
  BY <1>1 DEF MarketFields
<1>4. AccountsShrunk(n, q, a, dir, size, entry)
  BY <1>2, <1>3, Zenon DEF AccountsShrunk, exposure, long, short, e
<1> QED
  BY <1>3, <1>4 DEF q

LEMMA DecreaseOiAccounts ==
  ASSUME NEW n, MarketOK(n), NEW a, NEW dir, NEW size \in Nat, NEW entry, NEW mark
  PROVE  AccountsShrunk(n, DecreaseOi(n, a, dir, size, entry, mark), a, dir, size, entry)
<1>1. DOMAIN n = MarketFields
  BY DEF MarketOK, MoneyOK
<1> QED
  BY <1>1, PoolReserves, ShrinkAccounts

LEMMA IncreaseOiAccounts ==
  ASSUME NEW n, MarketOK(n), NEW a, NEW dir, NEW size, NEW entry
  PROVE  LET q == IncreaseOi(n, a, dir, size, entry)
         IN  /\ Reserves(q.pool, n.pool.reserved_payout)
             /\ TotalsGrown(n, q, a, dir, size, entry)
<1> DEFINE e == Grown(n.exposure[a], dir, size, KDelta(size, entry))
           pnl == exposure_upnl(e, entry)
           exposure == [n.exposure EXCEPT ![a] = e]
           pool == sync_exposure(n.pool, a, pnl, 0)
           long == IF dir = "Long" THEN n.total_long + size ELSE n.total_long
           short == IF dir = "Short" THEN n.total_short + size ELSE n.total_short
           q == IncreaseOi(n, a, dir, size, entry)
<1>1. q = [[n EXCEPT !.total_long = long, !.total_short = short] EXCEPT
             !.exposure = exposure, !.pool = pool]
  BY DEF IncreaseOi, WithExposure, MarketOK, MoneyOK, MarketFields
<1> HIDE DEF e, pnl
<1>2. Reserves(pool, n.pool.reserved_payout)
  BY PoolReserves, ReservesKept
<1> HIDE DEF pool, long, short, exposure, q
<1>3. /\ q.pool = pool /\ q.exposure = exposure
      /\ q.total_long = long /\ q.total_short = short
  BY <1>1 DEF MarketOK, MoneyOK, MarketFields
<1>4. TotalsGrown(n, q, a, dir, size, entry)
  BY <1>3, Zenon DEF TotalsGrown, exposure, long, short, e
<1>5. Reserves(q.pool, n.pool.reserved_payout)
  BY <1>2, <1>3
<1> QED
  BY <1>4, <1>5 DEF q

-----------------------------------------------------------------------------
(* Closing, in full and in part. *)

LEMMA CloseBooks ==
  ASSUME NEW n, MarketOK(n), Books(n), NEW id \in DOMAIN n.positions, NEW mark \in Nat,
         NEW cum \in Int, NEW keeper_fee \in Nat, NEW skip
  PROVE  Books(settle_isolated_close(n, id, mark, cum, keeper_fee, skip))
<1> DEFINE pos == n.positions[id]
           net == NetPnl(pos, pos.size, mark, cum)
           a == SettleClosed(n, pos, pos.collateral, net, keeper_fee)
           b == DecreaseOi(a, pos.asset, pos.dir, pos.size, pos.entry, mark)
           c == cancel_position_orders(b, id, skip)
           q == settle_isolated_close(n, id, mark, cum, keeper_fee, skip)
<1>0. q = delete_position(c, id)
  BY DEF settle_isolated_close
<1>q. MarketOK(q) /\ RowGone(n, q, id)
  BY CloseMoves
<1>1. /\ RowOK(pos) /\ pos.asset \in Assets /\ pos.size \in Nat /\ pos.size > 0
      /\ pos.collateral \in Nat /\ pos.entry \in Nat \ {0}
  BY RowFacts
<1> HIDE DEF pos
<1>2. net \in Int
  BY <1>1, NetPnlType
<1> HIDE DEF net
<1>3. MarketOK(a) /\ SamePositions(n, a) /\ AccountsKept(n, a)
  BY <1>1, <1>2, SettleClosedMoves, SettleClosedAccounts
<1> HIDE DEF a
<1>4. /\ MarketOK(b) /\ SamePositions(a, b)
      /\ AccountsShrunk(a, b, pos.asset, pos.dir, pos.size, pos.entry)
  BY <1>1, <1>3, DecreaseOiMoves, DecreaseOiAccounts
<1> HIDE DEF b
<1>5. BookOnly(b, c) /\ MarketOK(c)
  BY <1>4, CancelAttached
<1> HIDE DEF c
<1>6. c.positions = n.positions
  BY <1>3, <1>4, <1>5 DEF SamePositions, BookOnly
<1>7. RowsOnly(c, q)
  BY <1>0, <1>5, <1>6, DeleteMoves
<1> HIDE DEF q
<1>8. AccountsKept(b, c) /\ AccountsKept(c, q)
  BY <1>5, <1>7, BookOnlyAccounts
<1>9. AccountsShrunk(n, q, pos.asset, pos.dir, pos.size, pos.entry)
  BY <1>3, <1>4, <1>8, AccountsTransitive
<1>10. RowLoses(n, q, id, pos.size)
  <2>1. /\ DOMAIN q.positions = DOMAIN n.positions \ {id}
        /\ \A i \in DOMAIN n.positions \ {id} : q.positions[i] = n.positions[i]
    BY <1>q DEF RowGone
  <2>2. RowMoved(n, q, id)
    BY <2>1 DEF RowMoved
  <2> QED
    BY <1>1, <2>1, <2>2 DEF RowLoses, SizeAt, pos
<1> QED
  BY <1>q, <1>9, <1>10, Shrinks DEF MarketOK, pos, q

(* The row of a partial close or a tranche: the market record a step before   *)
(* has the books without the part that goes.                                  *)
LEMMA PartBooks ==
  ASSUME NEW n, MarketOK(n), Books(n), NEW id \in DOMAIN n.positions, NEW b, NEW part,
         part \in Nat, part < n.positions[id].size,
         AccountsShrunk(n, b, n.positions[id].asset, n.positions[id].dir, part,
                        n.positions[id].entry),
         NEW row, row.size = n.positions[id].size - part,
         row.entry = n.positions[id].entry, row.asset = n.positions[id].asset,
         row.dir = n.positions[id].dir,
         DOMAIN b = MarketFields, NEW q,
         q = [b EXCEPT !.positions = [n.positions EXCEPT ![id] = row]], MarketOK(q)
  PROVE  Books(q)
<1>1. /\ q.positions = [n.positions EXCEPT ![id] = row] /\ q.pool = b.pool
      /\ q.total_long = b.total_long /\ q.total_short = b.total_short
      /\ q.exposure = b.exposure
  BY DEF MarketFields
<1>2. AccountsKept(b, q)
  BY <1>1 DEF AccountsKept
<1>3. AccountsShrunk(n, q, n.positions[id].asset, n.positions[id].dir, part,
                     n.positions[id].entry)
  BY <1>2, AccountsTransitive
<1>4. RowLoses(n, q, id, part)
  <2>1. /\ DOMAIN q.positions = DOMAIN n.positions /\ q.positions[id] = row
        /\ \A i \in DOMAIN n.positions \ {id} : q.positions[i] = n.positions[i]
    BY <1>1
  <2>2. RowMoved(n, q, id)
    BY <2>1 DEF RowMoved
  <2>3. n.positions[id].size \in Nat
    BY RowFacts
  <2> QED
    BY <2>1, <2>2, <2>3 DEF RowLoses, SizeAt
<1> QED
  BY <1>3, <1>4, Shrinks DEF MarketOK

LEMMA PartialBooks ==
  ASSUME NEW n, MarketOK(n), Books(n), NEW id \in DOMAIN n.positions, NEW mark \in Nat,
         NEW cum \in Int, NEW keeper_fee \in Nat, NEW close_size \in Nat,
         close_size < n.positions[id].size,
         n.positions[id].collateral - CollateralClosed(n.positions[id], close_size) > 0
  PROVE  Books(settle_partial_close(n, id, mark, cum, close_size, keeper_fee))
<1> DEFINE pos == n.positions[id]
           part == CollateralClosed(pos, close_size)
           net == NetPnl(pos, close_size, mark, cum)
           a == SettleClosed(n, pos, part, net, keeper_fee)
           b == DecreaseOi(a, pos.asset, pos.dir, close_size, pos.entry, mark)
           row == [pos EXCEPT !.size = pos.size - close_size,
                              !.collateral = pos.collateral - part]
           q == settle_partial_close(n, id, mark, cum, close_size, keeper_fee)
<1>0. q = [b EXCEPT !.positions = [n.positions EXCEPT ![id] = row]]
  BY DEF settle_partial_close
<1>q. MarketOK(q)
  BY PartialMoves
<1>1. /\ RowOK(pos) /\ pos.asset \in Assets /\ pos.size \in Nat
      /\ pos.collateral \in Nat /\ pos.entry \in Nat \ {0} /\ close_size < pos.size
  BY RowFacts
<1>2. part \in Nat
  BY <1>1, CollateralClosedRange
<1> HIDE DEF pos, part
<1>3. net \in Int
  BY <1>1, NetPnlType
<1> HIDE DEF net
<1>4. MarketOK(a) /\ AccountsKept(n, a)
  BY <1>1, <1>2, <1>3, SettleClosedMoves, SettleClosedAccounts
<1> HIDE DEF a
<1>5. /\ MarketOK(b) /\ AccountsShrunk(a, b, pos.asset, pos.dir, close_size, pos.entry)
  BY <1>1, <1>4, DecreaseOiMoves, DecreaseOiAccounts
<1> HIDE DEF b
<1>6. AccountsShrunk(n, b, pos.asset, pos.dir, close_size, pos.entry)
  BY <1>4, <1>5, AccountsTransitive
<1>7. /\ row.size = pos.size - close_size /\ row.entry = pos.entry
      /\ row.asset = pos.asset /\ row.dir = pos.dir
  BY <1>1 DEF RowOK, PositionFields
<1> HIDE DEF row, q
<1>8. DOMAIN b = MarketFields
  BY <1>5 DEF MarketOK, MoneyOK
<1> QED
  BY <1>0, <1>q, <1>1, <1>6, <1>7, <1>8, PartBooks DEF pos, q

LEMMA TrancheBooks ==
  ASSUME NEW n, MarketOK(n), Books(n), NEW id \in DOMAIN n.positions, NEW mark \in Nat,
         NEW cum \in Int, NEW mm_bps \in Nat, NEW time \in Nat,
         TakesTranche(n.positions[id], NetPnl(n.positions[id], n.positions[id].size, mark, cum))
  PROVE  Books(LiquidateTranche(n, id, mark, cum, mm_bps, time))
<1> DEFINE pos == n.positions[id]
           net == NetPnl(pos, pos.size, mark, cum)
           debit == TrancheDebit(pos, net)
           penalty == TranchePenalty(pos, net)
           reward == BpsOf(penalty, Config.penalty_keeper_share_bps)
           to_buffer == penalty - reward
           received == credit_vault_receipt(TransferIn(n.pool, debit + to_buffer), debit)
           pool == fund_vault_buffer(received, to_buffer)
           cash == n.cash - (debit + to_buffer) - reward
           a == [n EXCEPT !.pool = pool, !.cash = cash]
           tranche == TrancheSize(pos)
           size == pos.size - tranche
           left == TrancheLeft(pos, net)
           liq == liquidation_price_from_ratio(pos.entry, left, size, pos.dir, mm_bps)
           b == DecreaseOi(a, pos.asset, pos.dir, tranche, pos.entry, mark)
           row == [pos EXCEPT !.size = size, !.collateral = left, !.liq = liq,
                              !.partial_liq_ts = time]
           q == LiquidateTranche(n, id, mark, cum, mm_bps, time)
<1>0. q = [b EXCEPT !.positions = [n.positions EXCEPT ![id] = row]]
  <2>1. a = [n EXCEPT !.pool = pool, !.cash = @ - (debit + to_buffer) - reward]
    BY DEF MarketOK, MoneyOK, MarketFields
  <2> HIDE DEF a, pool, debit, to_buffer, reward, net, pos
  <2> QED
    BY <2>1 DEF LiquidateTranche, pool, debit, to_buffer, reward, net, pos
<1>q. MarketOK(q)
  BY TrancheMoves
<1>1. /\ RowOK(pos) /\ pos.asset \in Assets /\ pos.size \in Nat \ {0}
      /\ pos.entry \in Nat \ {0}
  BY RowFacts
<1> HIDE DEF pos
<1>2. net \in Int
  BY <1>1, NetPnlType
<1>3. TakesTranche(pos, net)
  BY DEF pos
<1> HIDE DEF net
<1>4. tranche \in Nat /\ size \in Nat \ {0}
  BY <1>1, <1>2, <1>3, TrancheValues
<1>5. tranche < pos.size
  BY <1>1, <1>4
<1> HIDE DEF tranche, debit, penalty, left, reward, to_buffer, liq, cash
<1>6. Reserves(pool, n.pool.reserved_payout)
  <2>1. Reserves(n.pool, n.pool.reserved_payout)
    BY PoolReserves
  <2>2. Reserves(TransferIn(n.pool, debit + to_buffer), n.pool.reserved_payout)
    BY <2>1, ReservesKept
  <2>3. Reserves(received, n.pool.reserved_payout)
    BY <2>2, ReservesKept
  <2> HIDE DEF received
  <2> QED
    BY <2>3, ReservesKept
<1> HIDE DEF pool
<1>7. AccountsKept(n, a) /\ DOMAIN a = MarketFields
  BY <1>6 DEF MarketOK, MoneyOK, MarketFields, AccountsKept, Reserves
<1>8. AccountsShrunk(a, b, pos.asset, pos.dir, tranche, pos.entry) /\ DOMAIN b = MarketFields
  <2>1. a.pool.reserved_payout \in Nat /\ Reserves(a.pool, a.pool.reserved_payout)
    BY <1>6, PoolReserves DEF MarketOK, MoneyOK, MarketFields, Reserves
  <2> HIDE DEF a
  <2> QED
    BY <1>4, <1>7, <2>1, ShrinkAccounts
<1> HIDE DEF a, b
<1>9. AccountsShrunk(n, b, pos.asset, pos.dir, tranche, pos.entry)
  BY <1>7, <1>8, AccountsTransitive
<1>10. /\ row.size = pos.size - tranche /\ row.entry = pos.entry
       /\ row.asset = pos.asset /\ row.dir = pos.dir
  BY <1>1 DEF RowOK, PositionFields
<1> HIDE DEF row, q
<1> QED
  BY <1>0, <1>q, <1>1, <1>4, <1>5, <1>8, <1>9, <1>10, PartBooks DEF pos, q

(* A seizure is money only. *)
LEMMA SolventAccounts ==
  ASSUME NEW n, MarketOK(n), NEW pos, NEW equity
  PROVE  AccountsKept(n, SeizeSolvent(n, pos, equity))
<1> DEFINE penalty == Least(BpsOf(pos.size, Config.liquidation_penalty_bps), equity)
           keeper_cut == BpsOf(penalty, Config.penalty_keeper_share_bps)
           buffer_cut == penalty - keeper_cut
           refund == equity - penalty
           to_vault == Floor0(pos.collateral - keeper_cut - refund)
           received == credit_vault_receipt(TransferIn(n.pool, to_vault), to_vault - buffer_cut)
           pool == IF to_vault > 0 THEN fund_vault_buffer(received, buffer_cut) ELSE n.pool
           cash == n.cash - to_vault - keeper_cut - refund
           overpaid == n.overpaid + (to_vault + keeper_cut + refund - pos.collateral)
           q == SeizeSolvent(n, pos, equity)
<1>0. q = [n EXCEPT !.pool = pool, !.cash = cash, !.overpaid = overpaid]
  BY DEF SeizeSolvent, MarketOK, MoneyOK, MarketFields
<1> HIDE DEF penalty, keeper_cut, buffer_cut, refund, to_vault, cash, overpaid
<1>1. Reserves(n.pool, n.pool.reserved_payout)
  BY PoolReserves
<1>2. Reserves(TransferIn(n.pool, to_vault), n.pool.reserved_payout)
  BY <1>1, ReservesKept
<1>3. Reserves(received, n.pool.reserved_payout)
  BY <1>2, ReservesKept
<1> HIDE DEF received
<1>4. Reserves(pool, n.pool.reserved_payout)
  BY <1>1, <1>3, ReservesKept
<1> HIDE DEF pool, q
<1>5. /\ q.pool = pool /\ q.exposure = n.exposure
      /\ q.total_long = n.total_long /\ q.total_short = n.total_short
  BY <1>0 DEF MarketOK, MoneyOK, MarketFields
<1> QED
  BY <1>4, <1>5 DEF AccountsKept, Reserves, q

LEMMA BankruptAccounts ==
  ASSUME NEW n, MarketOK(n), NEW pos, NEW equity
  PROVE  AccountsKept(n, SeizeBankrupt(n, pos, equity))
<1> DEFINE booked == record_bad_debt(n.pool, -equity)
           buffer_cut == BpsOf(pos.collateral, Config.insurance_buffer_share_bps)
           received == credit_vault_receipt(TransferIn(booked, pos.collateral),
                                            pos.collateral - buffer_cut)
           pool == fund_vault_buffer(received, buffer_cut)
           cash == n.cash - pos.collateral
           q == SeizeBankrupt(n, pos, equity)
<1>0. q = [n EXCEPT !.pool = pool, !.cash = cash]
  BY DEF SeizeBankrupt, MarketOK, MoneyOK, MarketFields
<1> HIDE DEF buffer_cut, cash
<1>1. Reserves(n.pool, n.pool.reserved_payout)
  BY PoolReserves
<1>2. Reserves(booked, n.pool.reserved_payout)
  BY <1>1, ReservesKept
<1> HIDE DEF booked
<1>3. Reserves(TransferIn(booked, pos.collateral), n.pool.reserved_payout)
  BY <1>2, ReservesKept
<1>4. Reserves(received, n.pool.reserved_payout)
  BY <1>3, ReservesKept
<1> HIDE DEF received
<1>5. Reserves(pool, n.pool.reserved_payout)
  BY <1>4, ReservesKept
<1> HIDE DEF pool, q
<1>6. /\ q.pool = pool /\ q.exposure = n.exposure
      /\ q.total_long = n.total_long /\ q.total_short = n.total_short
  BY <1>0 DEF MarketOK, MoneyOK, MarketFields
<1> QED
  BY <1>5, <1>6 DEF AccountsKept, Reserves, q

LEMMA LiquidateBooks ==
  ASSUME NEW n, MarketOK(n), Books(n), NEW id \in DOMAIN n.positions, NEW mark \in Nat,
         NEW cum \in Int
  PROVE  Books(LiquidateFull(n, id, mark, cum))
<1> DEFINE pos == n.positions[id]
           equity == Equity(pos, mark, cum)
           a == IF equity > 0 THEN SeizeSolvent(n, pos, equity) ELSE SeizeBankrupt(n, pos, equity)
           b == DecreaseOi(a, pos.asset, pos.dir, pos.size, pos.entry, mark)
           c == cancel_position_orders(b, id, 0)
           d == delete_position(c, id)
           topup == Config.min_liq_bounty - KeeperCut(pos, equity)
           pool == IF topup > 0 THEN pay_bounty(d.pool, topup) ELSE d.pool
           q == LiquidateFull(n, id, mark, cum)
<1>q. MarketOK(q)
  BY LiquidateMoves
<1>1. /\ RowOK(pos) /\ pos.asset \in Assets /\ pos.size \in Nat
      /\ pos.collateral \in Nat /\ pos.entry \in Nat \ {0}
  BY RowFacts
<1>2. equity \in Int
  <2>1. NetPnl(pos, pos.size, mark, cum) \in Int
    BY <1>1, NetPnlType
  <2> QED
    BY <1>1, <2>1 DEF Equity
<1>3. MoneyOnly(n, a) /\ MarketOK(a) /\ AccountsKept(n, a)
  <2> HIDE DEF pos, equity
  <2>1. CASE equity > 0
    BY <1>1, <1>2, <2>1, SolventMoves, SolventAccounts
  <2>2. CASE ~(equity > 0)
    BY <1>1, <1>2, <2>2, BankruptMoves, BankruptAccounts
  <2> QED
    BY <2>1, <2>2
<1>4. q = [d EXCEPT !.pool = IF topup > 0 THEN pay_bounty(@, topup) ELSE @]
  BY DEF LiquidateFull
<1> HIDE DEF topup, equity, pos
<1> HIDE DEF a
<1>5. /\ MarketOK(b) /\ SamePositions(a, b)
      /\ AccountsShrunk(a, b, pos.asset, pos.dir, pos.size, pos.entry)
  BY <1>1, <1>3, DecreaseOiMoves, DecreaseOiAccounts
<1> HIDE DEF b
<1>6. BookOnly(b, c) /\ MarketOK(c)
  BY <1>5, CancelAttached
<1> HIDE DEF c
<1>7. c.positions = n.positions
  BY <1>3, <1>5, <1>6 DEF SamePositions, BookOnly, MoneyOnly
<1>8. RowsOnly(c, d) /\ MarketOK(d) /\ RowGone(c, d, id)
  BY <1>6, <1>7, DeleteMoves
<1>9. q = [d EXCEPT !.pool = pool] /\ DOMAIN d = MarketFields
  <2>1. DOMAIN d = MarketFields
    BY <1>8 DEF RowsOnly
  <2> HIDE DEF d
  <2> QED
    BY <1>4, <2>1 DEF MarketFields
<1> HIDE DEF d
<1>10. Reserves(pool, d.pool.reserved_payout)
  BY <1>8, PoolReserves, ReservesKept
<1> HIDE DEF pool, q
<1>11. AccountsKept(d, q) /\ q.positions = d.positions
  BY <1>9, <1>10 DEF MarketFields, AccountsKept, Reserves
<1>12. AccountsKept(b, c) /\ AccountsKept(c, d)
  BY <1>6, <1>8, BookOnlyAccounts
<1>13. AccountsKept(b, q)
  BY <1>11, <1>12, AccountsTransitive
<1>14. AccountsShrunk(n, q, pos.asset, pos.dir, pos.size, pos.entry)
  <2>1. AccountsShrunk(n, b, pos.asset, pos.dir, pos.size, pos.entry)
    BY <1>3, <1>5, AccountsTransitive
  <2> QED
    BY <1>13, <2>1, AccountsTransitive
<1>15. RowLoses(n, q, id, pos.size)
  <2>1. /\ DOMAIN q.positions = DOMAIN n.positions \ {id}
        /\ \A i \in DOMAIN n.positions \ {id} : q.positions[i] = n.positions[i]
    BY <1>7, <1>8, <1>11 DEF RowGone
  <2>2. RowMoved(n, q, id)
    BY <2>1 DEF RowMoved
  <2> QED
    BY <1>1, <2>1, <2>2 DEF RowLoses, SizeAt, pos
<1> QED
  BY <1>q, <1>14, <1>15, Shrinks DEF MarketOK, pos, q

(* Netting closes legs that are still open. *)
LEMMA LegBooks ==
  ASSUME NEW n, MarketOK(n), NEW S \in SUBSET DOMAIN n.positions, NEW q, Books(q),
         NEW k \in 1..4, NEW gone, Closed(n, q, gone), LegsBefore(S, k, gone),
         NEW mark \in Nat, NEW cum \in Int
  PROVE  Books(CloseLeg(q, S, k, mark, cum))
<1>1. S \in SUBSET Nat /\ IsFiniteSet(S) /\ Cardinality(S) \in Nat
  <2>1. DOMAIN n.positions \subseteq Nat /\ IsFiniteSet(DOMAIN n.positions)
    BY PositionsFinite DEF MarketOK, PositionsOK
  <2> QED
    BY <2>1, FS_Subset, FS_CardinalityType
<1>2. CASE k <= Cardinality(S)
  <2> DEFINE id == Leg(S, k)
  <2>1. id \in S /\ \A h \in 1..4 : h < k => Leg(S, h) # id
    BY <1>1, <1>2, LegFacts
  <2>2. CloseLeg(q, S, k, mark, cum) = settle_isolated_close(q, id, mark, cum, 0, 0)
    BY <1>2 DEF CloseLeg
  <2>3. id \notin gone
    BY <2>1 DEF LegsBefore
  <2>4. MarketOK(q) /\ id \in DOMAIN q.positions
    BY <2>1, <2>3 DEF Closed
  <2> HIDE DEF id
  <2> QED
    BY <2>2, <2>4, CloseBooks
<1>3. CASE ~(k <= Cardinality(S))
  BY <1>3 DEF CloseLeg
<1> QED
  BY <1>2, <1>3

LEMMA NettingBooks ==
  ASSUME NEW n, MarketOK(n), Books(n), NEW S \in SUBSET DOMAIN n.positions,
         NEW mark \in Nat, NEW cum \in Int
  PROVE  Books(CloseLegs(n, S, mark, cum))
<1> DEFINE By(q, k) == Books(q) /\ \E gone : Closed(n, q, gone) /\ LegsBefore(S, k, gone)
           a == CloseLeg(n, S, 1, mark, cum)
           b == CloseLeg(a, S, 2, mark, cum)
           c == CloseLeg(b, S, 3, mark, cum)
           d == CloseLeg(c, S, 4, mark, cum)
<1>1. By(n, 1)
  <2>1. Closed(n, n, {})
    BY DEF Closed, NoGrowth, MarketOK, BooksOK, OpenInterestOf
  <2> QED
    BY <2>1 DEF LegsBefore
<1>2. ASSUME NEW q, NEW k \in 1..4, By(q, k)
      PROVE  By(CloseLeg(q, S, k, mark, cum), k + 1)
  <2>1. PICK gone : Closed(n, q, gone) /\ LegsBefore(S, k, gone)
    BY <1>2
  <2>2. Books(CloseLeg(q, S, k, mark, cum))
    BY <1>2, <2>1, LegBooks
  <2>3. \E all : /\ Closed(n, CloseLeg(q, S, k, mark, cum), all)
                 /\ LegsBefore(S, k + 1, all)
    BY <2>1, LegCloses
  <2> QED
    BY <2>2, <2>3
<1> HIDE DEF By
<1>3. By(a, 1 + 1)
  BY <1>1, <1>2
<1>4. By(b, 2 + 1)
  <2> HIDE DEF a
  <2> QED
    BY <1>2, <1>3
<1>5. By(c, 3 + 1)
  <2> HIDE DEF b
  <2> QED
    BY <1>2, <1>4
<1>6. By(d, 4 + 1)
  <2> HIDE DEF c
  <2> QED
    BY <1>2, <1>5
<1>7. CloseLegs(n, S, mark, cum) = d
  BY DEF CloseLegs
<1> HIDE DEF d
<1> QED
  BY <1>6, <1>7 DEF By

-----------------------------------------------------------------------------
(* Opening: the reservation comes first, the row and its totals after it.    *)

(* The vault has reserved for a row that is still to come. *)
ReservedFor(n, r, size) ==
  /\ SamePositions(n, r)
  /\ r.pool.reserved_payout = n.pool.reserved_payout + size
  /\ r.total_long = n.total_long /\ r.total_short = n.total_short
  /\ r.exposure = n.exposure

LEMMA OpenBooks ==
  ASSUME NEW n, MarketOK(n), Books(n), NEW pos, RowOK(pos), NEW r, MarketOK(r),
         ReservedFor(n, r, pos.size), NEW fee \in Nat, NEW payout \in Nat
  PROVE  Books(finalize_open(r, pos, fee, payout))
<1> DEFINE id == r.position_counter + 1
           a == StorePosition(r, pos)
           b == IncreaseOi(a, pos.asset, pos.dir, pos.size, pos.entry)
           cut == BpsOf(fee, Config.protocol_fee_bps)
           rest == cut - Least(payout, cut)
           routed == IF rest > 0
                       THEN route_protocol_fee(TransferIn(b.pool, rest), VaultConfig, rest)
                       ELSE b.pool
           pool == credit_vault_receipt(TransferIn(routed, fee - cut), fee - cut)
           q == finalize_open(r, pos, fee, payout)
<1>q. MarketOK(q)
  BY OpenMoves
<1>1. /\ pos.asset \in Assets /\ pos.size \in Nat /\ pos.entry \in Nat \ {0}
  BY DEF RowOK, PositionOK
<1>2. /\ RowsOnly(r, a) /\ MarketOK(a)
  BY StoreMoves
<1>3. a.positions = [i \in DOMAIN r.positions \cup {id} |->
                       IF i = id THEN pos ELSE r.positions[i]]
  BY DEF StorePosition, MarketOK, MoneyOK, MarketFields
<1> HIDE DEF a
<1>4. /\ MarketOK(b) /\ SamePositions(a, b)
      /\ Reserves(b.pool, a.pool.reserved_payout)
      /\ TotalsGrown(a, b, pos.asset, pos.dir, pos.size, pos.entry)
  BY <1>1, <1>2, IncreaseOiMoves, IncreaseOiAccounts
<1>5. q = [b EXCEPT !.pool = pool, !.cash = b.cash - fee]
  BY <1>4 DEF finalize_open, MarketOK, MoneyOK, MarketFields, a
<1> HIDE DEF b, cut, rest
<1>6. Reserves(pool, a.pool.reserved_payout)
  <2>1. Reserves(TransferIn(b.pool, rest), a.pool.reserved_payout)
    BY <1>4, ReservesKept
  <2>2. Reserves(routed, a.pool.reserved_payout)
    BY <1>4, <2>1, ReservesKept
  <2> HIDE DEF routed
  <2>3. Reserves(TransferIn(routed, fee - cut), a.pool.reserved_payout)
    BY <2>2, ReservesKept
  <2> QED
    BY <2>3, ReservesKept
<1> HIDE DEF pool, q
<1>7. /\ q.pool = pool /\ q.positions = b.positions /\ q.exposure = b.exposure
      /\ q.total_long = b.total_long /\ q.total_short = b.total_short
  BY <1>4, <1>5 DEF MarketOK, MoneyOK, MarketFields
<1>8. /\ a.pool = r.pool /\ a.total_long = r.total_long /\ a.total_short = r.total_short
      /\ a.exposure = r.exposure
  BY <1>2 DEF RowsOnly, SameMoney, SameBooks
<1>9. AccountsGrown(n, q, pos.asset, pos.dir, pos.size, pos.entry)
  <2>1. q.pool.reserved_payout = n.pool.reserved_payout + pos.size
    BY <1>6, <1>7, <1>8 DEF Reserves, ReservedFor
  <2>2. TotalsGrown(n, q, pos.asset, pos.dir, pos.size, pos.entry)
    BY <1>4, <1>7, <1>8, Zenon DEF TotalsGrown, ReservedFor
  <2> QED
    BY <2>1, <2>2 DEF AccountsGrown
<1>10. id \notin DOMAIN n.positions
  <2>1. DOMAIN n.positions \subseteq 1..n.position_counter /\ n.position_counter \in Nat
    BY DEF MarketOK, PositionsOK
  <2> QED
    BY <2>1 DEF ReservedFor, SamePositions
<1>11. q.positions = [i \in DOMAIN n.positions \cup {id} |->
                        IF i = id THEN pos ELSE n.positions[i]]
  BY <1>3, <1>4, <1>7 DEF SamePositions, ReservedFor
<1> HIDE DEF id
<1>12. /\ id \in DOMAIN q.positions /\ q.positions[id] = pos
       /\ DOMAIN q.positions = DOMAIN n.positions \cup {id}
       /\ \A i \in DOMAIN n.positions \ {id} : q.positions[i] = n.positions[i]
  BY <1>11
<1>13. RowGained(n, q, id)
  BY <1>10, <1>12 DEF RowGained, RowMoved
<1> QED
  BY <1>q, <1>9, <1>12, <1>13, Grows DEF MarketOK, q

-----------------------------------------------------------------------------
(* The transactions.  Most of those on orders touch neither rows nor books.  *)

SamePages(n, q) == q.positions = n.positions /\ AccountsKept(n, q)

LEMMA PagesKept ==
  ASSUME NEW n, Books(n), NEW q, SamePages(n, q)
  PROVE  Books(q)
<1>1. SameRows(n, q)
  BY DEF SamePages, SameRows
<1> QED
  BY <1>1, Footing DEF SamePages

LEMMA PagesTransitive ==
  ASSUME NEW n, NEW b, NEW q, SamePages(n, b), SamePages(b, q)
  PROVE  SamePages(n, q)
BY DEF SamePages, AccountsKept

LEMMA BookOnlyPages ==
  ASSUME NEW n, NEW q, BookOnly(n, q)
  PROVE  SamePages(n, q)
BY BookOnlyAccounts DEF SamePages

LEMMA MoneyPages ==
  ASSUME NEW n, MarketOK(n), NEW q
  PROVE  /\ \A cash : q = [n EXCEPT !.cash = cash] => SamePages(n, q)
         /\ \A pool : q = [n EXCEPT !.pool = pool]
                        /\ Reserves(pool, n.pool.reserved_payout) => SamePages(n, q)
BY DEF MarketOK, MoneyOK, MarketFields, SamePages, AccountsKept, Reserves

LEMMA StatusPages ==
  ASSUME NEW n, MarketOK(n), NEW ids, NEW status \in FinalStatuses
  PROVE  SamePages(n, update_order_status(n, ids, status))
BY UpdateStatus, BookOnlyPages

LEMMA PeakPages ==
  ASSUME NEW n, MarketOK(n), NEW o, NEW price
  PROVE  SamePages(n, WithPeak(n, o, price))
BY PeakBook, BookOnlyPages

LEMMA DropPeaksPages ==
  ASSUME NEW n, MarketOK(n), NEW ids
  PROVE  SamePages(n, DropPeaks(n, ids)) /\ MarketOK(DropPeaks(n, ids))
BY DropPeaksBook, BookOnlyPages

(* Placing. *)
LEMMA PlacedPages ==
  ASSUME NEW n, MarketOK(n), NEW cash \in Int, NEW order
  PROVE  SamePages(n, StoreOrder([n EXCEPT !.cash = cash], order))
<1> DEFINE a == [n EXCEPT !.cash = cash]
           q == StoreOrder(a, order)
<1>1. MarketOK(a) /\ SamePages(n, a)
  BY CashMoves, MoneyPages
<1> HIDE DEF a
<1>2. BookOnly(a, q)
  BY <1>1, StoreOrderBook
<1> HIDE DEF q
<1>3. SamePages(n, q)
  BY <1>1, <1>2, BookOnlyPages, PagesTransitive
<1> QED
  BY <1>3 DEF a, q

(* Leaving the book unfilled. *)
LEMMA WithdrawnPages ==
  ASSUME MarketOK(m), NEW o \in DOMAIN m.orders, NEW status \in FinalStatuses
  PROVE  SamePages(m, WithdrawnOrder(o, status))
<1> DEFINE order == m.orders[o]
           a == IF order.type = "TrailingStop" THEN DropPeaks(m, {o}) ELSE m
           b == IF order.type \in CloseTypes
                  THEN DropLink(a, order.type, order.position_id) ELSE a
           c == update_order_status(b, {o}, status)
           cash == c.cash - Refund(order)
           q == WithdrawnOrder(o, status)
<1>1. MarketOK(a) /\ SamePages(m, a)
  <2>1. SamePages(m, m)
    BY DEF SamePages, AccountsKept
  <2> QED
    BY <2>1, DropPeaksPages
<1>0. q = [c EXCEPT !.cash = @ - Refund(order)]
  BY DEF WithdrawnOrder
<1> HIDE DEF a
<1>2. MarketOK(b) /\ SamePages(a, b)
  <2>1. CASE order.type \in CloseTypes
    BY <1>1, <2>1, DropLinkBook, BookOnlyPages
  <2>2. CASE order.type \notin CloseTypes
    BY <1>1, <2>2 DEF SamePages, AccountsKept
  <2> QED
    BY <2>1, <2>2
<1> HIDE DEF b
<1>3. MarketOK(c) /\ SamePages(b, c)
  BY <1>2, UpdateStatus, BookOnlyPages
<1> HIDE DEF c
<1>4. q = [c EXCEPT !.cash = cash]
  BY <1>0, <1>3 DEF MarketOK, MoneyOK, MarketFields
<1> HIDE DEF cash, q
<1>5. SamePages(c, q)
  BY <1>3, <1>4, MoneyPages
<1>6. SamePages(m, c)
  BY <1>1, <1>2, <1>3, PagesTransitive
<1> QED
  BY <1>5, <1>6, PagesTransitive DEF q

-----------------------------------------------------------------------------
(* Positions. *)

LEMMA CloseKeepsBooks ==
  ASSUME MInv, Books(m), NEW id \in DOMAIN m.positions, NEW mark \in Prices,
         ClosePosition(id, mark)
  PROVE  Books(m')
<1> DEFINE cum == cum_funding[m.positions[id].asset]
           q == settle_isolated_close(m, id, mark, cum, 0, 0)
<1>1. mark \in Nat /\ MarketOK(m) /\ cum \in Int
  BY StateFacts, InputTypes
<1>2. m' = q
  BY DEF ClosePosition, Commit
<1> HIDE DEF cum
<1>3. Books(q)
  BY <1>1, CloseBooks
<1> HIDE DEF q
<1> QED
  BY <1>2, <1>3

LEMMA PartialKeepsBooks ==
  ASSUME MInv, Books(m), NEW id \in DOMAIN m.positions, NEW size \in CloseSizes,
         NEW mark \in Prices, ClosePositionPartial(id, size, mark)
  PROVE  Books(m')
<1> DEFINE pos == m.positions[id]
           cum == cum_funding[pos.asset]
           q == settle_isolated_close(m, id, mark, cum, 0, 0)
           r == settle_partial_close(m, id, mark, cum, size, 0)
<1>1. mark \in Nat /\ MarketOK(m) /\ cum \in Int /\ size \in Nat
  BY StateFacts, InputTypes
<1>2. CASE m' = q
  <2> HIDE DEF cum
  <2>1. Books(q)
    BY <1>1, CloseBooks
  <2> HIDE DEF q
  <2> QED
    BY <1>2, <2>1
<1>3. CASE /\ size < pos.size
           /\ pos.collateral - CollateralClosed(pos, size) >= Config.min_collateral
           /\ m' = r
  <2>1. pos.collateral - CollateralClosed(pos, size) > 0
    <3>1. /\ CollateralClosed(pos, size) \in Nat /\ pos.collateral \in Nat
          /\ Config.min_collateral \in Nat \ {0}
      <4>1. RowOK(pos) /\ pos.size \in Nat /\ pos.collateral \in Nat
        BY <1>1, RowFacts
      <4> HIDE DEF pos
      <4> QED
        BY <1>1, <1>3, <4>1, CollateralClosedRange, MarginValues
    <3> QED
      BY <1>3, <3>1
  <2>2. Books(r)
    BY <1>1, <1>3, <2>1, PartialBooks
  <2> HIDE DEF r
  <2> QED
    BY <1>3, <2>2
<1> QED
  BY <1>2, <1>3 DEF ClosePositionPartial, Commit

(* Collateral is in none of the books. *)
LEMMA RemarginKeepsBooks ==
  ASSUME MInv, Books(m), NEW id \in DOMAIN m.positions, NEW collateral, NEW cash,
         m' = [m EXCEPT !.cash = cash, !.positions = Remargined(id, collateral)]
  PROVE  Books(m')
<1> DEFINE pos == m.positions[id]
           liq == Floor0(liquidation_price_from_ratio(pos.entry, collateral, pos.size,
                                                      pos.dir, mm_bps_for(pos)))
           row == [pos EXCEPT !.collateral = collateral, !.liq = liq]
           rows == Remargined(id, collateral)
<1>1. MarketOK(m) /\ DOMAIN m = MarketFields
  BY StateFacts DEF MarketOK, MoneyOK
<1>2. rows = [m.positions EXCEPT ![id] = row]
  BY DEF Remargined
<1>3. RowOK(pos)
  BY <1>1, RowFacts
<1> HIDE DEF pos, liq
<1>4. /\ row.size = pos.size /\ row.entry = pos.entry /\ row.asset = pos.asset
      /\ row.dir = pos.dir
  BY <1>3 DEF RowOK, PositionFields
<1> HIDE DEF row, rows
<1>5. m'.positions = rows /\ AccountsKept(m, m')
  BY <1>1 DEF MarketFields, AccountsKept, rows
<1>6. SameRows(m, m')
  BY <1>2, <1>4, <1>5 DEF SameRows, pos
<1> QED
  BY <1>5, <1>6, Footing

LEMMA AddKeepsBooks ==
  ASSUME MInv, Books(m), NEW id \in DOMAIN m.positions, NEW amount, AddCollateral(id, amount)
  PROVE  Books(m')
<1> DEFINE c == m.positions[id].collateral + amount
           cash == m.cash + amount
<1>1. DOMAIN m = MarketFields
  BY StateFacts DEF MarketOK, MoneyOK
<1>2. m' = [m EXCEPT !.cash = cash, !.positions = Remargined(id, c)]
  BY <1>1 DEF AddCollateral, Commit, MarketFields
<1> HIDE DEF c, cash
<1> QED
  BY <1>2, RemarginKeepsBooks

LEMMA RemoveKeepsBooks ==
  ASSUME MInv, Books(m), NEW id \in DOMAIN m.positions, NEW amount, NEW mark,
         RemoveCollateral(id, amount, mark)
  PROVE  Books(m')
<1> DEFINE c == m.positions[id].collateral - amount
           cash == m.cash - amount
<1>1. DOMAIN m = MarketFields
  BY StateFacts DEF MarketOK, MoneyOK
<1>2. m' = [m EXCEPT !.cash = cash, !.positions = Remargined(id, c)]
  BY <1>1 DEF RemoveCollateral, Commit, MarketFields
<1> HIDE DEF c, cash
<1> QED
  BY <1>2, RemarginKeepsBooks

LEMMA LiquidateKeepsBooks ==
  ASSUME MInv, Books(m), NEW id \in DOMAIN m.positions, NEW mark \in Prices, NEW smoothed,
         Liquidate(id, mark, smoothed)
  PROVE  Books(m')
<1> DEFINE pos == m.positions[id]
           cum == cum_funding[pos.asset]
           mm_bps == mm_bps_for(pos)
           q == LiquidateTranche(m, id, mark, cum, mm_bps, now)
           r == LiquidateFull(m, id, mark, cum)
<1>1. /\ mark \in Nat /\ MarketOK(m) /\ cum \in Int /\ mm_bps \in Nat /\ now \in Nat
  BY StateFacts, InputTypes, RiskValues
<1>2. \/ TakesTranche(pos, NetPnl(pos, pos.size, mark, cum)) /\ m' = q
      \/ m' = r
  BY DEF Liquidate, Commit
<1> HIDE DEF cum, mm_bps
<1>3. CASE TakesTranche(pos, NetPnl(pos, pos.size, mark, cum)) /\ m' = q
  <2>1. Books(q)
    BY <1>1, <1>3, TrancheBooks
  <2> HIDE DEF q
  <2> QED
    BY <1>3, <2>1
<1>4. CASE m' = r
  <2>1. Books(r)
    BY <1>1, LiquidateBooks
  <2> HIDE DEF r
  <2> QED
    BY <1>4, <2>1
<1> QED
  BY <1>2, <1>3, <1>4

LEMMA AdlCloseKeepsBooks ==
  ASSUME MInv, Books(m), NEW id \in DOMAIN m.positions, NEW mark \in Prices, AdlClose(id, mark)
  PROVE  Books(m')
<1> DEFINE pos == m.positions[id]
           cum == cum_funding[pos.asset]
           closed == settle_isolated_close(m, id, mark, cum, 0, 0)
           comp == BpsOf(pos.size, Config.adl_compensation_bps)
           pool == IF comp > 0 THEN pay_from_buffer(closed.pool, comp) ELSE closed.pool
           q == [closed EXCEPT !.pool = pool]
<1>1. mark \in Nat /\ MarketOK(m) /\ cum \in Int
  BY StateFacts, InputTypes
<1>2. m' = [closed EXCEPT !.pool = IF comp > 0 THEN pay_from_buffer(@, comp) ELSE @]
  BY DEF AdlClose, Commit
<1> HIDE DEF comp, cum
<1>3. MarketOK(closed) /\ Books(closed)
  BY <1>1, CloseMoves, CloseBooks
<1> HIDE DEF closed
<1>4. m' = q
  BY <1>2, <1>3 DEF MarketOK, MoneyOK, MarketFields
<1>5. Reserves(pool, closed.pool.reserved_payout)
  BY <1>3, PoolReserves, ReservesKept
<1> HIDE DEF pool
<1>6. SamePages(closed, q)
  BY <1>3, <1>5, MoneyPages
<1> HIDE DEF q
<1> QED
  BY <1>3, <1>4, <1>6, PagesKept

(* The vault's other users touch no reservation, and neither does the flag.  *)
LEMMA PoolKeepsBooks ==
  ASSUME MInv, Books(m), NEW pool, Reserves(pool, m.pool.reserved_payout),
         m' = [m EXCEPT !.pool = pool]
  PROVE  Books(m')
BY StateFacts, MoneyPages, PagesKept

LEMMA SyncKeepsBooks ==
  ASSUME MInv, Books(m), NEW a, NEW mark, SyncAssetPnl(a, mark)
  PROVE  Books(m')
<1> DEFINE pnl == exposure_upnl(m.exposure[a], mark)
           pool == sync_exposure(m.pool, a, pnl, 0)
<1>1. MarketOK(m) /\ DOMAIN m = MarketFields
  BY StateFacts DEF MarketOK, MoneyOK
<1>2. m' = [m EXCEPT !.pool = pool]
  BY <1>1 DEF SyncAssetPnl, Commit, MarketFields
<1> HIDE DEF pnl
<1>3. Reserves(pool, m.pool.reserved_payout)
  BY <1>1, PoolReserves, ReservesKept
<1> HIDE DEF pool
<1> QED
  BY <1>2, <1>3, PoolKeepsBooks

LEMMA VaultKeepsBooks ==
  ASSUME MInv, Books(m), VaultStep
  PROVE  Books(m')
<1>1. MarketOK(m) /\ DOMAIN m = MarketFields
  BY StateFacts DEF MarketOK, MoneyOK
<1>2. Reserves(m.pool, m.pool.reserved_payout)
  BY <1>1, PoolReserves
<1>3. ASSUME NEW t \in Traders, ClaimShortfall(t)
      PROVE  Books(m')
  <2> DEFINE pool == claim_shortfall(m.pool, t)
  <2>1. m' = [m EXCEPT !.pool = pool]
    BY <1>1, <1>3 DEF ClaimShortfall, Commit, MarketFields
  <2>2. Reserves(pool, m.pool.reserved_payout)
    BY <1>2, ReservesKept
  <2> HIDE DEF pool
  <2> QED
    BY <2>1, <2>2, PoolKeepsBooks
<1>4. ASSUME NEW noe \in NoeAmounts, LpWithdraw(noe)
      PROVE  Books(m')
  <2> DEFINE gross == calculate_usdc_for_withdrawal(noe, m.pool)
             pool == Withdrawn(m.pool, VaultConfig, gross, noe)
  <2>1. m' = [m EXCEPT !.pool = pool]
    BY <1>1, <1>4 DEF LpWithdraw, Commit, MarketFields
  <2> HIDE DEF gross
  <2>2. Reserves(pool, m.pool.reserved_payout)
    BY <1>2, ReservesKept
  <2> HIDE DEF pool
  <2> QED
    BY <2>1, <2>2, PoolKeepsBooks
<1> QED
  BY <1>3, <1>4 DEF VaultStep

LEMMA AdlFlagKeepsBooks ==
  ASSUME MInv, Books(m), NEW a, NEW mark, CheckAdlTrigger(a, mark)
  PROVE  Books(m')
<1> DEFINE adl == [m.adl EXCEPT ![a] = AdlAfterCheck(a, mark)]
<1>1. DOMAIN m = MarketFields
  BY StateFacts DEF MarketOK, MoneyOK
<1>2. m' = [m EXCEPT !.adl = adl]
  BY DEF CheckAdlTrigger, Commit
<1> HIDE DEF adl
<1>3. SamePages(m, m')
  BY <1>1, <1>2 DEF MarketFields, SamePages, AccountsKept
<1> QED
  BY <1>3, PagesKept

(* Reseeding rewrites the rows' funding index only. *)
LEMMA ReseedKeepsBooks ==
  ASSUME MInv, Books(m), NEW ids, ReseedFunding(ids)
  PROVE  Books(m')
<1> DEFINE Row(i) == [m.positions[i] EXCEPT !.entry_cum = cum_funding[m.positions[i].asset]]
           rows == [i \in DOMAIN m.positions |-> IF i \in ids THEN Row(i) ELSE m.positions[i]]
<1>1. MarketOK(m) /\ DOMAIN m = MarketFields
  BY StateFacts DEF MarketOK, MoneyOK
<1>2. m' = [m EXCEPT !.positions = rows]
  BY DEF ReseedFunding, Commit
<1>3. \A i \in DOMAIN m.positions :
        /\ Row(i).size = m.positions[i].size /\ Row(i).entry = m.positions[i].entry
        /\ Row(i).asset = m.positions[i].asset /\ Row(i).dir = m.positions[i].dir
  <2>1. \A i \in DOMAIN m.positions : DOMAIN m.positions[i] = PositionFields
    BY <1>1 DEF MarketOK, PositionsOK, RowOK
  <2> QED
    BY <2>1 DEF PositionFields
<1> HIDE DEF Row
<1>4. /\ DOMAIN rows = DOMAIN m.positions
      /\ \A i \in DOMAIN m.positions :
           /\ rows[i].size = m.positions[i].size /\ rows[i].entry = m.positions[i].entry
           /\ rows[i].asset = m.positions[i].asset /\ rows[i].dir = m.positions[i].dir
  BY <1>3
<1> HIDE DEF rows
<1>5. m'.positions = rows /\ AccountsKept(m, m')
  BY <1>1, <1>2 DEF MarketFields, AccountsKept
<1>6. SameRows(m, m')
  BY <1>4, <1>5 DEF SameRows
<1> QED
  BY <1>5, <1>6, Footing

-----------------------------------------------------------------------------
(* Orders. *)

LEMMA LimitKeepsBooks ==
  ASSUME MInv, Books(m), NEW t, NEW a, NEW dir, NEW c \in Collaterals, NEW lev, NEW trigger,
         NEW above, NEW tol, NEW tif, NEW ro, NEW mark,
         PlaceLimitOrder(t, a, dir, c, lev, trigger, above, tol, tif, ro, mark)
  PROVE  Books(m')
<1> DEFINE order == EntryOrder(t, a, "LimitEntry", dir, c, lev, trigger, above, 0, tol, ro)
           gone == [order EXCEPT !.status = "Cancelled"]
           rows == Append(m.orders, gone)
           cash == m.cash + c
           q == [m EXCEPT !.orders = rows]
           r == StoreOrder([m EXCEPT !.cash = cash], order)
<1>1. MarketOK(m) /\ DOMAIN m = MarketFields /\ cash \in Int
  BY StateFacts, InputTypes DEF MarketOK, MoneyOK
<1>2. \/ m' = [m EXCEPT !.orders = Append(@, gone)]
      \/ m' = StoreOrder([m EXCEPT !.cash = @ + c], order)
  BY DEF PlaceLimitOrder, Commit
<1> HIDE DEF order, gone
<1>3. m' = q \/ m' = r
  BY <1>1, <1>2 DEF MarketFields
<1> HIDE DEF rows, cash
<1>4. SamePages(m, q)
  BY <1>1 DEF MarketFields, SamePages, AccountsKept
<1>5. SamePages(m, r)
  BY <1>1, PlacedPages
<1> HIDE DEF q, r
<1> QED
  BY <1>3, <1>4, <1>5, PagesKept

LEMMA StopLimitKeepsBooks ==
  ASSUME MInv, Books(m), NEW t, NEW a, NEW dir, NEW c \in Collaterals, NEW lev, NEW trigger,
         NEW limit, NEW above, NEW tol, NEW ro,
         PlaceStopLimitOrder(t, a, dir, c, lev, trigger, limit, above, tol, ro)
  PROVE  Books(m')
<1> DEFINE order == EntryOrder(t, a, "StopLimit", dir, c, lev, trigger, above, limit, tol, ro)
           cash == m.cash + c
           r == StoreOrder([m EXCEPT !.cash = cash], order)
<1>1. MarketOK(m) /\ DOMAIN m = MarketFields /\ cash \in Int
  BY StateFacts, InputTypes DEF MarketOK, MoneyOK
<1>2. m' = StoreOrder([m EXCEPT !.cash = @ + c], order)
  BY DEF PlaceStopLimitOrder, Commit
<1> HIDE DEF order
<1>3. m' = r
  BY <1>1, <1>2 DEF MarketFields
<1> HIDE DEF cash
<1>4. SamePages(m, r)
  BY <1>1, PlacedPages
<1> HIDE DEF r
<1> QED
  BY <1>3, <1>4, PagesKept

LEMMA AttachedPages ==
  ASSUME MarketOK(m), NEW id, NEW type, NEW trigger, NEW above, NEW limit, NEW trail, NEW tol
  PROVE  SamePages(m, Attached(id, type, trigger, above, limit, trail, tol))
<1> DEFINE pos == m.positions[id]
           order == [trader |-> pos.trader, asset |-> pos.asset, type |-> type,
                     dir |-> pos.dir, collateral |-> 0, leverage |-> 0,
                     trigger |-> trigger, above |-> above, limit |-> limit,
                     trail |-> trail, tolerance |-> tol, reduce_only |-> FALSE,
                     phase |-> 0, position_id |-> id, status |-> "Pending"]
           a == StoreOrder(m, order)
           q == Attached(id, type, trigger, above, limit, trail, tol)
           links == a.links \cup {<<type, id, Len(m.orders) + 1>>}
<1>1. q = [a EXCEPT !.links = @ \cup {<<type, id, Len(m.orders) + 1>>}]
  BY DEF Attached
<1> HIDE DEF order, q
<1>2. BookOnly(m, a)
  BY StoreOrderBook
<1> HIDE DEF a
<1>3. q = [a EXCEPT !.links = links] /\ DOMAIN a = MarketFields
  BY <1>1, <1>2 DEF BookOnly, MarketFields
<1> HIDE DEF links
<1>4. SamePages(a, q)
  BY <1>3 DEF MarketFields, SamePages, AccountsKept
<1> QED
  BY <1>2, <1>4, BookOnlyPages, PagesTransitive DEF q

LEMMA AttachKeepsBooks ==
  ASSUME MInv, Books(m), NEW id \in DOMAIN m.positions, NEW tol \in Tolerances,
         \/ \E trigger \in Triggers : SetStopLoss(id, trigger, tol)
         \/ \E trigger \in Triggers, limit \in Triggers \cup {0} :
              SetTakeProfit(id, trigger, limit, tol)
         \/ \E trail \in Trails, mark \in Prices : PlaceTrailingStop(id, trail, tol, mark)
  PROVE  Books(m')
<1>1. MarketOK(m)
  BY StateFacts
<1>2. ASSUME NEW trigger \in Triggers, SetStopLoss(id, trigger, tol)
      PROVE  Books(m')
  <2> DEFINE q == Attached(id, "StopLoss", trigger, m.positions[id].dir = "Short", 0, 0, tol)
  <2>1. m' = q
    BY <1>2 DEF SetStopLoss, Commit
  <2>2. SamePages(m, q)
    BY <1>1, AttachedPages
  <2> HIDE DEF q
  <2> QED
    BY <2>1, <2>2, PagesKept
<1>3. ASSUME NEW trigger \in Triggers, NEW limit \in Triggers \cup {0},
             SetTakeProfit(id, trigger, limit, tol)
      PROVE  Books(m')
  <2> DEFINE q == Attached(id, "TakeProfit", trigger, m.positions[id].dir = "Long", limit,
                           0, tol)
  <2>1. m' = q
    BY <1>3 DEF SetTakeProfit, Commit
  <2>2. SamePages(m, q)
    BY <1>1, AttachedPages
  <2> HIDE DEF q
  <2> QED
    BY <2>1, <2>2, PagesKept
<1>4. ASSUME NEW trail \in Trails, NEW mark \in Prices, PlaceTrailingStop(id, trail, tol, mark)
      PROVE  Books(m')
  <2> DEFINE above == m.positions[id].dir = "Short"
             a == Attached(id, "TrailingStop", 0, above, 0, trail, tol)
             o == Len(m.orders) + 1
             q == WithPeak(a, o, mark)
  <2>1. m' = q
    BY <1>4 DEF PlaceTrailingStop, Commit
  <2>2. "TrailingStop" \in CloseTypes /\ trail \in Nat /\ tol \in Nat /\ above \in BOOLEAN
    BY OrderInputs DEF CloseTypes
  <2> HIDE DEF above, o
  <2>3. MarketOK(a)
    BY <2>2, AttachMoves
  <2>4. SamePages(m, a)
    BY <1>1, AttachedPages
  <2> HIDE DEF a
  <2>5. SamePages(a, q)
    BY <2>3, PeakPages
  <2> HIDE DEF q
  <2> QED
    BY <2>1, <2>4, <2>5, PagesTransitive, PagesKept
<1> QED
  BY <1>2, <1>3, <1>4

LEMMA PeakKeepsBooks ==
  ASSUME MInv, Books(m), NEW o, NEW mark, UpdateTrailingPeak(o, mark)
  PROVE  Books(m')
<1>1. m' = WithPeak(m, o, mark)
  BY DEF UpdateTrailingPeak, Commit
<1>2. SamePages(m, WithPeak(m, o, mark))
  BY StateFacts, PeakPages
<1> QED
  BY <1>1, <1>2, PagesKept

LEMMA CancelKeepsBooks ==
  ASSUME MInv, Books(m), NEW o \in DOMAIN m.orders,
         \/ CancelOrder(o)
         \/ \E mark, smoothed : ExecuteOutOfBand(o, mark, smoothed)
  PROVE  Books(m')
<1>1. \E status \in FinalStatuses : m' = WithdrawnOrder(o, status)
  BY DEF CancelOrder, ExecuteOutOfBand, Commit, FinalStatuses
<1>2. PICK status \in FinalStatuses : m' = WithdrawnOrder(o, status)
  BY <1>1
<1>3. SamePages(m, WithdrawnOrder(o, status))
  BY StateFacts, WithdrawnPages
<1> QED
  BY <1>2, <1>3, PagesKept

LEMMA StopPhaseKeepsBooks ==
  ASSUME MInv, Books(m), NEW o, NEW mark, ExecuteStopPhase(o, mark)
  PROVE  Books(m')
<1> DEFINE rows == [m.orders EXCEPT ![o] = [m.orders[o] EXCEPT !.phase = 1]]
<1>1. DOMAIN m = MarketFields
  BY StateFacts DEF MarketOK, MoneyOK
<1>2. m' = [m EXCEPT !.orders = rows]
  BY DEF ExecuteStopPhase, Commit
<1> HIDE DEF rows
<1>3. SamePages(m, m')
  BY <1>1, <1>2 DEF MarketFields, SamePages, AccountsKept
<1> QED
  BY <1>3, PagesKept

(* Refunded, then marked as executed. *)
LEMMA RefundKeepsBooks ==
  ASSUME MInv, Books(m), NEW o \in DOMAIN m.orders, m.orders[o].status = "Pending",
         m' = update_order_status(WithdrawnOrder(o, "Cancelled"), {o}, "Executed")
  PROVE  Books(m')
<1> DEFINE a == WithdrawnOrder(o, "Cancelled")
           q == update_order_status(a, {o}, "Executed")
<1>1. "Cancelled" \in FinalStatuses /\ "Executed" \in FinalStatuses
  BY DEF FinalStatuses
<1>2. MarketOK(a)
  BY <1>1, StateFacts, WithdrawMoves
<1>3. SamePages(m, a)
  BY <1>1, StateFacts, WithdrawnPages
<1> HIDE DEF a
<1>4. SamePages(a, q)
  BY <1>1, <1>2, StatusPages
<1> HIDE DEF q
<1> QED
  BY <1>3, <1>4, PagesTransitive, PagesKept DEF q, a

LEMMA IllegalKeepsBooks ==
  ASSUME MInv, Books(m), NEW o \in DOMAIN m.orders, NEW mark, ExecuteIllegalEntry(o, mark)
  PROVE  Books(m')
<1>1. m.orders[o].status = "Pending"
  BY HeadFacts DEF ExecuteIllegalEntry, FillsEntry
<1>2. m' = update_order_status(WithdrawnOrder(o, "Cancelled"), {o}, "Executed")
  BY DEF ExecuteIllegalEntry, Commit
<1> QED
  BY <1>1, <1>2, RefundKeepsBooks

(* A fill: the vault reserves, the row and its totals follow, the order's    *)
(* row is rewritten.                                                         *)
LEMMA FillBooks ==
  ASSUME MInv, Books(m), NEW o \in DOMAIN m.orders,
         NEW pos, RowOK(pos), NEW fee \in Nat, NEW keeper_fee \in Nat, NEW payout \in Nat,
         NEW a, MarketOK(a), ReservedFor(m, a, pos.size), a.orders = m.orders
  PROVE  LET b == finalize_open(a, pos, fee, payout)
             c == [b EXCEPT !.cash = @ - keeper_fee,
                            !.orders = [b.orders EXCEPT
                               ![o] = [m.orders[o] EXCEPT !.position_id = b.position_counter]]]
         IN  Books(update_order_status(c, {o}, "Executed"))
<1> DEFINE order == m.orders[o]
           b == finalize_open(a, pos, fee, payout)
           c == [b EXCEPT !.cash = @ - keeper_fee,
                          !.orders = [b.orders EXCEPT
                             ![o] = [m.orders[o] EXCEPT !.position_id = b.position_counter]]]
           q == update_order_status(c, {o}, "Executed")
           row == [order EXCEPT !.position_id = b.position_counter]
           cash == b.cash - keeper_fee
           d == [b EXCEPT !.cash = cash]
<1>1. MarketOK(m) /\ order \in OrderRows
  BY StateFacts DEF MarketOK, OrdersOK
<1>2. MarketOK(b) /\ b.orders = m.orders /\ Books(b)
  BY <1>1, OpenMoves, OpenBooks
<1> HIDE DEF b
<1>3. cash \in Int /\ b.position_counter \in Nat
  BY <1>2, HeldTypes DEF MarketOK, PositionsOK
<1>4. MarketOK(d) /\ d.orders = b.orders /\ SamePages(b, d)
  BY <1>2, <1>3, CashMoves, MoneyPages
<1>5. /\ row \in OrderRows /\ row.type = order.type /\ row.status = order.status
      /\ row.collateral = order.collateral /\ row.leverage = order.leverage
  BY <1>1, <1>3 DEF OrderRows
<1>6. c = [d EXCEPT !.orders = [d.orders EXCEPT ![o] = row]]
  BY <1>2, <1>4 DEF MarketOK, MoneyOK, MarketFields
<1> HIDE DEF c, d, row, cash
<1>7. BookOnly(d, c) /\ MarketOK(c)
  <2>1. o \in DOMAIN d.orders /\ d.orders = m.orders /\ d.orders[o] = order
    BY <1>2, <1>4
  <2> HIDE DEF order
  <2> QED
    BY <1>4, <1>5, <1>6, <2>1, OrderRewritten
<1>8. SamePages(c, q)
  <2>1. "Executed" \in FinalStatuses
    BY DEF FinalStatuses
  <2> QED
    BY <1>7, <2>1, StatusPages
<1> HIDE DEF q
<1>9. SamePages(b, c)
  BY <1>4, <1>7, BookOnlyPages, PagesTransitive
<1>10. Books(q)
  BY <1>2, <1>8, <1>9, PagesTransitive, PagesKept
<1> QED
  BY <1>10 DEF b, c, q

(* What reserve_for_position does. *)
LEMMA ReservedRecord ==
  ASSUME NEW n, MarketOK(n), NEW size \in Nat, NEW r,
         r = [n EXCEPT !.pool = reserve_for_position(n.pool, size)]
  PROVE  ReservedFor(n, r, size)
<1> DEFINE pool == reserve_for_position(n.pool, size)
<1>1. pool.reserved_payout = n.pool.reserved_payout + size
  BY PoolReserves DEF reserve_for_position, Reserves
<1> HIDE DEF pool
<1>2. /\ SamePositions(n, r) /\ r.pool = pool /\ r.exposure = n.exposure
      /\ r.total_long = n.total_long /\ r.total_short = n.total_short
  BY DEF SamePositions, MarketOK, MoneyOK, MarketFields, pool
<1> QED
  BY <1>1, <1>2 DEF ReservedFor

LEMMA EntryKeepsBooks ==
  ASSUME MInv, Books(m), NEW o \in DOMAIN m.orders, NEW mark \in Prices, NEW fee \in Fees,
         NEW payout \in Payouts, ExecuteEntry(o, mark, fee, payout)
  PROVE  Books(m')
<1> DEFINE order == m.orders[o]
           size == calculate_position_size(order.collateral, order.leverage)
           keeper_fee == calculate_keeper_order_fee(size)
           left == order.collateral - fee - keeper_fee
           pool == reserve_for_position(m.pool, size)
           a == [m EXCEPT !.pool = pool]
           pos == NewPosition(order.trader, order.asset, order.dir, size, left,
                              order.leverage, mark)
           b == finalize_open(a, pos, fee, payout)
           c == [b EXCEPT !.cash = @ - keeper_fee,
                          !.orders = [b.orders EXCEPT
                             ![o] = [m.orders[o] EXCEPT !.position_id = b.position_counter]]]
           q == update_order_status(c, {o}, "Executed")
<1>1. MarketOK(m) /\ order \in OrderRows /\ order.status = "Pending" /\ order.type \in EntryTypes
  BY StateFacts, HeadFacts DEF ExecuteEntry, FillsEntry
<1>2. /\ order.trader \in Traders /\ order.asset \in Assets /\ order.dir \in Dirs
      /\ order.collateral \in Nat /\ order.leverage \in Nat \ {0}
  <2>1. order.leverage > 0
    BY <1>1 DEF MarketOK, OrdersOK
  <2> HIDE DEF order
  <2> QED
    BY <1>1, <2>1 DEF OrderRows
<1>3. mark \in Nat \ {0} /\ fee \in Nat /\ payout \in Nat
  BY InputTypes
<1>4. /\ RiskKnown(order.asset)
      /\ reserve_with_vault(m, order.asset, order.dir, size)
      /\ fee + keeper_fee < order.collateral
  BY DEF ExecuteEntry, StillLegal
<1>5. m' = q
  <2>1. a = [m EXCEPT !.pool = reserve_for_position(@, size)]
    BY <1>1 DEF MarketOK, MoneyOK, MarketFields
  <2> QED
    BY <2>1 DEF ExecuteEntry, Commit
<1>6. size \in Nat \ {0}
  <2>1. size \in Nat
    BY <1>2 DEF calculate_position_size
  <2>2. size > 0
    BY <1>4, PositiveReserve
  <2> QED
    BY <2>1, <2>2
<1> HIDE DEF size
<1>7. keeper_fee \in Nat
  BY <1>6, KeeperFeeType
<1> HIDE DEF keeper_fee
<1>8. left \in Nat \ {0}
  BY <1>2, <1>3, <1>4, <1>7
<1> HIDE DEF left
<1>9. PoolInv(pool)
  BY <1>1, <1>6, ReserveKeeps DEF MarketOK, MoneyOK
<1>10. ReservedFor(m, a, size)
  BY <1>1, <1>6, ReservedRecord
<1> HIDE DEF pool
<1>11. MarketOK(a) /\ a.orders = m.orders
  BY <1>1, <1>9, PoolMoves
<1> HIDE DEF a
<1>12. RowOK(pos) /\ pos.size = size
  <2> DEFINE t == order.trader
             asset == order.asset
             dir == order.dir
             lev == order.leverage
  <2>1. /\ t \in Traders /\ asset \in Assets /\ RiskKnown(asset) /\ dir \in Dirs
        /\ lev \in Nat \ {0}
    BY <1>2, <1>4
  <2>2. pos.size = size
    BY DEF NewPosition
  <2> HIDE DEF t, asset, dir, lev
  <2>3. size \in Nat \ {0} /\ mark \in Nat \ {0}
    BY <1>3, <1>6
  <2>4. FreshRow(t, asset, dir, size, left, lev, mark)
    BY <1>8, <2>1, <2>3, NewRow
  <2> QED
    BY <2>2, <2>4 DEF FreshRow, t, asset, dir, lev
<1> HIDE DEF pos, order
<1>13. Books(q)
  BY <1>3, <1>7, <1>10, <1>11, <1>12, FillBooks
<1> HIDE DEF q
<1> QED
  BY <1>5, <1>13

LEMMA OpenKeepsBooks ==
  ASSUME MInv, Books(m), NEW t \in Traders, NEW a \in Assets, NEW dir \in Dirs,
         NEW c \in Collaterals, NEW lev \in Leverages, NEW mark \in Prices, NEW fee \in Fees,
         NEW payout \in Payouts, OpenPosition(t, a, dir, c, lev, mark, fee, payout)
  PROVE  Books(m')
<1> DEFINE legs == Opposite(m, t, a, dir)
           asked == calculate_position_size(c, lev)
           size == asked - Gross(m, legs)
           margin == IF legs = {} THEN c ELSE (c * size) \div asked
           n == CloseLegs(m, legs, mark, cum_funding[a])
           r == [n EXCEPT !.pool = reserve_for_position(@, size), !.cash = @ + margin]
           pos == NewPosition(t, a, dir, size, margin - fee, lev, mark)
           q == finalize_open(r, pos, fee, payout)
<1>1. /\ MarketOK(m) /\ cum_funding[a] \in Int
      /\ c \in Nat \ {0} /\ lev \in Nat \ {0} /\ mark \in Nat \ {0}
      /\ fee \in Nat /\ payout \in Nat
  BY StateFacts, InputTypes
<1>2. m' = q /\ RiskKnown(a) /\ reserve_with_vault(n, a, dir, size) /\ fee < margin
  BY DEF OpenPosition, ValidEntry, Commit
<1>4. legs \in SUBSET DOMAIN m.positions
  BY <1>1, OppositeRows
<1> HIDE DEF legs
<1>5. asked \in Nat /\ Gross(m, legs) \in Nat
  BY <1>1, <1>4, GrossType DEF calculate_position_size
<1>6. size \in Nat \ {0} /\ size <= asked
  <2>1. size > 0
    BY <1>2, PositiveReserve
  <2> QED
    BY <1>5, <2>1
<1> HIDE DEF asked, size
<1>7. margin \in Nat
  <2>1. c * size \in Nat /\ asked \in Nat \ {0}
    BY <1>1, <1>5, <1>6
  <2>2. (c * size) \div asked \in Nat
    BY <2>1, DivBound
  <2> QED
    BY <1>1, <2>2
<1> HIDE DEF margin
<1>8. margin - fee \in Nat \ {0}
  BY <1>1, <1>2, <1>7
<1>9. MarketOK(n) /\ Books(n)
  BY <1>1, <1>4, NettingMoves, NettingBooks
<1> HIDE DEF n
<1> DEFINE pool == reserve_for_position(n.pool, size)
           b == [n EXCEPT !.pool = pool]
           cash == b.cash + margin
<1>10. PoolInv(pool)
  BY <1>6, <1>9, ReserveKeeps DEF MarketOK, MoneyOK
<1>11. r = [b EXCEPT !.cash = cash]
  BY <1>9 DEF MarketOK, MoneyOK, MarketFields
<1>12. ReservedFor(n, b, size)
  BY <1>6, <1>9, ReservedRecord
<1> HIDE DEF pool
<1>13. MarketOK(b)
  BY <1>9, <1>10, PoolMoves
<1> HIDE DEF b, r
<1>14. cash \in Int
  BY <1>7, <1>13, HeldTypes
<1>15. /\ MarketOK(r) /\ MoneyOnly(b, r) /\ r.pool = b.pool
  BY <1>11, <1>13, <1>14, CashMoves
<1>16. ReservedFor(n, r, size)
  BY <1>12, <1>15 DEF ReservedFor, MoneyOnly, SamePositions, SameBooks
<1>17. RowOK(pos) /\ pos.size = size
  <2> DEFINE left == margin - fee
  <2>1. left \in Nat \ {0}
    BY <1>8
  <2>2. pos.size = size
    BY DEF NewPosition
  <2> HIDE DEF left
  <2>3. lev \in Nat \ {0} /\ mark \in Nat \ {0} /\ size \in Nat \ {0} /\ RiskKnown(a)
    BY <1>1, <1>2, <1>6
  <2>4. FreshRow(t, a, dir, size, left, lev, mark)
    BY <2>1, <2>3, NewRow
  <2> QED
    BY <2>2, <2>4 DEF FreshRow, left
<1> HIDE DEF pos, cash
<1>18. Books(q)
  <2>1. ReservedFor(n, r, pos.size)
    BY <1>16, <1>17
  <2> QED
    BY <1>1, <1>9, <1>15, <1>17, <2>1, OpenBooks
<1> HIDE DEF q
<1> QED
  BY <1>2, <1>18

LEMMA ReduceBooks ==
  ASSUME MInv, Books(m), NEW o \in DOMAIN m.orders, NEW id \in DOMAIN m.positions,
         NEW mark \in Nat, NEW cum \in Int, NEW size \in Nat, NEW keeper_fee \in Nat
  PROVE  LET pos == m.positions[id]
             a == [m EXCEPT !.cash = @ - Refund(m.orders[o])]
             dust == pos.collateral - CollateralClosed(pos, size) < Config.min_collateral
             b == IF size >= pos.size \/ dust
                    THEN settle_isolated_close(a, id, mark, cum, keeper_fee, o)
                    ELSE settle_partial_close(a, id, mark, cum, size, keeper_fee)
         IN  Books(update_order_status(b, {o}, "Executed"))
<1> DEFINE order == m.orders[o]
           pos == m.positions[id]
           cash == m.cash - Refund(order)
           a == [m EXCEPT !.cash = @ - Refund(order)]
           part == CollateralClosed(pos, size)
           dust == pos.collateral - part < Config.min_collateral
           b == IF size >= pos.size \/ dust
                  THEN settle_isolated_close(a, id, mark, cum, keeper_fee, o)
                  ELSE settle_partial_close(a, id, mark, cum, size, keeper_fee)
           q == update_order_status(b, {o}, "Executed")
<1>1. MarketOK(m) /\ order \in OrderRows /\ m.cash \in Int
  BY StateFacts, HeldTypes DEF MarketOK, OrdersOK
<1>2. Refund(order) \in Nat
  <2>1. order.collateral \in Nat
    BY <1>1 DEF OrderRows
  <2> QED
    BY <2>1 DEF Refund
<1>3. a = [m EXCEPT !.cash = cash] /\ cash \in Int
  BY <1>1, <1>2 DEF MarketOK, MoneyOK, MarketFields
<1>4. MarketOK(a) /\ a.positions = m.positions /\ Books(a)
  <2>1. SamePages(m, a)
    BY <1>1, <1>3, MoneyPages
  <2> QED
    BY <1>1, <1>3, <2>1, CashMoves, PagesKept
<1> HIDE DEF a, order
<1>5. MarketOK(b) /\ Books(b)
  <2>1. id \in DOMAIN a.positions /\ a.positions[id] = pos /\ RowOK(pos)
    BY <1>1, <1>4, RowFacts
  <2>2. CASE size >= pos.size \/ dust
    <3> DEFINE c == settle_isolated_close(a, id, mark, cum, keeper_fee, o)
    <3>1. MarketOK(c) /\ Books(c)
      BY <1>4, <2>1, CloseMoves, CloseBooks
    <3>2. b = c
      BY <2>2
    <3> HIDE DEF c, b
    <3> QED
      BY <3>1, <3>2
  <2>3. CASE ~(size >= pos.size \/ dust)
    <3> DEFINE c == settle_partial_close(a, id, mark, cum, size, keeper_fee)
    <3>1. size < pos.size /\ pos.collateral - part > 0
      <4>1. pos.size \in Nat /\ pos.collateral \in Nat
        BY <2>1 DEF RowOK, PositionOK
      <4>2. size < pos.size
        BY <2>3, <4>1
      <4>3. part \in Nat
        BY <2>1, <4>1, <4>2, CollateralClosedRange
      <4>4. ~dust
        BY <2>3
      <4> HIDE DEF part, pos
      <4> QED
        BY <4>1, <4>2, <4>3, <4>4, MarginValues
    <3>2. MarketOK(c) /\ Books(c)
      BY <1>4, <2>1, <3>1, PartialMoves, PartialBooks
    <3>3. b = c
      BY <2>3
    <3> HIDE DEF c, b
    <3> QED
      BY <3>2, <3>3
  <2> QED
    BY <2>2, <2>3
<1> HIDE DEF b
<1>6. Books(q)
  <2>1. "Executed" \in FinalStatuses
    BY DEF FinalStatuses
  <2> QED
    BY <1>5, <2>1, StatusPages, PagesKept
<1> QED
  BY <1>6 DEF a, b, q, order

LEMMA ReduceKeepsBooks ==
  ASSUME MInv, Books(m), NEW o \in DOMAIN m.orders, NEW mark \in Prices,
         ExecuteReduceOnly(o, mark)
  PROVE  Books(m')
<1> DEFINE order == m.orders[o]
           size == calculate_position_size(order.collateral, order.leverage)
           keeper_fee == calculate_keeper_order_fee(size)
           targets == Opposite(m, order.trader, order.asset, order.dir)
           id == ReduceTarget(targets)
           pos == m.positions[id]
           cum == cum_funding[order.asset]
           a == [m EXCEPT !.cash = @ - Refund(m.orders[o])]
           dust == pos.collateral - CollateralClosed(pos, size) < Config.min_collateral
           b == IF size >= pos.size \/ dust
                  THEN settle_isolated_close(a, id, mark, cum, keeper_fee, o)
                  ELSE settle_partial_close(a, id, mark, cum, size, keeper_fee)
           q == update_order_status(b, {o}, "Executed")
           r == update_order_status(WithdrawnOrder(o, "Cancelled"), {o}, "Executed")
<1>1. MarketOK(m) /\ order \in OrderRows /\ order.status = "Pending"
  BY StateFacts, HeadFacts DEF ExecuteReduceOnly, FillsEntry
<1>2. (targets # {} /\ m' = q) \/ m' = r
  BY DEF ExecuteReduceOnly, Commit
<1>3. CASE targets # {} /\ m' = q
  <2>1. order.trader \in Traders /\ order.asset \in Assets /\ size \in Nat
    BY <1>1 DEF OrderRows, calculate_position_size
  <2>2. targets \in SUBSET DOMAIN m.positions
    BY <1>1, <2>1, OppositeRows
  <2> HIDE DEF targets, size
  <2>3. id \in DOMAIN m.positions
    BY <1>1, <1>3, <2>2, TargetExists
  <2>4. keeper_fee \in Nat /\ cum \in Int /\ mark \in Nat
    BY <2>1, KeeperFeeType, StateFacts, InputTypes
  <2> HIDE DEF id, keeper_fee, cum
  <2>5. Books(q)
    BY <2>1, <2>3, <2>4, ReduceBooks
  <2> HIDE DEF q
  <2> QED
    BY <1>3, <2>5
<1>4. CASE m' = r
  BY <1>1, <1>4, RefundKeepsBooks
<1> QED
  BY <1>2, <1>3, <1>4

LEMMA ExecuteCloseKeepsBooks ==
  ASSUME MInv, Books(m), NEW o \in DOMAIN m.orders, NEW mark \in Prices, NEW smoothed,
         ExecuteClose(o, mark, smoothed)
  PROVE  Books(m')
<1> DEFINE order == m.orders[o]
           id == order.position_id
           pos == m.positions[id]
           cum == cum_funding[pos.asset]
           keeper_fee == calculate_keeper_order_fee(pos.size)
           a == IF order.type = "TrailingStop" THEN DropPeaks(m, {o}) ELSE m
           b == settle_isolated_close(a, id, mark, cum, keeper_fee, o)
           q == update_order_status(b, {o}, "Executed")
<1>1. MarketOK(m) /\ id \in DOMAIN m.positions
  BY StateFacts DEF ExecuteClose
<1>2. m' = q
  BY DEF ExecuteClose, Commit
<1>3. MarketOK(a) /\ SamePages(m, a)
  <2>1. SamePages(m, m)
    BY DEF SamePages, AccountsKept
  <2> QED
    BY <1>1, <2>1, DropPeaksPages
<1> HIDE DEF a
<1>4. keeper_fee \in Nat /\ cum \in Int /\ mark \in Nat
  <2>1. pos.size \in Nat /\ pos.asset \in Assets
    BY <1>1, RowFacts
  <2> QED
    BY <1>1, <2>1, KeeperFeeType, StateFacts, InputTypes
<1>5. id \in DOMAIN a.positions /\ Books(a)
  BY <1>1, <1>3, PagesKept DEF SamePages
<1> HIDE DEF id, keeper_fee, cum
<1>6. MarketOK(b) /\ Books(b)
  BY <1>3, <1>4, <1>5, CloseMoves, CloseBooks
<1> HIDE DEF b
<1>7. Books(q)
  <2>1. "Executed" \in FinalStatuses
    BY DEF FinalStatuses
  <2> QED
    BY <1>6, <2>1, StatusPages, PagesKept
<1> HIDE DEF q
<1> QED
  BY <1>2, <1>7

-----------------------------------------------------------------------------
(* The invariant. *)

LEMMA BooksInit == Init => Books(m)
<1> SUFFICES ASSUME Init PROVE Books(m)
  OBVIOUS
<1>1. /\ m.pool = InitialPool /\ m.positions = [i \in {} |-> 0]
      /\ m.total_long = 0 /\ m.total_short = 0
      /\ m.exposure = [a \in Assets |-> NoExposure]
  BY DEF Init
<1>2. DOMAIN m.positions = {} /\ m.pool.reserved_payout = 0
  BY <1>1 DEF InitialPool
<1>3. ASSUME NEW S, S = {}
      PROVE  SizeOf(m, S) = 0 /\ KOf(m, S) = 0
  <2>1. /\ DOMAIN [i \in S |-> m.positions[i].size] = {}
        /\ DOMAIN [i \in S |-> KDelta(m.positions[i].size, m.positions[i].entry)] = {}
    BY <1>3
  <2> QED
    BY <2>1, EmptyTotal DEF SizeOf, KOf
<1>4. \A dir : Way(m, dir) = {}
  BY <1>2 DEF Way
<1>5. \A a, dir : Side(m, a, dir) = {}
  BY <1>2 DEF Side
<1>6. \A a \in Assets : m.exposure[a] = NoExposure
  BY <1>1
<1>7. \A a \in Assets : /\ m.exposure[a].ls = 0 /\ m.exposure[a].ss = 0
                        /\ m.exposure[a].lk = 0 /\ m.exposure[a].sk = 0
  BY <1>6 DEF NoExposure
<1>8. \A dir : SizeOf(m, Way(m, dir)) = 0
  BY <1>3, <1>4
<1>9. \A a, dir : SizeOf(m, Side(m, a, dir)) = 0 /\ KOf(m, Side(m, a, dir)) = 0
  BY <1>3, <1>5
<1> QED
  BY <1>1, <1>2, <1>3, <1>7, <1>8, <1>9 DEF Books

(* Every action keeps the books. *)
LEMMA PlacementKeepsBooks ==
  ASSUME MInv, Books(m), PlacementStep
  PROVE  Books(m')
<1>1. ASSUME NEW t \in Traders, NEW a \in Assets, NEW dir \in Dirs, NEW c \in Collaterals,
             NEW lev \in Leverages, NEW trigger \in Triggers, NEW above \in BOOLEAN,
             NEW ro \in BOOLEAN, NEW tol \in Tolerances, NEW tif \in TimesInForce,
             NEW mark \in Prices,
             PlaceLimitOrder(t, a, dir, c, lev, trigger, above, tol, tif, ro, mark)
      PROVE  Books(m')
  BY <1>1, LimitKeepsBooks
<1>2. ASSUME NEW t \in Traders, NEW a \in Assets, NEW dir \in Dirs, NEW c \in Collaterals,
             NEW lev \in Leverages, NEW trigger \in Triggers, NEW above \in BOOLEAN,
             NEW ro \in BOOLEAN, NEW tol \in Tolerances, NEW limit \in Triggers,
             PlaceStopLimitOrder(t, a, dir, c, lev, trigger, limit, above, tol, ro)
      PROVE  Books(m')
  BY <1>2, StopLimitKeepsBooks
<1>3. ASSUME NEW id \in DOMAIN m.positions, NEW tol \in Tolerances,
             \/ \E trigger \in Triggers : SetStopLoss(id, trigger, tol)
             \/ \E trigger \in Triggers, limit \in Triggers \cup {0} :
                  SetTakeProfit(id, trigger, limit, tol)
             \/ \E trail \in Trails, mark \in Prices : PlaceTrailingStop(id, trail, tol, mark)
      PROVE  Books(m')
  BY <1>3, AttachKeepsBooks
<1> QED
  BY <1>1, <1>2, <1>3 DEF PlacementStep

LEMMA PositionKeepsBooks ==
  ASSUME MInv, Books(m), PositionStep
  PROVE  Books(m')
<1>1. ASSUME NEW t \in Traders, NEW a \in Assets, NEW dir \in Dirs, NEW c \in Collaterals,
             NEW lev \in Leverages, NEW mark \in Prices, NEW fee \in Fees,
             NEW payout \in Payouts, OpenPosition(t, a, dir, c, lev, mark, fee, payout)
      PROVE  Books(m')
  BY <1>1, OpenKeepsBooks
<1> QED
  BY <1>1, CloseKeepsBooks, PartialKeepsBooks, AddKeepsBooks, RemoveKeepsBooks
     DEF PositionStep

LEMMA KeeperKeepsBooks ==
  ASSUME MInv, Books(m), KeeperStep
  PROVE  Books(m')
<1>1. ASSUME NEW o \in DOMAIN m.orders, NEW mark \in Prices,
             \/ UpdateTrailingPeak(o, mark)
             \/ \E smoothed \in Prices \cup {0} : ExecuteOutOfBand(o, mark, smoothed)
             \/ ExecuteStopPhase(o, mark)
             \/ \E fee \in Fees, payout \in Payouts : ExecuteEntry(o, mark, fee, payout)
             \/ ExecuteIllegalEntry(o, mark)
             \/ ExecuteReduceOnly(o, mark)
             \/ \E smoothed \in Prices \cup {0} : ExecuteClose(o, mark, smoothed)
      PROVE  Books(m')
  BY <1>1, PeakKeepsBooks, CancelKeepsBooks, StopPhaseKeepsBooks, EntryKeepsBooks,
     IllegalKeepsBooks, ReduceKeepsBooks, ExecuteCloseKeepsBooks
<1>2. ASSUME \/ \E id \in DOMAIN m.positions, mark \in Prices, smoothed \in Prices \cup {0} :
                  Liquidate(id, mark, smoothed)
             \/ \E a \in Assets, mark \in Prices : CheckAdlTrigger(a, mark)
             \/ \E id \in DOMAIN m.positions, mark \in Prices : AdlClose(id, mark)
             \/ \E a \in Assets, mark \in Prices : SyncAssetPnl(a, mark)
             \/ \E step \in [DOMAIN risk -> FundingSteps] : ApplyFunding(step)
      PROVE  Books(m')
  <2>1. ASSUME NEW step \in [DOMAIN risk -> FundingSteps], ApplyFunding(step)
        PROVE  Books(m')
    BY <2>1 DEF ApplyFunding
  <2> QED
    BY <1>2, <2>1, LiquidateKeepsBooks, AdlFlagKeepsBooks, AdlCloseKeepsBooks, SyncKeepsBooks
<1> QED
  BY <1>1, <1>2 DEF KeeperStep

LEMMA BooksNext ==
  ASSUME MInv, Books(m), [Next]_vars
  PROVE  Books(m')
<1>1. CASE PositionStep
  BY <1>1, PositionKeepsBooks
<1>2. CASE OrderStep
  BY <1>2, PlacementKeepsBooks, CancelKeepsBooks DEF OrderStep
<1>3. CASE KeeperStep
  BY <1>3, KeeperKeepsBooks
<1>4. CASE VaultStep
  BY <1>4, VaultKeepsBooks
<1>5. CASE AdminStep
  <2>1. CASE \E ids \in SUBSET DOMAIN m.positions : ids # {} /\ ReseedFunding(ids)
    BY <2>1, ReseedKeepsBooks
  <2>2. m' = m \/ \E ids \in SUBSET DOMAIN m.positions : ids # {} /\ ReseedFunding(ids)
    BY <1>5 DEF AdminStep, Pause, Unpause, SetAssetHalt, SetAssetRisk
  <2> QED
    BY <2>1, <2>2
<1>6. CASE Tick \/ UNCHANGED vars
  BY <1>6 DEF Tick, vars
<1> QED
  BY <1>1, <1>2, <1>3, <1>4, <1>5, <1>6 DEF Next

(* What the vault reserves, the open interest of the market and of every     *)
(* asset, are the sums of the open sizes, and the mark aggregates never fall *)
(* below what the open positions add up to: through every close, netting,    *)
(* tranche and fill (increase_oi, decrease_oi and sync_exposure).            *)
THEOREM MarketBooks == Spec => []BooksFollowPositions
<1> DEFINE BInv == MInv /\ Books(m)
<1>1. Init => BInv
  BY MInvInit, BooksInit
<1>2. BInv /\ [Next]_vars => BInv'
  <2> SUFFICES ASSUME BInv, [Next]_vars
               PROVE  MInv' /\ Books(m')
    OBVIOUS
  <2> QED
    BY MInvNext, BooksNext
<1>3. BInv => BooksFollowPositions
  BY Zenon DEF Books, Way, BooksFollowPositions, OpenInterestExact, ExposureCoversPositions
<1> HIDE DEF BInv
<1> QED
  BY <1>1, <1>2, <1>3, PTL DEF Spec

----------------------------------------------------------------------------
(***************************************************************************)
(* The order book of the market, proved to agree with its indexes: the     *)
(* live counters count what is live, a pending close order guards an open  *)
(* position of its owner and is linked to it, every link leads to such an  *)
(* order, and the pending trailing stops, no others, have a peak.          *)
(*                                                                         *)
(* While an order is executed it is still Pending but its position goes.   *)
(* Desk(n, skip) is the agreement with one order set aside; skip = 0, no   *)
(* order's id, sets none aside.                                            *)
(***************************************************************************)
Counted(n) ==
  /\ n.open_positions = Cardinality(DOMAIN n.positions)
  /\ n.open_orders = Cardinality(Pending(n))
  /\ DOMAIN n.orders_of = Traders
  /\ \A t \in Traders : n.orders_of[t] = Cardinality(PendingOf(n, t))

(* A close order and the position it closes. *)
Guards(n, o, id) ==
  /\ id \in DOMAIN n.positions
  /\ n.positions[id].trader = n.orders[o].trader
  /\ <<n.orders[o].type, id, o>> \in n.links

Guarded(n, skip) ==
  \A o \in Pending(n) \ {skip} :
    n.orders[o].type \in CloseTypes => Guards(n, o, n.orders[o].position_id)

Leads(n, l) ==
  /\ l = <<l[1], l[2], l[3]>>
  /\ l[3] \in Pending(n)
  /\ n.orders[l[3]].type = l[1] /\ n.orders[l[3]].position_id = l[2]

LinksExact(n) ==
  /\ \A l \in n.links : Leads(n, l)
  /\ \A l, k \in n.links : k[1] = l[1] /\ k[2] = l[2] => k = l

Trailing(n) == {o \in Pending(n) : n.orders[o].type = "TrailingStop"}
PeaksExact(n, skip) == DOMAIN n.peaks = Trailing(n) \ {skip}

Desk(n, skip) ==
  Counted(n) /\ Guarded(n, skip) /\ LinksExact(n) /\ PeaksExact(n, skip)

(* Whose position is behind each id. *)
Owners(n) == [i \in DOMAIN n.positions |-> n.positions[i].trader]

(* Money, collateral and sizes are not on the desk. *)
SameIndex(n, q) ==
  /\ q.peaks = n.peaks
  /\ q.open_orders = n.open_orders /\ q.orders_of = n.orders_of
  /\ q.open_positions = n.open_positions

SameDesk(n, q) == SameOrders(n, q) /\ SameIndex(n, q) /\ Owners(q) = Owners(n)

LEMMA SameDeskTransitive ==
  ASSUME NEW n, NEW q, NEW r, SameDesk(n, q), SameDesk(q, r)
  PROVE  SameDesk(n, r)
BY DEF SameDesk, SameOrders, SameIndex

LEMMA OwnersSame ==
  ASSUME NEW n, NEW q, SamePositions(n, q)
  PROVE  Owners(q) = Owners(n)
BY DEF SamePositions, Owners

LEMMA OwnersAgree ==
  ASSUME NEW n, NEW q, Owners(q) = Owners(n)
  PROVE  /\ DOMAIN q.positions = DOMAIN n.positions
         /\ \A i \in DOMAIN n.positions : q.positions[i].trader = n.positions[i].trader
<1>1. DOMAIN Owners(q) = DOMAIN q.positions /\ DOMAIN Owners(n) = DOMAIN n.positions
  BY DEF Owners
<1>2. DOMAIN q.positions = DOMAIN n.positions
  BY <1>1
<1>3. ASSUME NEW i \in DOMAIN n.positions
      PROVE  q.positions[i].trader = n.positions[i].trader
  <2>1. Owners(q)[i] = q.positions[i].trader
    BY <1>2, <1>3 DEF Owners
  <2>2. Owners(n)[i] = n.positions[i].trader
    BY <1>3 DEF Owners
  <2> QED
    BY <2>1, <2>2
<1> QED
  BY <1>2, <1>3

LEMMA DeskKept ==
  ASSUME NEW n, NEW q, SameDesk(n, q), NEW skip, Desk(n, skip)
  PROVE  Desk(q, skip)
<1>1. /\ DOMAIN q.positions = DOMAIN n.positions
      /\ \A i \in DOMAIN n.positions : q.positions[i].trader = n.positions[i].trader
  BY OwnersAgree DEF SameDesk
<1>2. /\ q.orders = n.orders /\ q.links = n.links /\ q.peaks = n.peaks
      /\ q.open_orders = n.open_orders /\ q.orders_of = n.orders_of
      /\ q.open_positions = n.open_positions
  BY DEF SameDesk, SameOrders, SameIndex
<1>3. Pending(q) = Pending(n) /\ \A t : PendingOf(q, t) = PendingOf(n, t)
  BY <1>2 DEF Pending, PendingOf
<1>4. Counted(q)
  BY <1>1, <1>2, <1>3 DEF Desk, Counted
<1>5. Guarded(q, skip)
  BY <1>1, <1>2, <1>3 DEF Desk, Guarded, Guards
<1>6. LinksExact(q)
  BY <1>2, <1>3 DEF Desk, LinksExact, Leads
<1>7. PeaksExact(q, skip)
  BY <1>2, <1>3 DEF Desk, PeaksExact, Trailing
<1> QED
  BY <1>4, <1>5, <1>6, <1>7 DEF Desk

-----------------------------------------------------------------------------
(* Steps that do not reach the desk. *)

LEMMA SettleClosedDesk ==
  ASSUME NEW n, MarketOK(n), NEW pos, RowOK(pos), NEW collateral \in Nat, NEW net \in Int,
         NEW keeper_fee \in Nat
  PROVE  SameDesk(n, SettleClosed(n, pos, collateral, net, keeper_fee))
<1> DEFINE q == SettleClosed(n, pos, collateral, net, keeper_fee)
<1>1. SamePositions(n, q) /\ SameOrders(n, q)
  BY SettleClosedMoves
<1>2. SameIndex(n, q)
  BY DEF SettleClosed, flag_adl_on_shortfall, MarketOK, MoneyOK, MarketFields, SameIndex
<1> HIDE DEF q
<1> QED
  BY <1>1, <1>2, OwnersSame DEF SameDesk, q

LEMMA DecreaseOiDesk ==
  ASSUME NEW n, MarketOK(n), NEW asset \in Assets, NEW dir, NEW size \in Nat,
         NEW entry \in Nat \ {0}, NEW mark \in Nat
  PROVE  SameDesk(n, DecreaseOi(n, asset, dir, size, entry, mark))
<1> DEFINE q == DecreaseOi(n, asset, dir, size, entry, mark)
<1>1. SamePositions(n, q) /\ SameOrders(n, q)
  BY DecreaseOiMoves
<1>2. SameIndex(n, q)
  BY DEF DecreaseOi, WithExposure, MarketOK, MoneyOK, MarketFields, SameIndex
<1> HIDE DEF q
<1> QED
  BY <1>1, <1>2, OwnersSame DEF SameDesk, q

LEMMA IncreaseOiDesk ==
  ASSUME NEW n, MarketOK(n), NEW asset \in Assets, NEW dir, NEW size \in Nat,
         NEW entry \in Nat \ {0}
  PROVE  SameDesk(n, IncreaseOi(n, asset, dir, size, entry))
<1> DEFINE q == IncreaseOi(n, asset, dir, size, entry)
<1>1. SamePositions(n, q) /\ SameOrders(n, q)
  BY IncreaseOiMoves
<1>2. SameIndex(n, q)
  BY DEF IncreaseOi, WithExposure, MarketOK, MoneyOK, MarketFields, SameIndex
<1> HIDE DEF q
<1> QED
  BY <1>1, <1>2, OwnersSame DEF SameDesk, q

LEMMA SeizedDesk ==
  ASSUME NEW n, MarketOK(n), NEW pos, RowOK(pos), NEW equity \in Int,
         NEW q, q = IF equity > 0 THEN SeizeSolvent(n, pos, equity) ELSE SeizeBankrupt(n, pos, equity)
  PROVE  MarketOK(q) /\ SameDesk(n, q)
<1>1. MarketOK(q) /\ SamePositions(n, q) /\ SameOrders(n, q)
  <2>1. CASE equity > 0
    <3>1. q = SeizeSolvent(n, pos, equity) /\ equity \in Nat \ {0}
      BY <2>1
    <3> QED
      BY <3>1, SolventMoves DEF MoneyOnly
  <2>2. CASE ~(equity > 0)
    <3>1. q = SeizeBankrupt(n, pos, equity) /\ equity <= 0
      BY <2>2
    <3> QED
      BY <3>1, BankruptMoves DEF MoneyOnly
  <2> QED
    BY <2>1, <2>2
<1>2. SameIndex(n, q)
  BY DEF SeizeSolvent, SeizeBankrupt, MarketOK, MoneyOK, MarketFields, SameIndex
<1> QED
  BY <1>1, <1>2, OwnersSame DEF SameDesk

(* The pool and the market's own cash may be anything. *)
LEMMA MoneyDesk ==
  ASSUME NEW n, MarketOK(n), NEW pool, NEW cash, NEW q,
         q = [n EXCEPT !.pool = pool, !.cash = cash] \/ q = [n EXCEPT !.pool = pool]
           \/ q = [n EXCEPT !.cash = cash]
  PROVE  SameDesk(n, q)
<1>1. SamePositions(n, q) /\ SameOrders(n, q) /\ SameIndex(n, q)
  BY DEF MarketOK, MoneyOK, MarketFields, SamePositions, SameOrders, SameIndex
<1> QED
  BY <1>1, OwnersSame DEF SameDesk

(* A row rewritten stays with its owner. *)
LEMMA RowDesk ==
  ASSUME NEW n, MarketOK(n), NEW id \in DOMAIN n.positions, NEW pos,
         pos.trader = n.positions[id].trader, NEW q, q = WithRow(n, id, pos)
  PROVE  SameDesk(n, q)
<1> DEFINE rows == [n.positions EXCEPT ![id] = pos]
<1>1. SameOrders(n, q) /\ SameIndex(n, q) /\ q.positions = rows
  BY DEF WithRow, MarketOK, MoneyOK, MarketFields, SameOrders, SameIndex
<1>2. DOMAIN rows = DOMAIN n.positions
  OBVIOUS
<1>3. \A i \in DOMAIN n.positions : rows[i].trader = n.positions[i].trader
  OBVIOUS
<1> HIDE DEF rows
<1>4. Owners(q) = Owners(n)
  BY <1>1, <1>2, <1>3 DEF Owners
<1> QED
  BY <1>1, <1>4 DEF SameDesk

-----------------------------------------------------------------------------
(* Status writes: the counters fall with the orders that were pending. *)

(* The rows of two books say the same but for their status and terms. *)
SameKeys(n, q) ==
  /\ DOMAIN q.orders = DOMAIN n.orders
  /\ \A o \in DOMAIN n.orders :
       /\ q.orders[o].type = n.orders[o].type
       /\ q.orders[o].trader = n.orders[o].trader
       /\ q.orders[o].position_id = n.orders[o].position_id

LEMMA PendingFinite ==
  ASSUME NEW n, MarketOK(n)
  PROVE  /\ IsFiniteSet(Pending(n)) /\ Cardinality(Pending(n)) \in Nat
         /\ \A t : IsFiniteSet(PendingOf(n, t)) /\ Cardinality(PendingOf(n, t)) \in Nat
<1>1. IsFiniteSet(DOMAIN n.orders)
  BY OrdersFinite DEF MarketOK
<1>2. Pending(n) \in SUBSET DOMAIN n.orders /\ \A t : PendingOf(n, t) \in SUBSET DOMAIN n.orders
  BY DEF Pending, PendingOf
<1>3. IsFiniteSet(Pending(n)) /\ \A t : IsFiniteSet(PendingOf(n, t))
  BY <1>1, <1>2, FS_Subset
<1> QED
  BY <1>3, FS_CardinalityType

LEMMA CountFalls ==
  ASSUME NEW S, IsFiniteSet(S), NEW ids
  PROVE  Floor0(Cardinality(S) - Cardinality(ids \cap S)) = Cardinality(S \ ids)
<1>1. /\ IsFiniteSet(S \ ids) /\ Cardinality(S \ ids) = Cardinality(S) - Cardinality(S \cap ids)
  BY FS_Difference
<1>2. S \cap ids = ids \cap S
  OBVIOUS
<1>3. Cardinality(S \ ids) \in Nat
  BY <1>1, FS_CardinalityType
<1> QED
  BY <1>1, <1>2, <1>3 DEF Floor0

LEMMA StatusDesk ==
  ASSUME NEW n, MarketOK(n), Counted(n), NEW ids, NEW status \in FinalStatuses
  PROVE  LET q == update_order_status(n, ids, status)
         IN  /\ BookOnly(n, q) /\ MarketOK(q) /\ Counted(q)
             /\ SameKeys(n, q) /\ Pending(q) = Pending(n) \ ids
             /\ q.links = n.links /\ q.peaks = n.peaks /\ q.positions = n.positions
<1> DEFINE q == update_order_status(n, ids, status)
           rows == [o \in DOMAIN n.orders |->
                      IF o \in ids THEN [n.orders[o] EXCEPT !.status = status]
                                   ELSE n.orders[o]]
<1>1. /\ BookOnly(n, q) /\ MarketOK(q) /\ q.links = n.links /\ q.orders = rows
  BY UpdateStatus
<1>2. /\ q.open_orders = Floor0(n.open_orders - Cardinality(ids \cap Pending(n)))
      /\ q.orders_of = [t \in DOMAIN n.orders_of |->
                          Floor0(n.orders_of[t] - Cardinality(ids \cap PendingOf(n, t)))]
      /\ q.open_positions = n.open_positions /\ q.peaks = n.peaks /\ q.positions = n.positions
  BY DEF update_order_status, MarketOK, MoneyOK, MarketFields
<1>3. n.orders \in Seq(OrderRows)
  BY DEF MarketOK, OrdersOK
<1>4. \A o \in DOMAIN n.orders : n.orders[o] \in OrderRows
  BY <1>3
<1>5. SameKeys(n, q)
  BY <1>1, <1>4 DEF SameKeys, OrderRows
<1>6. \A o \in DOMAIN n.orders :
        q.orders[o].status = IF o \in ids THEN status ELSE n.orders[o].status
  BY <1>1, <1>4 DEF OrderRows
<1>7. status # "Pending"
  BY DEF FinalStatuses
<1> HIDE DEF q, rows
<1>8. Pending(q) = Pending(n) \ ids
  BY <1>5, <1>6, <1>7 DEF Pending, SameKeys
<1>9. \A t : PendingOf(q, t) = PendingOf(n, t) \ ids
  BY <1>5, <1>8 DEF PendingOf, Pending, SameKeys
<1>10. q.open_orders = Cardinality(Pending(q))
  <2>1. n.open_orders = Cardinality(Pending(n)) /\ IsFiniteSet(Pending(n))
    BY PendingFinite DEF Counted
  <2> QED
    BY <1>2, <1>8, <2>1, CountFalls
<1>11. DOMAIN q.orders_of = Traders
  BY <1>2 DEF Counted
<1>12. ASSUME NEW t \in Traders
       PROVE  q.orders_of[t] = Cardinality(PendingOf(q, t))
  <2>1. q.orders_of[t] = Floor0(n.orders_of[t] - Cardinality(ids \cap PendingOf(n, t)))
    BY <1>2 DEF Counted
  <2>2. n.orders_of[t] = Cardinality(PendingOf(n, t)) /\ IsFiniteSet(PendingOf(n, t))
    BY PendingFinite DEF Counted
  <2> QED
    BY <1>9, <2>1, <2>2, CountFalls
<1>13. Counted(q)
  BY <1>2, <1>10, <1>11, <1>12 DEF Counted
<1> QED
  BY <1>1, <1>2, <1>5, <1>8, <1>13 DEF q

Unlinked(n, o) == \A l \in n.links : l[3] # o

(* The last write of an execution: the order set aside is no longer pending. *)
LEMMA FinishDesk ==
  ASSUME NEW n, MarketOK(n), NEW o, Desk(n, o), Unlinked(n, o), NEW status \in FinalStatuses
  PROVE  LET q == update_order_status(n, {o}, status)
         IN  MarketOK(q) /\ Desk(q, 0) /\ o \notin Pending(q)
<1> DEFINE q == update_order_status(n, {o}, status)
<1>0. Counted(n)
  BY DEF Desk
<1>1. /\ MarketOK(q) /\ Counted(q)
      /\ SameKeys(n, q) /\ Pending(q) = Pending(n) \ {o}
      /\ q.links = n.links /\ q.peaks = n.peaks /\ q.positions = n.positions
  BY <1>0, StatusDesk
<1> HIDE DEF q
<1>2. \A i \in Pending(n) : i \in DOMAIN n.orders
  BY DEF Pending
<1>3. Guarded(q, 0)
  BY <1>1, <1>2 DEF Desk, Guarded, Guards, SameKeys
<1>4. LinksExact(q)
  BY <1>1, <1>2 DEF Desk, LinksExact, Leads, SameKeys, Unlinked
<1>5. 0 \notin Pending(q)
  <2>1. 0 \notin DOMAIN n.orders
    BY DEF MarketOK, OrdersOK
  <2> QED
    BY <1>1, <1>2, <2>1
<1>6. PeaksExact(q, 0)
  <2>1. Trailing(q) = Trailing(n) \ {o}
    BY <1>1, <1>2 DEF Trailing, SameKeys
  <2>2. 0 \notin Trailing(q)
    BY <1>5 DEF Trailing
  <2> QED
    BY <1>1, <2>1, <2>2 DEF Desk, PeaksExact
<1> QED
  BY <1>1, <1>3, <1>4, <1>6 DEF Desk, q

-----------------------------------------------------------------------------
(* A position goes: first the orders attached to it, then the row. *)

(* Nothing is left on the desk that names a position, but the order set      *)
(* aside.                                                                    *)
Bare(n, id, skip) ==
  /\ \A o \in Pending(n) \ {skip} :
       n.orders[o].type \in CloseTypes => n.orders[o].position_id # id
  /\ \A l \in n.links : l[2] # id

LEMMA CancelDesk ==
  ASSUME NEW n, MarketOK(n), NEW skip, Desk(n, skip), NEW id
  PROVE  LET q == cancel_position_orders(n, id, skip)
         IN  MarketOK(q) /\ Desk(q, skip) /\ Bare(q, id, skip) /\ q.positions = n.positions
<1> DEFINE ids == Linked(n, id) \ {skip}
           a == update_order_status(n, ids, "Cancelled")
           b == DropPeaks(a, ids)
           links == {l \in n.links : l[2] # id}
           q == cancel_position_orders(n, id, skip)
<1>0. MarketOK(q) /\ BookOnly(n, q)
  BY CancelAttached
<1>1. Counted(n) /\ "Cancelled" \in FinalStatuses
  BY DEF Desk, FinalStatuses
<1>3. /\ BookOnly(n, a) /\ MarketOK(a) /\ Counted(a)
      /\ SameKeys(n, a) /\ Pending(a) = Pending(n) \ ids
      /\ a.links = n.links /\ a.peaks = n.peaks /\ a.positions = n.positions
  BY <1>1, StatusDesk
<1>4. q = [b EXCEPT !.links = links]
  BY DEF cancel_position_orders
<1>5. \A x \in Linked(n, id) : x \in DOMAIN n.orders /\ \E type \in CloseTypes : <<type, id, x>> \in n.links
  BY DEF Linked
<1>6. \A x \in DOMAIN n.orders : x \notin Linked(n, id) =>
        \A type \in CloseTypes : <<type, id, x>> \notin n.links
  BY DEF Linked
<1> HIDE DEF a, ids
<1>7. /\ DOMAIN q = MarketFields
      /\ q.orders = a.orders /\ q.links = links
      /\ q.peaks = [o \in DOMAIN a.peaks \ ids |-> a.peaks[o]]
      /\ q.positions = a.positions /\ q.open_positions = a.open_positions
      /\ q.open_orders = a.open_orders /\ q.orders_of = a.orders_of
  BY <1>3, <1>4 DEF DropPeaks, MarketOK, MoneyOK, MarketFields
<1> HIDE DEF q, b
<1>8. /\ DOMAIN q.peaks = DOMAIN n.peaks \ ids /\ q.positions = n.positions
      /\ SameKeys(n, q) /\ Pending(q) = Pending(n) \ ids
  BY <1>3, <1>7 DEF SameKeys, Pending
<1>9. \A x \in Pending(n) : x \in DOMAIN n.orders
  BY DEF Pending
<1>10. Counted(q)
  <2>1. Pending(q) = Pending(a) /\ \A t : PendingOf(q, t) = PendingOf(a, t)
    BY <1>7 DEF Pending, PendingOf
  <2> QED
    BY <1>3, <1>7, <2>1 DEF Counted
<1>11. \A x \in Pending(n) \ {skip} : n.orders[x].type \in CloseTypes =>
         \/ x \in ids
         \/ n.orders[x].position_id # id
  BY <1>6, <1>9 DEF Desk, Guarded, Guards, ids
<1>12. Guarded(q, skip)
  BY <1>8, <1>9, <1>11, <1>7 DEF Desk, Guarded, Guards, SameKeys
<1>13. \A l \in links : l[3] \notin ids
  <2> SUFFICES ASSUME NEW l \in links, l[3] \in ids
               PROVE  FALSE
    OBVIOUS
  <2>1. PICK type \in CloseTypes : <<type, id, l[3]>> \in n.links
    BY <1>5 DEF ids
  <2>2. Leads(n, <<type, id, l[3]>>) /\ Leads(n, l) /\ l[2] # id
    BY <2>1 DEF Desk, LinksExact
  <2> QED
    BY <2>2 DEF Leads
<1>14. LinksExact(q)
  BY <1>7, <1>8, <1>9, <1>13 DEF Desk, LinksExact, Leads, SameKeys
<1>15. PeaksExact(q, skip)
  <2>1. Trailing(q) = Trailing(n) \ ids
    BY <1>8, <1>9 DEF Trailing, SameKeys
  <2> QED
    BY <1>8, <2>1 DEF Desk, PeaksExact
<1>16. Bare(q, id, skip)
  BY <1>7, <1>8, <1>9, <1>11 DEF Bare, SameKeys
<1> QED
  BY <1>0, <1>8, <1>10, <1>12, <1>14, <1>15, <1>16 DEF Desk, q

LEMMA DeleteDesk ==
  ASSUME NEW n, MarketOK(n), NEW skip, Desk(n, skip), NEW id \in DOMAIN n.positions,
         Bare(n, id, skip)
  PROVE  LET q == delete_position(n, id)
         IN  MarketOK(q) /\ Desk(q, skip) /\ q.orders = n.orders /\ q.links = n.links
<1> DEFINE q == delete_position(n, id)
<1>1. MarketOK(q) /\ SameOrders(n, q) /\ RowGone(n, q, id)
  BY DeleteMoves DEF RowsOnly
<1>2. /\ q.open_positions = Floor0(n.open_positions - 1)
      /\ q.open_orders = n.open_orders /\ q.orders_of = n.orders_of /\ q.peaks = n.peaks
  BY DEF delete_position, MarketOK, MoneyOK, MarketFields
<1> HIDE DEF q
<1>3. /\ DOMAIN q.positions = DOMAIN n.positions \ {id}
      /\ \A i \in DOMAIN n.positions \ {id} : q.positions[i] = n.positions[i]
  BY <1>1 DEF RowGone
<1>4. q.orders = n.orders /\ q.links = n.links
  BY <1>1 DEF SameOrders
<1>5. Pending(q) = Pending(n) /\ \A t : PendingOf(q, t) = PendingOf(n, t)
  BY <1>4 DEF Pending, PendingOf
<1>6. q.open_positions = Cardinality(DOMAIN q.positions)
  <2>1. IsFiniteSet(DOMAIN n.positions) /\ n.open_positions = Cardinality(DOMAIN n.positions)
    BY PositionsFinite DEF MarketOK, Desk, Counted
  <2>2. Cardinality(DOMAIN q.positions) = n.open_positions - 1 /\ IsFiniteSet(DOMAIN q.positions)
    BY <1>3, <2>1, FS_RemoveElement
  <2>3. Cardinality(DOMAIN q.positions) \in Nat
    BY <2>2, FS_CardinalityType
  <2> QED
    BY <1>2, <2>2, <2>3 DEF Floor0
<1>7. Counted(q)
  BY <1>2, <1>5, <1>6 DEF Desk, Counted
<1>8. Guarded(q, skip)
  BY <1>3, <1>4, <1>5 DEF Desk, Guarded, Guards, Bare
<1>9. LinksExact(q)
  BY <1>4, <1>5 DEF Desk, LinksExact, Leads
<1>10. PeaksExact(q, skip)
  BY <1>2, <1>4, <1>5 DEF Desk, PeaksExact, Trailing
<1> QED
  BY <1>1, <1>4, <1>7, <1>8, <1>9, <1>10 DEF Desk, q

(* settle_isolated_close and its kin.                                        *)
LEMMA CloseDesk ==
  ASSUME NEW n, MarketOK(n), NEW skip, Desk(n, skip), NEW id \in DOMAIN n.positions,
         NEW mark \in Nat, NEW cum \in Int, NEW keeper_fee \in Nat
  PROVE  LET q == settle_isolated_close(n, id, mark, cum, keeper_fee, skip)
         IN  MarketOK(q) /\ Desk(q, skip) /\ \A l \in q.links : l[2] # id
<1> DEFINE pos == n.positions[id]
           net == NetPnl(pos, pos.size, mark, cum)
           a == SettleClosed(n, pos, pos.collateral, net, keeper_fee)
           b == DecreaseOi(a, pos.asset, pos.dir, pos.size, pos.entry, mark)
           c == cancel_position_orders(b, id, skip)
           q == settle_isolated_close(n, id, mark, cum, keeper_fee, skip)
<1>0. q = delete_position(c, id)
  BY DEF settle_isolated_close
<1>1. /\ RowOK(pos) /\ pos.asset \in Assets /\ pos.size \in Nat
      /\ pos.collateral \in Nat /\ pos.entry \in Nat \ {0}
  BY RowFacts
<1> HIDE DEF pos
<1>2. net \in Int
  BY <1>1, NetPnlType
<1> HIDE DEF net
<1>3. MarketOK(a) /\ SameDesk(n, a)
  BY <1>1, <1>2, SettleClosedMoves, SettleClosedDesk
<1> HIDE DEF a
<1>4. MarketOK(b) /\ SameDesk(a, b)
  BY <1>1, <1>3, DecreaseOiMoves, DecreaseOiDesk
<1> HIDE DEF b
<1>5. Desk(b, skip) /\ id \in DOMAIN b.positions
  <2>1. SameDesk(n, b)
    BY <1>3, <1>4, SameDeskTransitive
  <2> QED
    BY <2>1, DeskKept, OwnersAgree DEF SameDesk
<1>6. MarketOK(c) /\ Desk(c, skip) /\ Bare(c, id, skip) /\ c.positions = b.positions
  BY <1>4, <1>5, CancelDesk
<1> HIDE DEF c
<1>7. /\ MarketOK(q) /\ Desk(q, skip) /\ q.links = c.links
  BY <1>0, <1>5, <1>6, DeleteDesk
<1> HIDE DEF q
<1> QED
  BY <1>6, <1>7 DEF q, Bare

LEMMA PartialDesk ==
  ASSUME NEW n, MarketOK(n), NEW id \in DOMAIN n.positions, NEW mark \in Nat,
         NEW cum \in Int, NEW keeper_fee \in Nat, NEW close_size \in Nat,
         close_size < n.positions[id].size
  PROVE  SameDesk(n, settle_partial_close(n, id, mark, cum, close_size, keeper_fee))
<1> DEFINE pos == n.positions[id]
           part == CollateralClosed(pos, close_size)
           net == NetPnl(pos, close_size, mark, cum)
           a == SettleClosed(n, pos, part, net, keeper_fee)
           b == DecreaseOi(a, pos.asset, pos.dir, close_size, pos.entry, mark)
           row == [pos EXCEPT !.size = pos.size - close_size,
                              !.collateral = pos.collateral - part]
           q == settle_partial_close(n, id, mark, cum, close_size, keeper_fee)
<1>0. q = [b EXCEPT !.positions = [n.positions EXCEPT ![id] = row]]
  BY DEF settle_partial_close
<1>1. /\ RowOK(pos) /\ pos.asset \in Assets /\ pos.size \in Nat
      /\ pos.collateral \in Nat /\ pos.entry \in Nat \ {0} /\ close_size < pos.size
  BY RowFacts
<1>2. part \in Nat
  BY <1>1, CollateralClosedRange
<1> HIDE DEF pos, part
<1>3. net \in Int
  BY <1>1, NetPnlType
<1> HIDE DEF net
<1>4. MarketOK(a) /\ SamePositions(n, a) /\ SameDesk(n, a)
  BY <1>1, <1>2, <1>3, SettleClosedMoves, SettleClosedDesk
<1> HIDE DEF a
<1>5. MarketOK(b) /\ SamePositions(a, b) /\ SameDesk(a, b)
  BY <1>1, <1>4, DecreaseOiMoves, DecreaseOiDesk
<1> HIDE DEF b
<1>6. row.trader = pos.trader
  BY <1>1 DEF RowOK, PositionFields
<1> HIDE DEF row
<1>7. b.positions = n.positions
  BY <1>4, <1>5 DEF SamePositions
<1>8. SameDesk(b, q)
  <2>1. q = WithRow(b, id, row)
    BY <1>0, <1>7 DEF WithRow
  <2>2. id \in DOMAIN b.positions /\ b.positions[id] = pos
    BY <1>7 DEF pos
  <2> HIDE DEF q
  <2> QED
    BY <1>5, <1>6, <2>1, <2>2, RowDesk
<1> HIDE DEF q
<1> QED
  BY <1>4, <1>5, <1>8, SameDeskTransitive DEF q

LEMMA LiquidateDesk ==
  ASSUME NEW n, MarketOK(n), Desk(n, 0), NEW id \in DOMAIN n.positions, NEW mark \in Nat,
         NEW cum \in Int
  PROVE  Desk(LiquidateFull(n, id, mark, cum), 0)
<1> DEFINE pos == n.positions[id]
           equity == Equity(pos, mark, cum)
           a == IF equity > 0 THEN SeizeSolvent(n, pos, equity) ELSE SeizeBankrupt(n, pos, equity)
           b == DecreaseOi(a, pos.asset, pos.dir, pos.size, pos.entry, mark)
           c == cancel_position_orders(b, id, 0)
           d == delete_position(c, id)
           topup == Config.min_liq_bounty - KeeperCut(pos, equity)
           pool == IF topup > 0 THEN pay_bounty(d.pool, topup) ELSE d.pool
           q == LiquidateFull(n, id, mark, cum)
<1>1. /\ RowOK(pos) /\ pos.asset \in Assets /\ pos.size \in Nat
      /\ pos.collateral \in Nat /\ pos.entry \in Nat \ {0}
  BY RowFacts
<1>2. q = [d EXCEPT !.pool = IF topup > 0 THEN pay_bounty(@, topup) ELSE @]
  BY DEF LiquidateFull
<1> HIDE DEF pos
<1>3. equity \in Int
  <2>1. NetPnl(pos, pos.size, mark, cum) \in Int
    BY <1>1, NetPnlType
  <2> QED
    BY <1>1, <2>1 DEF Equity
<1> HIDE DEF equity, topup, q
<1>4. MarketOK(a) /\ SameDesk(n, a)
  BY <1>1, <1>3, SeizedDesk
<1> HIDE DEF a
<1>5. MarketOK(b) /\ SameDesk(a, b)
  BY <1>1, <1>4, DecreaseOiMoves, DecreaseOiDesk
<1> HIDE DEF b
<1>6. Desk(b, 0) /\ id \in DOMAIN b.positions
  <2>1. SameDesk(n, b)
    BY <1>4, <1>5, SameDeskTransitive
  <2> QED
    BY <2>1, DeskKept, OwnersAgree DEF SameDesk
<1>7. MarketOK(c) /\ Desk(c, 0) /\ Bare(c, id, 0) /\ c.positions = b.positions
  BY <1>5, <1>6, CancelDesk
<1> HIDE DEF c
<1>8. MarketOK(d) /\ Desk(d, 0)
  BY <1>6, <1>7, DeleteDesk
<1> HIDE DEF d
<1>9. q = [d EXCEPT !.pool = pool]
  BY <1>2, <1>8 DEF MarketOK, MoneyOK, MarketFields
<1> HIDE DEF pool
<1>10. SameDesk(d, q)
  BY <1>8, <1>9, MoneyDesk
<1> QED
  BY <1>8, <1>10, DeskKept DEF q

LEMMA TrancheDesk ==
  ASSUME NEW n, MarketOK(n), NEW id \in DOMAIN n.positions, NEW mark \in Nat,
         NEW cum \in Int, NEW mm_bps, NEW time
  PROVE  SameDesk(n, LiquidateTranche(n, id, mark, cum, mm_bps, time))
<1> DEFINE q == LiquidateTranche(n, id, mark, cum, mm_bps, time)
<1>1. SameOrders(n, q) /\ SameIndex(n, q)
  BY DEF LiquidateTranche, DecreaseOi, WithExposure, MarketOK, MoneyOK, MarketFields,
     SameOrders, SameIndex
<1>2. \E row : /\ row.trader = n.positions[id].trader
               /\ q.positions = [n.positions EXCEPT ![id] = row]
  <2>1. RowOK(n.positions[id])
    BY RowFacts
  <2> QED
    BY <2>1 DEF LiquidateTranche, DecreaseOi, WithExposure, MarketOK, MoneyOK, MarketFields,
       RowOK, PositionFields
<1>3. PICK row : /\ row.trader = n.positions[id].trader
                 /\ q.positions = [n.positions EXCEPT ![id] = row]
  BY <1>2
<1> HIDE DEF q
<1>4. /\ DOMAIN q.positions = DOMAIN n.positions
      /\ \A i \in DOMAIN n.positions : q.positions[i].trader = n.positions[i].trader
  BY <1>3
<1>5. Owners(q) = Owners(n)
  BY <1>4 DEF Owners
<1> QED
  BY <1>1, <1>5 DEF SameDesk, q

(* Netting closes legs one after the other.                                  *)
LEMMA LegDesk ==
  ASSUME NEW n, MarketOK(n), NEW S \in SUBSET DOMAIN n.positions, NEW q,
         NEW k \in 1..4, NEW gone, Closed(n, q, gone), LegsBefore(S, k, gone), Desk(q, 0),
         NEW mark \in Nat, NEW cum \in Int
  PROVE  Desk(CloseLeg(q, S, k, mark, cum), 0)
<1> DEFINE i == Leg(S, k)
           r == settle_isolated_close(q, i, mark, cum, 0, 0)
<1>1. CASE k <= Cardinality(S)
  <2>1. S \in SUBSET Nat /\ IsFiniteSet(S)
    <3>1. DOMAIN n.positions \in SUBSET Nat /\ IsFiniteSet(DOMAIN n.positions)
      BY PositionsFinite DEF MarketOK, PositionsOK
    <3> QED
      BY <3>1, FS_Subset
  <2>2. i \in S /\ \A h \in 1..4 : h < k => Leg(S, h) # i
    BY <1>1, <2>1, LegFacts
  <2> HIDE DEF i
  <2>3. i \in DOMAIN q.positions /\ MarketOK(q)
    BY <2>2 DEF Closed, LegsBefore
  <2>4. Desk(r, 0)
    BY <2>3, CloseDesk
  <2> HIDE DEF r
  <2> QED
    BY <1>1, <2>4 DEF CloseLeg, r, i
<1>2. CASE ~(k <= Cardinality(S))
  BY <1>2 DEF CloseLeg
<1> QED
  BY <1>1, <1>2

LEMMA NettingDesk ==
  ASSUME NEW n, MarketOK(n), Desk(n, 0), NEW S \in SUBSET DOMAIN n.positions,
         NEW mark \in Nat, NEW cum \in Int
  PROVE  Desk(CloseLegs(n, S, mark, cum), 0)
<1> DEFINE By(q, k) == Desk(q, 0) /\ \E gone : Closed(n, q, gone) /\ LegsBefore(S, k, gone)
           a == CloseLeg(n, S, 1, mark, cum)
           b == CloseLeg(a, S, 2, mark, cum)
           c == CloseLeg(b, S, 3, mark, cum)
           d == CloseLeg(c, S, 4, mark, cum)
<1>1. By(n, 1)
  <2>1. Closed(n, n, {})
    BY DEF Closed, NoGrowth, MarketOK, BooksOK, OpenInterestOf
  <2> QED
    BY <2>1 DEF LegsBefore
<1>2. ASSUME NEW q, NEW k \in 1..4, By(q, k)
      PROVE  By(CloseLeg(q, S, k, mark, cum), k + 1)
  <2>1. PICK gone : Closed(n, q, gone) /\ LegsBefore(S, k, gone)
    BY <1>2
  <2>2. Desk(CloseLeg(q, S, k, mark, cum), 0)
    BY <1>2, <2>1, LegDesk
  <2>3. \E all : /\ Closed(n, CloseLeg(q, S, k, mark, cum), all)
                 /\ LegsBefore(S, k + 1, all)
    BY <2>1, LegCloses
  <2> QED
    BY <2>2, <2>3
<1> HIDE DEF By
<1>3. By(a, 1 + 1)
  BY <1>1, <1>2
<1>4. By(b, 2 + 1)
  <2> HIDE DEF a
  <2> QED
    BY <1>2, <1>3
<1>5. By(c, 3 + 1)
  <2> HIDE DEF b
  <2> QED
    BY <1>2, <1>4
<1>6. By(d, 4 + 1)
  <2> HIDE DEF c
  <2> QED
    BY <1>2, <1>5
<1>7. CloseLegs(n, S, mark, cum) = d
  BY DEF CloseLegs
<1> HIDE DEF d
<1> QED
  BY <1>6, <1>7 DEF By

-----------------------------------------------------------------------------
(* A position comes: its id was never given out, so nothing names it yet.    *)

LEMMA StoreDesk ==
  ASSUME NEW n, MarketOK(n), NEW skip, Desk(n, skip), NEW pos, RowOK(pos)
  PROVE  LET q == StorePosition(n, pos)
         IN  MarketOK(q) /\ Desk(q, skip)
<1> DEFINE id == n.position_counter + 1
           q == StorePosition(n, pos)
<1>1. MarketOK(q) /\ SameOrders(n, q)
  BY StoreMoves DEF RowsOnly
<1>2. /\ q.positions = [i \in DOMAIN n.positions \cup {id} |->
                          IF i = id THEN pos ELSE n.positions[i]]
      /\ q.open_positions = n.open_positions + 1
      /\ q.open_orders = n.open_orders /\ q.orders_of = n.orders_of /\ q.peaks = n.peaks
  BY DEF StorePosition, MarketOK, MoneyOK, MarketFields
<1>3. id \notin DOMAIN n.positions
  BY DEF MarketOK, PositionsOK
<1> HIDE DEF q, id
<1>4. /\ DOMAIN q.positions = DOMAIN n.positions \cup {id}
      /\ \A i \in DOMAIN n.positions : q.positions[i] = n.positions[i]
  BY <1>2, <1>3
<1>5. q.orders = n.orders /\ q.links = n.links
  BY <1>1 DEF SameOrders
<1>6. Pending(q) = Pending(n) /\ \A t : PendingOf(q, t) = PendingOf(n, t)
  BY <1>5 DEF Pending, PendingOf
<1>7. q.open_positions = Cardinality(DOMAIN q.positions)
  <2>1. IsFiniteSet(DOMAIN n.positions) /\ n.open_positions = Cardinality(DOMAIN n.positions)
    BY PositionsFinite DEF MarketOK, Desk, Counted
  <2> QED
    BY <1>2, <1>3, <1>4, <2>1, FS_AddElement
<1>8. Counted(q)
  BY <1>2, <1>6, <1>7 DEF Desk, Counted
<1>9. Guarded(q, skip)
  BY <1>4, <1>5, <1>6 DEF Desk, Guarded, Guards
<1>10. LinksExact(q)
  BY <1>5, <1>6 DEF Desk, LinksExact, Leads
<1>11. PeaksExact(q, skip)
  BY <1>2, <1>5, <1>6 DEF Desk, PeaksExact, Trailing
<1> QED
  BY <1>1, <1>8, <1>9, <1>10, <1>11 DEF Desk, q

(* finalize_open *)
LEMMA OpenDesk ==
  ASSUME NEW n, MarketOK(n), NEW skip, Desk(n, skip), NEW pos, RowOK(pos), NEW fee \in Nat,
         NEW payout \in Nat
  PROVE  Desk(finalize_open(n, pos, fee, payout), skip)
<1> DEFINE a == StorePosition(n, pos)
           b == IncreaseOi(a, pos.asset, pos.dir, pos.size, pos.entry)
           cut == BpsOf(fee, Config.protocol_fee_bps)
           rest == cut - Least(payout, cut)
           routed == IF rest > 0
                       THEN route_protocol_fee(TransferIn(b.pool, rest), VaultConfig, rest)
                       ELSE b.pool
           pool == credit_vault_receipt(TransferIn(routed, fee - cut), fee - cut)
           cash == b.cash - fee
           q == finalize_open(n, pos, fee, payout)
<1>1. /\ pos.asset \in Assets /\ pos.size \in Nat /\ pos.entry \in Nat \ {0}
  BY DEF RowOK, PositionOK
<1>2. MarketOK(a) /\ Desk(a, skip)
  BY StoreDesk
<1> HIDE DEF a
<1>3. MarketOK(b) /\ SameDesk(a, b)
  BY <1>1, <1>2, IncreaseOiMoves, IncreaseOiDesk
<1>4. q = [b EXCEPT !.pool = pool, !.cash = cash]
  BY <1>3 DEF finalize_open, MarketOK, MoneyOK, MarketFields, a
<1> HIDE DEF b, pool, cash, q
<1>5. SameDesk(b, q)
  BY <1>3, <1>4, MoneyDesk
<1> QED
  BY <1>2, <1>3, <1>5, DeskKept DEF q

-----------------------------------------------------------------------------
(* An order comes. *)

(* The row of one order is new. *)
Placed(n, q, o, order) ==
  /\ o \notin DOMAIN n.orders
  /\ DOMAIN q.orders = DOMAIN n.orders \cup {o}
  /\ q.orders[o] = order
  /\ \A i \in DOMAIN n.orders : q.orders[i] = n.orders[i]
  /\ q.links = n.links /\ q.peaks = n.peaks /\ q.positions = n.positions
  /\ q.open_positions = n.open_positions

LEMMA PlacedFrame ==
  ASSUME NEW n, MarketOK(n), NEW order \in OrderRows, EntryFunded(order),
         NEW q, BookOnly(n, q), q.links = n.links, q.orders = Append(n.orders, order),
         q.peaks = n.peaks, q.open_positions = n.open_positions
  PROVE  /\ MarketOK(q) /\ Placed(n, q, Len(n.orders) + 1, order)
         /\ Len(n.orders) + 1 # 0
<1> DEFINE o == Len(n.orders) + 1
<1>1. /\ MarketOK(q)
      /\ DOMAIN q.orders = DOMAIN n.orders \cup {o}
      /\ q.orders[o] = order
      /\ \A i \in DOMAIN n.orders : q.orders[i] = n.orders[i]
  BY AppendMoves
<1>2. n.orders \in Seq(OrderRows)
  BY DEF MarketOK, OrdersOK
<1>3. o \notin DOMAIN n.orders /\ o # 0
  BY <1>2
<1> HIDE DEF o
<1>4. q.positions = n.positions
  BY DEF BookOnly, SamePositions
<1>5. MarketOK(q) /\ Placed(n, q, o, order)
  BY <1>1, <1>3, <1>4 DEF Placed
<1> QED
  BY <1>3, <1>5 DEF o

(* save_order counts the row, and the order is set aside until it is linked. *)
LEMMA StoreOrderDesk ==
  ASSUME NEW n, MarketOK(n), Desk(n, 0), NEW order \in OrderRows, EntryFunded(order),
         order.status = "Pending"
  PROVE  LET q == StoreOrder(n, order)
             o == Len(n.orders) + 1
         IN  /\ MarketOK(q) /\ Desk(q, o) /\ Placed(n, q, o, order) /\ o # 0
             /\ order.type \in EntryTypes => Desk(q, 0)
<1> DEFINE q == StoreOrder(n, order)
           o == Len(n.orders) + 1
           t == order.trader
<1>1. BookOnly(n, q) /\ q.links = n.links /\ q.orders = Append(n.orders, order)
  BY StoreOrderBook
<1>2. /\ q.open_orders = n.open_orders + 1 /\ q.peaks = n.peaks
      /\ q.orders_of = [n.orders_of EXCEPT ![t] = n.orders_of[t] + 1]
      /\ q.open_positions = n.open_positions
  BY DEF StoreOrder, MarketOK, MoneyOK, MarketFields
<1> HIDE DEF q
<1>3. MarketOK(q) /\ Placed(n, q, o, order) /\ o # 0
  BY <1>1, <1>2, PlacedFrame
<1>4. t \in Traders
  BY DEF OrderRows
<1> HIDE DEF o, t
<1>5. o \notin Pending(n) /\ Pending(q) = Pending(n) \cup {o}
  BY <1>3 DEF Placed, Pending
<1>6. /\ PendingOf(q, t) = PendingOf(n, t) \cup {o}
      /\ \A x : x # t => PendingOf(q, x) = PendingOf(n, x)
  BY <1>3, <1>5 DEF Placed, Pending, PendingOf, t
<1>7. q.open_orders = Cardinality(Pending(q))
  <2>1. n.open_orders = Cardinality(Pending(n)) /\ IsFiniteSet(Pending(n))
    BY PendingFinite DEF Desk, Counted
  <2> QED
    BY <1>2, <1>5, <2>1, FS_AddElement
<1>8. q.orders_of[t] = Cardinality(PendingOf(q, t))
  <2>1. n.orders_of[t] = Cardinality(PendingOf(n, t)) /\ IsFiniteSet(PendingOf(n, t))
    BY <1>4, PendingFinite DEF Desk, Counted
  <2>2. o \notin PendingOf(n, t)
    BY <1>5 DEF PendingOf
  <2>3. q.orders_of[t] = n.orders_of[t] + 1
    BY <1>2, <1>4 DEF Desk, Counted
  <2> QED
    BY <1>6, <2>1, <2>2, <2>3, FS_AddElement
<1>9. Counted(q)
  <2>1. \A x \in Traders : x # t => q.orders_of[x] = Cardinality(PendingOf(q, x))
    BY <1>2, <1>6 DEF Desk, Counted
  <2>2. DOMAIN q.orders_of = Traders /\ q.open_positions = Cardinality(DOMAIN q.positions)
    BY <1>2, <1>3 DEF Desk, Counted, Placed
  <2> QED
    BY <1>7, <1>8, <2>1, <2>2 DEF Counted
<1>10. \A i \in Pending(n) : i \in DOMAIN n.orders /\ i # 0 /\ i # o
  <2>1. 0 \notin DOMAIN n.orders
    BY DEF MarketOK, OrdersOK
  <2> QED
    BY <2>1, <1>5 DEF Pending
<1>11. Guarded(q, o)
  BY <1>3, <1>5, <1>10 DEF Desk, Guarded, Guards, Placed
<1>12. LinksExact(q)
  BY <1>3, <1>5, <1>10 DEF Desk, LinksExact, Leads, Placed
<1>13. PeaksExact(q, o)
  <2>1. DOMAIN q.peaks = Trailing(n)
    BY <1>2, <1>10 DEF Desk, PeaksExact, Trailing
  <2>2. Trailing(q) \ {o} = Trailing(n)
    BY <1>3, <1>5, <1>10 DEF Trailing, Placed
  <2> QED
    BY <2>1, <2>2 DEF PeaksExact
<1>14. Desk(q, o)
  BY <1>9, <1>11, <1>12, <1>13 DEF Desk
<1>15. ASSUME order.type \in EntryTypes
       PROVE  Desk(q, 0)
  <2>1. q.orders[o].type \notin CloseTypes /\ q.orders[o].type # "TrailingStop"
    BY <1>3, <1>15 DEF Placed, EntryTypes, CloseTypes
  <2>2. 0 \notin Pending(q)
    BY <1>3, <1>5, <1>10
  <2>3. Guarded(q, 0)
    BY <1>11, <2>1, <2>2 DEF Guarded
  <2>4. PeaksExact(q, 0)
    BY <1>13, <2>1, <2>2 DEF PeaksExact, Trailing
  <2> QED
    BY <1>9, <1>12, <2>3, <2>4 DEF Desk
<1> QED
  BY <1>3, <1>14, <1>15 DEF q, o

(* An immediate-or-cancel order that would not fill leaves a cancelled row.  *)
LEMMA RejectedDesk ==
  ASSUME NEW n, MarketOK(n), Desk(n, 0), NEW order \in OrderRows, EntryFunded(order),
         order.status # "Pending", NEW q, q = [n EXCEPT !.orders = Append(n.orders, order)]
  PROVE  Desk(q, 0)
<1> DEFINE rows == Append(n.orders, order)
           o == Len(n.orders) + 1
<1>1. /\ BookOnly(n, q) /\ q.links = n.links /\ q.orders = rows /\ q.peaks = n.peaks
      /\ q.open_positions = n.open_positions /\ q.open_orders = n.open_orders
      /\ q.orders_of = n.orders_of
  BY DEF BookOnly, MarketOK, MoneyOK, MarketFields, SameMoney, SamePositions, SameBooks
<1>2. Placed(n, q, o, order)
  BY <1>1, PlacedFrame
<1> HIDE DEF o, rows
<1>3. Pending(q) = Pending(n)
  BY <1>2 DEF Placed, Pending
<1>4. \A t : PendingOf(q, t) = PendingOf(n, t)
  BY <1>2, <1>3 DEF Placed, Pending, PendingOf
<1>5. Counted(q)
  BY <1>1, <1>2, <1>3, <1>4 DEF Desk, Counted, Placed
<1>6. \A i \in Pending(n) : i \in DOMAIN n.orders
  BY DEF Pending
<1>7. Guarded(q, 0)
  BY <1>2, <1>3, <1>6 DEF Desk, Guarded, Guards, Placed
<1>8. LinksExact(q)
  BY <1>2, <1>3, <1>6 DEF Desk, LinksExact, Leads, Placed
<1>9. PeaksExact(q, 0)
  BY <1>2, <1>3, <1>6 DEF Desk, PeaksExact, Trailing, Placed
<1> QED
  BY <1>5, <1>7, <1>8, <1>9 DEF Desk

(* A close order is stored, then linked to its position; a trailing stop is  *)
(* on the desk once it has its peak.                                         *)
LEMMA AttachDesk ==
  ASSUME MInv, Desk(m, 0), NEW id \in DOMAIN m.positions, NEW type \in CloseTypes,
         NEW trigger \in Nat, NEW above \in BOOLEAN, NEW limit \in Nat, NEW trail \in Nat,
         NEW tol \in Nat, ~HasLink(m, type, id)
  PROVE  LET q == Attached(id, type, trigger, above, limit, trail, tol)
             o == Len(m.orders) + 1
         IN  /\ MarketOK(q) /\ Counted(q) /\ Guarded(q, 0) /\ LinksExact(q)
             /\ type # "TrailingStop" => Trailing(q) = Trailing(m)
             /\ type = "TrailingStop" => Trailing(q) = Trailing(m) \cup {o}
             /\ q.peaks = m.peaks
<1> DEFINE pos == m.positions[id]
           order == [trader |-> pos.trader, asset |-> pos.asset, type |-> type,
                     dir |-> pos.dir, collateral |-> 0, leverage |-> 0,
                     trigger |-> trigger, above |-> above, limit |-> limit,
                     trail |-> trail, tolerance |-> tol, reduce_only |-> FALSE,
                     phase |-> 0, position_id |-> id, status |-> "Pending"]
           a == StoreOrder(m, order)
           o == Len(m.orders) + 1
           link == <<type, id, o>>
           q == Attached(id, type, trigger, above, limit, trail, tol)
<1>1. /\ MarketOK(m) /\ RowOK(pos) /\ id \in Nat
      /\ pos.trader \in Traders /\ pos.asset \in Assets /\ pos.dir \in Dirs
  BY StateFacts, RowFacts DEF MarketOK, PositionsOK, RowOK, PositionOK
<1>2. q = [a EXCEPT !.links = @ \cup {link}]
  BY DEF Attached
<1>3. MarketOK(q)
  BY AttachMoves
<1> HIDE DEF q
<1>4. /\ order \in OrderRows /\ order.type = type /\ order.status = "Pending"
      /\ order.position_id = id /\ order.trader = pos.trader
  BY <1>1 DEF OrderRows
<1>5. EntryFunded(order)
  <2>1. type \notin EntryTypes
    BY DEF EntryTypes, CloseTypes
  <2> HIDE DEF order
  <2> QED
    BY <1>4, <2>1 DEF EntryFunded
<1> HIDE DEF order
<1>6. MarketOK(a) /\ Desk(a, o) /\ Placed(m, a, o, order) /\ o # 0
  BY <1>1, <1>4, <1>5, StoreOrderDesk
<1> HIDE DEF a, o
<1>7. /\ q.orders = a.orders /\ q.positions = a.positions /\ q.peaks = a.peaks
      /\ q.open_orders = a.open_orders /\ q.orders_of = a.orders_of
      /\ q.open_positions = a.open_positions /\ q.links = a.links \cup {link}
  BY <1>2, <1>6 DEF MarketOK, MoneyOK, MarketFields
<1>8. Pending(q) = Pending(a) /\ \A t : PendingOf(q, t) = PendingOf(a, t)
  BY <1>7 DEF Pending, PendingOf
<1>9. Counted(q)
  BY <1>6, <1>7, <1>8 DEF Desk, Counted
<1>10. Guards(q, o, id)
  BY <1>4, <1>6, <1>7 DEF Guards, Placed, pos
<1>11. Guarded(q, 0)
  <2>1. q.orders[o].position_id = id
    BY <1>4, <1>6, <1>7 DEF Placed
  <2>2. \A x \in Pending(a) \ {o} :
          q.orders[x].type \in CloseTypes => Guards(q, x, q.orders[x].position_id)
    BY <1>6, <1>7 DEF Desk, Guarded, Guards
  <2> QED
    BY <1>8, <1>10, <2>1, <2>2 DEF Guarded
<1>12. \A l \in m.links : ~(l[1] = type /\ l[2] = id)
  <2> SUFFICES ASSUME NEW l \in m.links, l[1] = type, l[2] = id
               PROVE  FALSE
    OBVIOUS
  <2>1. Leads(m, l)
    BY DEF Desk, LinksExact
  <2>2. l = <<type, id, l[3]>> /\ l[3] \in DOMAIN m.orders
    BY <2>1 DEF Leads, Pending
  <2> QED
    BY <2>2 DEF HasLink
<1>13. link[1] = type /\ link[2] = id /\ link[3] = o /\ link = <<link[1], link[2], link[3]>>
  OBVIOUS
<1>14. o \in Pending(q)
  BY <1>4, <1>6, <1>7 DEF Placed, Pending
<1> HIDE DEF link
<1>15. LinksExact(q)
  <2>1. a.links = m.links
    BY <1>6 DEF Placed
  <2>2. Leads(q, link)
    BY <1>4, <1>6, <1>7, <1>13, <1>14 DEF Leads, Placed
  <2>3. \A l \in m.links : Leads(q, l)
    BY <1>6, <1>7, <1>8, <2>1 DEF Desk, LinksExact, Leads
  <2>4. \A l, k \in m.links : k[1] = l[1] /\ k[2] = l[2] => k = l
    BY DEF Desk, LinksExact
  <2> QED
    BY <1>7, <1>12, <1>13, <2>1, <2>2, <2>3, <2>4 DEF LinksExact
<1>16. /\ type # "TrailingStop" => Trailing(q) = Trailing(m)
       /\ type = "TrailingStop" => Trailing(q) = Trailing(m) \cup {o}
  BY <1>4, <1>6, <1>7 DEF Trailing, Pending, Placed
<1>17. q.peaks = m.peaks
  BY <1>6, <1>7 DEF Placed
<1> QED
  BY <1>3, <1>9, <1>11, <1>15, <1>16, <1>17 DEF q, o

LEMMA NoOrderZero ==
  ASSUME NEW n, MarketOK(n)
  PROVE  0 \notin Pending(n) /\ 0 \notin Trailing(n)
BY DEF MarketOK, OrdersOK, Pending, Trailing

(* A peak given or moved. *)
LEMMA PeakDesk ==
  ASSUME NEW n, MarketOK(n), Counted(n), Guarded(n, 0), LinksExact(n), NEW o, NEW price,
         DOMAIN n.peaks \cup {o} = Trailing(n)
  PROVE  Desk(WithPeak(n, o, price), 0)
<1> DEFINE q == WithPeak(n, o, price)
<1>1. /\ q.peaks = [i \in DOMAIN n.peaks \cup {o} |-> IF i = o THEN price ELSE n.peaks[i]]
      /\ q.orders = n.orders /\ q.links = n.links /\ q.positions = n.positions
      /\ q.open_orders = n.open_orders /\ q.orders_of = n.orders_of
      /\ q.open_positions = n.open_positions
  BY DEF WithPeak, MarketOK, MoneyOK, MarketFields
<1> HIDE DEF q
<1>2. Pending(q) = Pending(n) /\ \A t : PendingOf(q, t) = PendingOf(n, t)
  BY <1>1 DEF Pending, PendingOf
<1>3. Counted(q)
  BY <1>1, <1>2 DEF Counted
<1>4. Guarded(q, 0)
  BY <1>1, <1>2 DEF Guarded, Guards
<1>5. LinksExact(q)
  BY <1>1, <1>2 DEF LinksExact, Leads
<1>6. PeaksExact(q, 0)
  <2>1. Trailing(q) = Trailing(n) /\ 0 \notin Trailing(n)
    BY <1>1, <1>2, NoOrderZero DEF Trailing
  <2> QED
    BY <1>1, <2>1 DEF PeaksExact
<1> QED
  BY <1>3, <1>4, <1>5, <1>6 DEF Desk, q

-----------------------------------------------------------------------------
(* An order leaves unfilled. *)

LEMMA WithdrawnDesk ==
  ASSUME MarketOK(m), Desk(m, 0), NEW o \in DOMAIN m.orders, NEW status \in FinalStatuses,
         m.orders[o].status = "Pending"
  PROVE  LET q == WithdrawnOrder(o, status)
         IN  MarketOK(q) /\ Desk(q, 0) /\ o \notin Pending(q)
<1> DEFINE order == m.orders[o]
           type == order.type
           id == order.position_id
           a == IF type = "TrailingStop" THEN DropPeaks(m, {o}) ELSE m
           b == IF type \in CloseTypes THEN DropLink(a, type, id) ELSE a
           c == update_order_status(b, {o}, status)
           cash == c.cash - Refund(order)
           q == WithdrawnOrder(o, status)
<1>1. o \in Pending(m) /\ o # 0
  BY DEF Pending, MarketOK, OrdersOK
<1>2. /\ MarketOK(a) /\ a.orders = m.orders /\ a.links = m.links /\ a.positions = m.positions
      /\ a.open_orders = m.open_orders /\ a.orders_of = m.orders_of
      /\ a.open_positions = m.open_positions
      /\ DOMAIN a.peaks = IF type = "TrailingStop" THEN DOMAIN m.peaks \ {o} ELSE DOMAIN m.peaks
  <2>1. CASE type = "TrailingStop"
    <3>1. MarketOK(a)
      BY <2>1, DropPeaksBook
    <3> QED
      BY <2>1, <3>1 DEF DropPeaks, MarketOK, MoneyOK, MarketFields
  <2>2. CASE type # "TrailingStop"
    BY <2>2
  <2> QED
    BY <2>1, <2>2
<1>3. /\ MarketOK(b) /\ b.orders = m.orders /\ b.positions = m.positions
      /\ b.open_orders = m.open_orders /\ b.orders_of = m.orders_of
      /\ b.open_positions = m.open_positions /\ b.peaks = a.peaks
      /\ b.links = IF type \in CloseTypes
                     THEN {l \in m.links : ~(l[1] = type /\ l[2] = id)} ELSE m.links
  <2> HIDE DEF a
  <2>1. CASE type \in CloseTypes
    <3>1. MarketOK(b)
      BY <1>2, <2>1, DropLinkBook
    <3> QED
      BY <1>2, <2>1, <3>1 DEF DropLink, MarketOK, MoneyOK, MarketFields
  <2>2. CASE type \notin CloseTypes
    BY <1>2, <2>2
  <2> QED
    BY <2>1, <2>2
<1>4. MarketOK(q)
  BY WithdrawMoves
<1>5. q = [c EXCEPT !.cash = @ - Refund(order)]
  BY DEF WithdrawnOrder
<1> HIDE DEF a, b
<1>6. /\ Pending(b) = Pending(m) /\ \A t : PendingOf(b, t) = PendingOf(m, t)
  BY <1>3 DEF Pending, PendingOf
<1>7. Counted(b)
  BY <1>3, <1>6 DEF Desk, Counted
<1>8. \A l \in m.links : l[3] = o => type \in CloseTypes /\ l[1] = type /\ l[2] = id
  BY DEF MarketOK, OrdersOK, Desk, LinksExact, Leads
<1>9. Unlinked(b, o)
  BY <1>3, <1>8 DEF Unlinked
<1>10. Guarded(b, o)
  <2> SUFFICES ASSUME NEW x \in Pending(m) \ {o}, m.orders[x].type \in CloseTypes
               PROVE  Guards(b, x, m.orders[x].position_id)
    BY <1>3, <1>6 DEF Guarded
  <2> DEFINE xt == m.orders[x].type
             xp == m.orders[x].position_id
             l == <<xt, xp, x>>
  <2>1. Guards(m, x, xp) /\ l \in m.links
    BY <1>1, NoOrderZero DEF Desk, Guarded, Guards
  <2>2. l[1] = xt /\ l[2] = xp /\ l[3] = x
    OBVIOUS
  <2>3. type \in CloseTypes => <<type, id, o>> \in m.links
    BY <1>1 DEF Desk, Guarded, Guards
  <2>4. <<type, id, o>>[1] = type /\ <<type, id, o>>[2] = id /\ <<type, id, o>>[3] = o
    OBVIOUS
  <2> HIDE DEF l
  <2>5. type \in CloseTypes => ~(l[1] = type /\ l[2] = id)
    BY <2>1, <2>2, <2>3, <2>4 DEF Desk, LinksExact
  <2>6. l \in b.links
    BY <1>3, <2>1, <2>5
  <2> QED
    BY <1>3, <2>1, <2>6 DEF Guards, l
<1>11. LinksExact(b)
  <2>1. \A l \in b.links : l \in m.links
    BY <1>3
  <2>2. \A l \in m.links : Leads(b, l)
    BY <1>3, <1>6 DEF Desk, LinksExact, Leads
  <2> QED
    BY <2>1, <2>2 DEF Desk, LinksExact
<1>12. PeaksExact(b, o)
  <2>1. Trailing(b) = Trailing(m)
    BY <1>3, <1>6 DEF Trailing
  <2>2. o \in Trailing(m) <=> type = "TrailingStop"
    BY <1>1 DEF Trailing
  <2>3. DOMAIN m.peaks = Trailing(m)
    BY NoOrderZero DEF Desk, PeaksExact
  <2> QED
    BY <1>2, <1>3, <2>1, <2>2, <2>3 DEF PeaksExact
<1>13. Desk(b, o)
  BY <1>7, <1>10, <1>11, <1>12 DEF Desk
<1>14. MarketOK(c) /\ Desk(c, 0) /\ o \notin Pending(c)
  BY <1>3, <1>9, <1>13, FinishDesk
<1> HIDE DEF c, q
<1>15. q = [c EXCEPT !.cash = cash]
  BY <1>5, <1>14 DEF MarketOK, MoneyOK, MarketFields
<1> HIDE DEF cash
<1>16. SameDesk(c, q)
  BY <1>14, <1>15, MoneyDesk
<1>17. Pending(q) = Pending(c)
  BY <1>16 DEF SameDesk, SameOrders, Pending
<1> QED
  BY <1>4, <1>14, <1>16, <1>17, DeskKept DEF q

(* Refunded and cancelled, then marked as executed. *)
LEMMA RefundDesk ==
  ASSUME MarketOK(m), Desk(m, 0), NEW o \in DOMAIN m.orders, m.orders[o].status = "Pending"
  PROVE  Desk(update_order_status(WithdrawnOrder(o, "Cancelled"), {o}, "Executed"), 0)
<1> DEFINE a == WithdrawnOrder(o, "Cancelled")
<1>1. "Cancelled" \in FinalStatuses /\ "Executed" \in FinalStatuses
  BY DEF FinalStatuses
<1>2. MarketOK(a) /\ Desk(a, 0) /\ o \notin Pending(a)
  BY <1>1, WithdrawnDesk
<1> HIDE DEF a
<1>3. Unlinked(a, o)
  BY <1>2 DEF Desk, LinksExact, Leads, Unlinked
<1>4. Desk(a, o)
  <2>1. 0 \notin Pending(a) /\ 0 \notin Trailing(a) /\ o \notin Trailing(a)
    BY <1>2, NoOrderZero DEF Trailing
  <2> QED
    BY <1>2, <2>1 DEF Desk, Guarded, PeaksExact
<1> QED
  BY <1>1, <1>2, <1>3, <1>4, FinishDesk DEF a

(* Terms of an entry order are rewritten: its phase, or the position it opened. *)
LEMMA RewrittenDesk ==
  ASSUME NEW n, MarketOK(n), NEW skip, Desk(n, skip), NEW o \in DOMAIN n.orders,
         n.orders[o].type \in EntryTypes, NEW row,
         row.type = n.orders[o].type, row.status = n.orders[o].status,
         row.trader = n.orders[o].trader,
         NEW q, q = [n EXCEPT !.orders = [n.orders EXCEPT ![o] = row]]
  PROVE  Desk(q, skip)
<1> DEFINE rows == [n.orders EXCEPT ![o] = row]
<1>1. /\ q.orders = rows /\ q.links = n.links /\ q.peaks = n.peaks
      /\ q.positions = n.positions /\ q.open_orders = n.open_orders
      /\ q.orders_of = n.orders_of /\ q.open_positions = n.open_positions
  BY DEF MarketOK, MoneyOK, MarketFields
<1>2. /\ DOMAIN rows = DOMAIN n.orders /\ rows[o] = row
      /\ \A i \in DOMAIN n.orders : i # o => rows[i] = n.orders[i]
  OBVIOUS
<1> HIDE DEF rows
<1>3. \A i \in DOMAIN n.orders : /\ rows[i].type = n.orders[i].type
                                 /\ rows[i].status = n.orders[i].status
                                 /\ rows[i].trader = n.orders[i].trader
  BY <1>2
<1>4. Pending(q) = Pending(n) /\ \A i \in Pending(n) : i \in DOMAIN n.orders
  BY <1>1, <1>2, <1>3 DEF Pending
<1>5. \A t : PendingOf(q, t) = PendingOf(n, t)
  BY <1>1, <1>3, <1>4 DEF PendingOf
<1>6. n.orders[o].type \notin CloseTypes
  BY DEF EntryTypes, CloseTypes
<1>7. Counted(q)
  BY <1>1, <1>4, <1>5 DEF Desk, Counted
<1>8. Guarded(q, skip)
  BY <1>1, <1>2, <1>3, <1>4, <1>6 DEF Desk, Guarded, Guards
<1>9. LinksExact(q)
  <2>1. \A l \in n.links : l[3] # o
    BY <1>6 DEF MarketOK, OrdersOK
  <2> QED
    BY <1>1, <1>2, <1>4, <2>1 DEF Desk, LinksExact, Leads
<1>10. PeaksExact(q, skip)
  BY <1>1, <1>3, <1>4 DEF Desk, PeaksExact, Trailing
<1> QED
  BY <1>7, <1>8, <1>9, <1>10 DEF Desk

-----------------------------------------------------------------------------
(* The actions.  Those that move money, collateral or sizes first. *)

LEMMA CloseKeepsDesk ==
  ASSUME MInv, Desk(m, 0), NEW id \in DOMAIN m.positions, NEW mark \in Prices,
         ClosePosition(id, mark)
  PROVE  Desk(m', 0)
<1> DEFINE cum == cum_funding[m.positions[id].asset]
           q == settle_isolated_close(m, id, mark, cum, 0, 0)
<1>1. mark \in Nat /\ MarketOK(m) /\ cum \in Int
  BY StateFacts, InputTypes
<1>2. m' = q
  BY DEF ClosePosition, Commit
<1> HIDE DEF cum
<1>3. Desk(q, 0)
  BY <1>1, CloseDesk
<1> HIDE DEF q
<1> QED
  BY <1>2, <1>3

LEMMA PartialKeepsDesk ==
  ASSUME MInv, Desk(m, 0), NEW id \in DOMAIN m.positions, NEW size \in CloseSizes,
         NEW mark \in Prices, ClosePositionPartial(id, size, mark)
  PROVE  Desk(m', 0)
<1> DEFINE pos == m.positions[id]
           cum == cum_funding[pos.asset]
           q == settle_isolated_close(m, id, mark, cum, 0, 0)
           r == settle_partial_close(m, id, mark, cum, size, 0)
<1>1. mark \in Nat /\ MarketOK(m) /\ cum \in Int /\ size \in Nat
  BY StateFacts, InputTypes
<1>2. CASE m' = q
  <2> HIDE DEF cum
  <2>1. Desk(q, 0)
    BY <1>1, CloseDesk
  <2> HIDE DEF q
  <2> QED
    BY <1>2, <2>1
<1>3. CASE size < pos.size /\ m' = r
  <2> HIDE DEF cum
  <2>1. SameDesk(m, r)
    BY <1>1, <1>3, PartialDesk
  <2> HIDE DEF r
  <2> QED
    BY <1>3, <2>1, DeskKept
<1> QED
  BY <1>2, <1>3 DEF ClosePositionPartial, Commit

LEMMA RemarginKeepsDesk ==
  ASSUME MInv, Desk(m, 0), NEW id \in DOMAIN m.positions, NEW collateral, NEW cash,
         m' = [m EXCEPT !.cash = cash, !.positions = Remargined(id, collateral)]
  PROVE  Desk(m', 0)
<1> DEFINE pos == m.positions[id]
           liq == Floor0(liquidation_price_from_ratio(pos.entry, collateral, pos.size,
                                                      pos.dir, mm_bps_for(pos)))
           row == [pos EXCEPT !.collateral = collateral, !.liq = liq]
           rows == Remargined(id, collateral)
<1>1. MarketOK(m) /\ DOMAIN m = MarketFields
  BY StateFacts DEF MarketOK, MoneyOK
<1>2. rows = [m.positions EXCEPT ![id] = row]
  BY DEF Remargined
<1>3. RowOK(pos)
  BY <1>1, RowFacts
<1> HIDE DEF pos, liq
<1>4. row.trader = pos.trader
  BY <1>3 DEF RowOK, PositionFields
<1> HIDE DEF row, rows
<1>5. m'.positions = rows /\ SameOrders(m, m') /\ SameIndex(m, m')
  BY <1>1 DEF MarketFields, SameOrders, SameIndex, rows
<1>6. /\ DOMAIN rows = DOMAIN m.positions
      /\ \A i \in DOMAIN m.positions : rows[i].trader = m.positions[i].trader
  BY <1>2, <1>4 DEF pos
<1>7. SameDesk(m, m')
  BY <1>5, <1>6 DEF SameDesk, Owners
<1> QED
  BY <1>7, DeskKept

LEMMA MarginKeepsDesk ==
  ASSUME MInv, Desk(m, 0), NEW id \in DOMAIN m.positions, NEW amount,
         AddCollateral(id, amount) \/ \E mark \in Prices : RemoveCollateral(id, amount, mark)
  PROVE  Desk(m', 0)
<1>1. DOMAIN m = MarketFields
  BY StateFacts DEF MarketOK, MoneyOK
<1>2. \E collateral, cash :
         m' = [m EXCEPT !.cash = cash, !.positions = Remargined(id, collateral)]
  BY <1>1 DEF AddCollateral, RemoveCollateral, Commit, MarketFields
<1> QED
  BY <1>2, RemarginKeepsDesk

LEMMA LiquidateKeepsDesk ==
  ASSUME MInv, Desk(m, 0), NEW id \in DOMAIN m.positions, NEW mark \in Prices, NEW smoothed,
         Liquidate(id, mark, smoothed)
  PROVE  Desk(m', 0)
<1> DEFINE pos == m.positions[id]
           cum == cum_funding[pos.asset]
           mm_bps == mm_bps_for(pos)
           q == LiquidateTranche(m, id, mark, cum, mm_bps, now)
           r == LiquidateFull(m, id, mark, cum)
<1>1. mark \in Nat /\ MarketOK(m) /\ cum \in Int
  BY StateFacts, InputTypes
<1>2. m' = q \/ m' = r
  BY DEF Liquidate, Commit
<1> HIDE DEF cum, mm_bps
<1>3. CASE m' = q
  <2>1. SameDesk(m, q)
    BY <1>1, TrancheDesk
  <2> HIDE DEF q
  <2> QED
    BY <1>3, <2>1, DeskKept
<1>4. CASE m' = r
  <2>1. Desk(r, 0)
    BY <1>1, LiquidateDesk
  <2> HIDE DEF r
  <2> QED
    BY <1>4, <2>1
<1> QED
  BY <1>2, <1>3, <1>4

LEMMA AdlCloseKeepsDesk ==
  ASSUME MInv, Desk(m, 0), NEW id \in DOMAIN m.positions, NEW mark \in Prices,
         AdlClose(id, mark)
  PROVE  Desk(m', 0)
<1> DEFINE pos == m.positions[id]
           cum == cum_funding[pos.asset]
           closed == settle_isolated_close(m, id, mark, cum, 0, 0)
           comp == BpsOf(pos.size, Config.adl_compensation_bps)
           pool == IF comp > 0 THEN pay_from_buffer(closed.pool, comp) ELSE closed.pool
           q == [closed EXCEPT !.pool = pool]
<1>1. mark \in Nat /\ MarketOK(m) /\ cum \in Int
  BY StateFacts, InputTypes
<1>2. m' = [closed EXCEPT !.pool = IF comp > 0 THEN pay_from_buffer(@, comp) ELSE @]
  BY DEF AdlClose, Commit
<1> HIDE DEF comp, cum
<1>3. MarketOK(closed) /\ Desk(closed, 0)
  BY <1>1, CloseDesk
<1> HIDE DEF closed
<1>4. m' = q
  BY <1>2, <1>3 DEF MarketOK, MoneyOK, MarketFields
<1> HIDE DEF pool
<1>5. SameDesk(closed, q)
  BY <1>3, MoneyDesk
<1> HIDE DEF q
<1> QED
  BY <1>3, <1>4, <1>5, DeskKept

(* The vault's users, the flag and the mark move no row. *)
LEMMA PoolKeepsDesk ==
  ASSUME MInv, Desk(m, 0),
         \/ VaultStep
         \/ \E a \in Assets, mark \in Prices : CheckAdlTrigger(a, mark) \/ SyncAssetPnl(a, mark)
  PROVE  Desk(m', 0)
<1>1. DOMAIN m = MarketFields
  BY StateFacts DEF MarketOK, MoneyOK
<1>2. \/ \E pool : m' = [m EXCEPT !.pool = pool]
      \/ \E adl : m' = [m EXCEPT !.adl = adl]
  BY <1>1 DEF VaultStep, ClaimShortfall, LpWithdraw, CheckAdlTrigger, SyncAssetPnl, Commit,
     MarketFields
<1>3. SamePositions(m, m') /\ SameOrders(m, m') /\ SameIndex(m, m')
  BY <1>1, <1>2 DEF MarketFields, SamePositions, SameOrders, SameIndex
<1>4. SameDesk(m, m')
  BY <1>3, OwnersSame DEF SameDesk
<1> QED
  BY <1>4, DeskKept

LEMMA ReseedKeepsDesk ==
  ASSUME MInv, Desk(m, 0), NEW ids, ReseedFunding(ids)
  PROVE  Desk(m', 0)
<1> DEFINE Row(i) == [m.positions[i] EXCEPT !.entry_cum = cum_funding[m.positions[i].asset]]
           rows == [i \in DOMAIN m.positions |-> IF i \in ids THEN Row(i) ELSE m.positions[i]]
<1>1. MarketOK(m) /\ DOMAIN m = MarketFields
  BY StateFacts DEF MarketOK, MoneyOK
<1>2. m' = [m EXCEPT !.positions = rows]
  BY DEF ReseedFunding, Commit
<1>3. \A i \in DOMAIN m.positions : Row(i).trader = m.positions[i].trader
  <2>1. \A i \in DOMAIN m.positions : DOMAIN m.positions[i] = PositionFields
    BY <1>1 DEF MarketOK, PositionsOK, RowOK
  <2> QED
    BY <2>1 DEF PositionFields
<1> HIDE DEF Row
<1>4. /\ DOMAIN rows = DOMAIN m.positions
      /\ \A i \in DOMAIN m.positions : rows[i].trader = m.positions[i].trader
  BY <1>3
<1> HIDE DEF rows
<1>5. m'.positions = rows /\ SameOrders(m, m') /\ SameIndex(m, m')
  BY <1>1, <1>2 DEF MarketFields, SameOrders, SameIndex
<1>6. SameDesk(m, m')
  BY <1>4, <1>5 DEF SameDesk, Owners
<1> QED
  BY <1>6, DeskKept

-----------------------------------------------------------------------------
(* Placing and cancelling. *)

LEMMA EntryPlaced ==
  ASSUME MInv, Desk(m, 0), NEW order \in OrderRows, EntryFunded(order),
         order.type \in EntryTypes, order.status = "Pending", NEW c \in Nat
  PROVE  Desk(StoreOrder([m EXCEPT !.cash = @ + c], order), 0)
<1> DEFINE cash == m.cash + c
           a == [m EXCEPT !.cash = @ + c]
<1>1. MarketOK(m) /\ DOMAIN m = MarketFields
  BY StateFacts DEF MarketOK, MoneyOK
<1>2. cash \in Int
  BY <1>1, HeldTypes
<1>3. a = [m EXCEPT !.cash = cash]
  BY <1>1 DEF MarketFields
<1> HIDE DEF a, cash
<1>4. MarketOK(a) /\ SameDesk(m, a)
  BY <1>1, <1>2, <1>3, CashMoves, MoneyDesk
<1>5. Desk(a, 0)
  BY <1>4, DeskKept
<1>6. Desk(StoreOrder(a, order), 0)
  BY <1>4, <1>5, StoreOrderDesk
<1> QED
  BY <1>6 DEF a

LEMMA LimitKeepsDesk ==
  ASSUME MInv, Desk(m, 0), NEW t \in Traders, NEW a \in Assets, NEW dir \in Dirs,
         NEW c \in Collaterals, NEW lev \in Leverages, NEW trigger \in Triggers,
         NEW above \in BOOLEAN, NEW tol \in Tolerances, NEW tif, NEW ro \in BOOLEAN, NEW mark,
         PlaceLimitOrder(t, a, dir, c, lev, trigger, above, tol, tif, ro, mark)
  PROVE  Desk(m', 0)
<1> DEFINE order == EntryOrder(t, a, "LimitEntry", dir, c, lev, trigger, above, 0, tol, ro)
           gone == [order EXCEPT !.status = "Cancelled"]
           q == [m EXCEPT !.orders = Append(m.orders, gone)]
           r == StoreOrder([m EXCEPT !.cash = @ + c], order)
<1>1. order \in OrderRows /\ EntryFunded(order) /\ order.type \in EntryTypes
      /\ order.status = "Pending"
  <2>1. "LimitEntry" \in EntryTypes
    BY DEF EntryTypes
  <2> QED
    BY <2>1, EntryOrderRow
<1>2. MarketOK(m) /\ DOMAIN m = MarketFields /\ c \in Nat
  BY StateFacts, InputTypes DEF MarketOK, MoneyOK
<1>3. m' = [m EXCEPT !.orders = Append(@, gone)] \/ m' = r
  BY DEF PlaceLimitOrder, Commit
<1> HIDE DEF order
<1>4. m' = q \/ m' = r
  BY <1>2, <1>3 DEF MarketFields
<1>5. Desk(q, 0)
  <2>1. gone \in OrderRows /\ EntryFunded(gone) /\ gone.status # "Pending"
    BY <1>1 DEF OrderRows, EntryFunded
  <2> HIDE DEF gone
  <2> QED
    BY <1>2, <2>1, RejectedDesk
<1>6. Desk(r, 0)
  BY <1>1, <1>2, EntryPlaced
<1> HIDE DEF q, r
<1> QED
  BY <1>4, <1>5, <1>6

LEMMA StopLimitKeepsDesk ==
  ASSUME MInv, Desk(m, 0), NEW t \in Traders, NEW a \in Assets, NEW dir \in Dirs,
         NEW c \in Collaterals, NEW lev \in Leverages, NEW trigger \in Triggers,
         NEW limit \in Triggers, NEW above \in BOOLEAN, NEW tol \in Tolerances,
         NEW ro \in BOOLEAN,
         PlaceStopLimitOrder(t, a, dir, c, lev, trigger, limit, above, tol, ro)
  PROVE  Desk(m', 0)
<1> DEFINE order == EntryOrder(t, a, "StopLimit", dir, c, lev, trigger, above, limit, tol, ro)
           r == StoreOrder([m EXCEPT !.cash = @ + c], order)
<1>1. order \in OrderRows /\ EntryFunded(order) /\ order.type \in EntryTypes
      /\ order.status = "Pending"
  <2>1. "StopLimit" \in EntryTypes /\ limit \in Nat
    BY OrderInputs DEF EntryTypes
  <2> QED
    BY <2>1, EntryOrderRow
<1>2. c \in Nat /\ m' = r
  BY InputTypes DEF PlaceStopLimitOrder, Commit
<1> HIDE DEF order
<1>3. Desk(r, 0)
  BY <1>1, <1>2, EntryPlaced
<1> HIDE DEF r
<1> QED
  BY <1>2, <1>3

(* A stop-loss or take-profit is on the desk as soon as it is linked.        *)
LEMMA AttachedWhole ==
  ASSUME MInv, Desk(m, 0), NEW id \in DOMAIN m.positions, NEW type \in CloseTypes,
         type # "TrailingStop", NEW trigger \in Nat, NEW above \in BOOLEAN, NEW limit \in Nat,
         NEW tol \in Nat, ~HasLink(m, type, id)
  PROVE  Desk(Attached(id, type, trigger, above, limit, 0, tol), 0)
<1> DEFINE q == Attached(id, type, trigger, above, limit, 0, tol)
<1>0. 0 \in Nat
  OBVIOUS
<1>1. /\ MarketOK(q) /\ Counted(q) /\ Guarded(q, 0) /\ LinksExact(q)
      /\ Trailing(q) = Trailing(m) /\ q.peaks = m.peaks
  BY <1>0, AttachDesk
<1> HIDE DEF q
<1>2. PeaksExact(q, 0)
  <2>1. MarketOK(m)
    BY StateFacts
  <2> QED
    BY <1>1, <2>1, NoOrderZero DEF Desk, PeaksExact
<1> QED
  BY <1>1, <1>2 DEF Desk, q

LEMMA AttachKeepsDesk ==
  ASSUME MInv, Desk(m, 0), NEW id \in DOMAIN m.positions, NEW tol \in Tolerances,
         \/ \E trigger \in Triggers : SetStopLoss(id, trigger, tol)
         \/ \E trigger \in Triggers, limit \in Triggers \cup {0} :
              SetTakeProfit(id, trigger, limit, tol)
         \/ \E trail \in Trails, mark \in Prices : PlaceTrailingStop(id, trail, tol, mark)
  PROVE  Desk(m', 0)
<1>1. /\ tol \in Nat /\ MarketOK(m)
      /\ {"StopLoss", "TakeProfit", "TrailingStop"} \subseteq CloseTypes
  BY OrderInputs, StateFacts DEF CloseTypes
<1>2. ASSUME NEW trigger \in Triggers, SetStopLoss(id, trigger, tol)
      PROVE  Desk(m', 0)
  <2> DEFINE above == m.positions[id].dir = "Short"
             q == Attached(id, "StopLoss", trigger, above, 0, 0, tol)
  <2>1. m' = q /\ ~HasLink(m, "StopLoss", id)
    BY <1>2 DEF SetStopLoss, CanAttach, Commit
  <2>2. trigger \in Nat /\ above \in BOOLEAN /\ "StopLoss" \in CloseTypes
    BY <1>1, OrderInputs
  <2> HIDE DEF above
  <2>3. Desk(q, 0)
    BY <1>1, <2>1, <2>2, AttachedWhole
  <2> HIDE DEF q
  <2> QED
    BY <2>1, <2>3
<1>3. ASSUME NEW trigger \in Triggers, NEW limit \in Triggers \cup {0},
             SetTakeProfit(id, trigger, limit, tol)
      PROVE  Desk(m', 0)
  <2> DEFINE above == m.positions[id].dir = "Long"
             q == Attached(id, "TakeProfit", trigger, above, limit, 0, tol)
  <2>1. m' = q /\ ~HasLink(m, "TakeProfit", id)
    BY <1>3 DEF SetTakeProfit, CanAttach, Commit
  <2>2. trigger \in Nat /\ limit \in Nat /\ above \in BOOLEAN /\ "TakeProfit" \in CloseTypes
    BY <1>1, OrderInputs
  <2> HIDE DEF above
  <2>3. Desk(q, 0)
    BY <1>1, <2>1, <2>2, AttachedWhole
  <2> HIDE DEF q
  <2> QED
    BY <2>1, <2>3
<1>4. ASSUME NEW trail \in Trails, NEW mark \in Prices, PlaceTrailingStop(id, trail, tol, mark)
      PROVE  Desk(m', 0)
  <2> DEFINE above == m.positions[id].dir = "Short"
             a == Attached(id, "TrailingStop", 0, above, 0, trail, tol)
             o == Len(m.orders) + 1
             q == WithPeak(a, o, mark)
  <2>1. m' = q /\ ~HasLink(m, "TrailingStop", id)
    BY <1>4 DEF PlaceTrailingStop, CanAttach, Commit
  <2>2. trail \in Nat /\ above \in BOOLEAN /\ "TrailingStop" \in CloseTypes
    BY <1>1, OrderInputs
  <2> HIDE DEF above
  <2>3. /\ MarketOK(a) /\ Counted(a) /\ Guarded(a, 0) /\ LinksExact(a)
        /\ Trailing(a) = Trailing(m) \cup {o} /\ a.peaks = m.peaks
    BY <1>1, <2>1, <2>2, AttachDesk
  <2> HIDE DEF a, o
  <2>4. DOMAIN a.peaks \cup {o} = Trailing(a)
    BY <1>1, <2>3, NoOrderZero DEF Desk, PeaksExact
  <2>5. Desk(q, 0)
    BY <2>3, <2>4, PeakDesk
  <2> HIDE DEF q
  <2> QED
    BY <2>1, <2>5
<1> QED
  BY <1>2, <1>3, <1>4

LEMMA PeakKeepsDesk ==
  ASSUME MInv, Desk(m, 0), NEW o \in DOMAIN m.orders, NEW mark, UpdateTrailingPeak(o, mark)
  PROVE  Desk(m', 0)
<1> DEFINE q == WithPeak(m, o, mark)
<1>1. m' = q /\ o \in DOMAIN m.peaks /\ MarketOK(m)
  BY StateFacts DEF UpdateTrailingPeak, Commit
<1>2. DOMAIN m.peaks \cup {o} = Trailing(m)
  BY <1>1, NoOrderZero DEF Desk, PeaksExact
<1>3. Desk(q, 0)
  BY <1>1, <1>2, PeakDesk DEF Desk
<1> HIDE DEF q
<1> QED
  BY <1>1, <1>3

LEMMA CancelKeepsDesk ==
  ASSUME MInv, Desk(m, 0), NEW o \in DOMAIN m.orders,
         \/ CancelOrder(o)
         \/ \E mark, smoothed : ExecuteOutOfBand(o, mark, smoothed)
  PROVE  Desk(m', 0)
<1>1. /\ \E status \in FinalStatuses : m' = WithdrawnOrder(o, status)
      /\ m.orders[o].status = "Pending"
  BY DEF CancelOrder, ExecuteOutOfBand, Executable, Commit, FinalStatuses
<1>2. PICK status \in FinalStatuses : m' = WithdrawnOrder(o, status)
  BY <1>1
<1>3. Desk(WithdrawnOrder(o, status), 0)
  BY <1>1, StateFacts, WithdrawnDesk
<1> QED
  BY <1>2, <1>3

LEMMA StopPhaseKeepsDesk ==
  ASSUME MInv, Desk(m, 0), NEW o \in DOMAIN m.orders, NEW mark, ExecuteStopPhase(o, mark)
  PROVE  Desk(m', 0)
<1> DEFINE order == m.orders[o]
           row == [order EXCEPT !.phase = 1]
<1>1. MarketOK(m) /\ order \in OrderRows
  BY StateFacts DEF MarketOK, OrdersOK
<1>2. m' = [m EXCEPT !.orders = [m.orders EXCEPT ![o] = row]] /\ order.type \in EntryTypes
  BY DEF ExecuteStopPhase, Commit, EntryTypes
<1> HIDE DEF order
<1>3. row.type = order.type /\ row.status = order.status /\ row.trader = order.trader
  BY <1>1 DEF OrderRows
<1> HIDE DEF row
<1> QED
  BY <1>1, <1>2, <1>3, RewrittenDesk DEF order

LEMMA IllegalKeepsDesk ==
  ASSUME MInv, Desk(m, 0), NEW o \in DOMAIN m.orders, NEW mark, ExecuteIllegalEntry(o, mark)
  PROVE  Desk(m', 0)
<1>1. m.orders[o].status = "Pending"
  BY HeadFacts DEF ExecuteIllegalEntry, FillsEntry
<1>2. m' = update_order_status(WithdrawnOrder(o, "Cancelled"), {o}, "Executed")
  BY DEF ExecuteIllegalEntry, Commit
<1> QED
  BY <1>1, <1>2, StateFacts, RefundDesk

-----------------------------------------------------------------------------
(* Executions. *)

(* An entry order guards nothing, is linked to nothing and has no peak: it   *)
(* may be set aside.                                                         *)
LEMMA EntryAside ==
  ASSUME NEW n, MarketOK(n), Desk(n, 0), NEW o \in DOMAIN n.orders,
         n.orders[o].type \in EntryTypes
  PROVE  Desk(n, o) /\ Unlinked(n, o)
<1>1. n.orders[o].type \notin CloseTypes /\ n.orders[o].type # "TrailingStop"
  BY DEF EntryTypes, CloseTypes
<1>2. Unlinked(n, o)
  BY <1>1 DEF MarketOK, OrdersOK, Unlinked
<1>3. Guarded(n, o) /\ PeaksExact(n, o)
  <2>1. 0 \notin Pending(n) /\ 0 \notin Trailing(n) /\ o \notin Trailing(n)
    BY <1>1, NoOrderZero DEF Trailing
  <2> QED
    BY <2>1 DEF Desk, Guarded, PeaksExact
<1> QED
  BY <1>2, <1>3 DEF Desk

(* The order is filled: its position is on the desk, the order is not. *)
LEMMA FillDesk ==
  ASSUME MInv, NEW o \in DOMAIN m.orders, m.orders[o].type \in EntryTypes,
         NEW pos, RowOK(pos), NEW fee \in Nat, NEW keeper_fee \in Nat, NEW payout \in Nat,
         NEW a, MarketOK(a), Desk(a, 0), a.orders = m.orders
  PROVE  LET b == finalize_open(a, pos, fee, payout)
             c == [b EXCEPT !.cash = @ - keeper_fee,
                            !.orders = [b.orders EXCEPT
                               ![o] = [m.orders[o] EXCEPT !.position_id = b.position_counter]]]
         IN  Desk(update_order_status(c, {o}, "Executed"), 0)
<1> DEFINE order == m.orders[o]
           b == finalize_open(a, pos, fee, payout)
           c == [b EXCEPT !.cash = @ - keeper_fee,
                          !.orders = [b.orders EXCEPT
                             ![o] = [m.orders[o] EXCEPT !.position_id = b.position_counter]]]
           q == update_order_status(c, {o}, "Executed")
           row == [order EXCEPT !.position_id = b.position_counter]
           cash == b.cash - keeper_fee
           d == [b EXCEPT !.cash = cash]
<1>1. MarketOK(m) /\ order \in OrderRows
  BY StateFacts DEF MarketOK, OrdersOK
<1>2. MarketOK(b) /\ b.orders = m.orders /\ Desk(b, 0)
  BY <1>1, OpenMoves, OpenDesk
<1> HIDE DEF b
<1>3. cash \in Int /\ b.position_counter \in Nat
  BY <1>2, HeldTypes DEF MarketOK, PositionsOK
<1>4. MarketOK(d) /\ d.orders = b.orders /\ Desk(d, 0)
  <2>1. SameDesk(b, d)
    BY <1>2, MoneyDesk
  <2> QED
    BY <1>2, <1>3, <2>1, CashMoves, DeskKept
<1>5. /\ row \in OrderRows /\ row.type = order.type /\ row.status = order.status
      /\ row.collateral = order.collateral /\ row.leverage = order.leverage
      /\ row.trader = order.trader
  BY <1>1, <1>3 DEF OrderRows
<1>6. c = [d EXCEPT !.orders = [d.orders EXCEPT ![o] = row]]
  BY <1>2, <1>4 DEF MarketOK, MoneyOK, MarketFields
<1> HIDE DEF c, d, row, cash
<1>7. o \in DOMAIN d.orders /\ d.orders = m.orders /\ d.orders[o] = order
  BY <1>2, <1>4
<1>8. order.type \in EntryTypes
  OBVIOUS
<1> HIDE DEF order
<1>9. MarketOK(c) /\ o \in DOMAIN c.orders /\ c.orders[o] = row
  BY <1>4, <1>5, <1>6, <1>7, OrderRewritten
<1>10. Desk(c, 0)
  BY <1>4, <1>5, <1>6, <1>7, <1>8, RewrittenDesk
<1>11. Desk(c, o) /\ Unlinked(c, o)
  BY <1>5, <1>8, <1>9, <1>10, EntryAside
<1>12. Desk(q, 0)
  <2>1. "Executed" \in FinalStatuses
    BY DEF FinalStatuses
  <2> QED
    BY <1>9, <1>11, <2>1, FinishDesk
<1> HIDE DEF q
<1> QED
  BY <1>12 DEF b, c, q

LEMMA EntryKeepsDesk ==
  ASSUME MInv, Desk(m, 0), NEW o \in DOMAIN m.orders, NEW mark \in Prices, NEW fee \in Fees,
         NEW payout \in Payouts, ExecuteEntry(o, mark, fee, payout)
  PROVE  Desk(m', 0)
<1> DEFINE order == m.orders[o]
           size == calculate_position_size(order.collateral, order.leverage)
           keeper_fee == calculate_keeper_order_fee(size)
           left == order.collateral - fee - keeper_fee
           pool == reserve_for_position(m.pool, size)
           a == [m EXCEPT !.pool = pool]
           pos == NewPosition(order.trader, order.asset, order.dir, size, left,
                              order.leverage, mark)
           b == finalize_open(a, pos, fee, payout)
           c == [b EXCEPT !.cash = @ - keeper_fee,
                          !.orders = [b.orders EXCEPT
                             ![o] = [m.orders[o] EXCEPT !.position_id = b.position_counter]]]
           q == update_order_status(c, {o}, "Executed")
<1>1. MarketOK(m) /\ order \in OrderRows /\ order.type \in EntryTypes
  BY StateFacts, HeadFacts DEF ExecuteEntry, FillsEntry
<1>2. /\ order.trader \in Traders /\ order.asset \in Assets /\ order.dir \in Dirs
      /\ order.collateral \in Nat /\ order.leverage \in Nat \ {0}
  <2>1. order.leverage > 0
    BY <1>1 DEF MarketOK, OrdersOK
  <2> HIDE DEF order
  <2> QED
    BY <1>1, <2>1 DEF OrderRows
<1>3. mark \in Nat \ {0} /\ fee \in Nat /\ payout \in Nat
  BY InputTypes
<1>4. /\ RiskKnown(order.asset)
      /\ reserve_with_vault(m, order.asset, order.dir, size)
      /\ fee + keeper_fee < order.collateral
  BY DEF ExecuteEntry, StillLegal
<1>5. m' = q
  <2>1. a = [m EXCEPT !.pool = reserve_for_position(@, size)]
    BY <1>1 DEF MarketOK, MoneyOK, MarketFields
  <2> QED
    BY <2>1 DEF ExecuteEntry, Commit
<1>6. size \in Nat \ {0}
  <2>1. size \in Nat
    BY <1>2 DEF calculate_position_size
  <2>2. size > 0
    BY <1>4, PositiveReserve
  <2> QED
    BY <2>1, <2>2
<1> HIDE DEF size
<1>7. keeper_fee \in Nat
  BY <1>6, KeeperFeeType
<1> HIDE DEF keeper_fee
<1>8. left \in Nat \ {0}
  BY <1>2, <1>3, <1>4, <1>7
<1> HIDE DEF left
<1>9. PoolInv(pool)
  BY <1>1, <1>6, ReserveKeeps DEF MarketOK, MoneyOK
<1>10. SameDesk(m, a)
  BY <1>1, MoneyDesk
<1> HIDE DEF pool
<1>11. MarketOK(a) /\ a.orders = m.orders
  BY <1>1, <1>9, PoolMoves
<1> HIDE DEF a
<1>12. Desk(a, 0)
  BY <1>10, DeskKept
<1>13. RowOK(pos)
  <2> DEFINE t == order.trader
             asset == order.asset
             dir == order.dir
             lev == order.leverage
  <2>1. /\ t \in Traders /\ asset \in Assets /\ RiskKnown(asset) /\ dir \in Dirs
        /\ lev \in Nat \ {0}
    BY <1>2, <1>4
  <2> HIDE DEF t, asset, dir, lev
  <2>2. size \in Nat \ {0} /\ mark \in Nat \ {0}
    BY <1>3, <1>6
  <2>3. FreshRow(t, asset, dir, size, left, lev, mark)
    BY <1>8, <2>1, <2>2, NewRow
  <2> QED
    BY <2>3 DEF FreshRow, t, asset, dir, lev
<1>14. m.orders[o].type \in EntryTypes
  BY <1>1
<1> HIDE DEF pos, order
<1>15. Desk(q, 0)
  BY <1>3, <1>7, <1>11, <1>12, <1>13, <1>14, FillDesk
<1> HIDE DEF q
<1> QED
  BY <1>5, <1>15

LEMMA OpenKeepsDesk ==
  ASSUME MInv, Desk(m, 0), NEW t \in Traders, NEW a \in Assets, NEW dir \in Dirs,
         NEW c \in Collaterals, NEW lev \in Leverages, NEW mark \in Prices, NEW fee \in Fees,
         NEW payout \in Payouts, OpenPosition(t, a, dir, c, lev, mark, fee, payout)
  PROVE  Desk(m', 0)
<1> DEFINE legs == Opposite(m, t, a, dir)
           asked == calculate_position_size(c, lev)
           size == asked - Gross(m, legs)
           margin == IF legs = {} THEN c ELSE (c * size) \div asked
           n == CloseLegs(m, legs, mark, cum_funding[a])
           r == [n EXCEPT !.pool = reserve_for_position(@, size), !.cash = @ + margin]
           pos == NewPosition(t, a, dir, size, margin - fee, lev, mark)
           q == finalize_open(r, pos, fee, payout)
<1>1. /\ MarketOK(m) /\ cum_funding[a] \in Int
      /\ c \in Nat \ {0} /\ lev \in Nat \ {0} /\ mark \in Nat \ {0}
      /\ fee \in Nat /\ payout \in Nat
  BY StateFacts, InputTypes
<1>2. m' = q /\ RiskKnown(a) /\ reserve_with_vault(n, a, dir, size) /\ fee < margin
  BY DEF OpenPosition, ValidEntry, Commit
<1>3. legs \in SUBSET DOMAIN m.positions
  BY <1>1, OppositeRows
<1> HIDE DEF legs
<1>4. asked \in Nat /\ Gross(m, legs) \in Nat
  BY <1>1, <1>3, GrossType DEF calculate_position_size
<1>5. size \in Nat \ {0} /\ size <= asked
  <2>1. size > 0
    BY <1>2, PositiveReserve
  <2> QED
    BY <1>4, <2>1
<1> HIDE DEF asked, size
<1>6. margin \in Nat
  <2>1. c * size \in Nat /\ asked \in Nat \ {0}
    BY <1>1, <1>4, <1>5
  <2>2. (c * size) \div asked \in Nat
    BY <2>1, DivBound
  <2> QED
    BY <1>1, <2>2
<1> HIDE DEF margin
<1>7. margin - fee \in Nat \ {0}
  BY <1>1, <1>2, <1>6
<1>8. MarketOK(n) /\ Desk(n, 0)
  BY <1>1, <1>3, NettingMoves, NettingDesk
<1> HIDE DEF n
<1> DEFINE pool == reserve_for_position(n.pool, size)
           b == [n EXCEPT !.pool = pool]
           cash == b.cash + margin
<1>9. PoolInv(pool)
  BY <1>5, <1>8, ReserveKeeps DEF MarketOK, MoneyOK
<1>10. r = [b EXCEPT !.cash = cash]
  BY <1>8 DEF MarketOK, MoneyOK, MarketFields
<1> HIDE DEF pool
<1>11. SameDesk(n, b) /\ MarketOK(b)
  BY <1>8, <1>9, MoneyDesk, PoolMoves
<1> HIDE DEF b, r
<1>12. cash \in Int
  BY <1>6, <1>11, HeldTypes
<1> HIDE DEF cash
<1>13. MarketOK(r)
  BY <1>10, <1>11, <1>12, CashMoves
<1>14. SameDesk(b, r)
  BY <1>10, <1>11, MoneyDesk
<1>15. Desk(r, 0)
  BY <1>8, <1>11, <1>14, DeskKept
<1>16. RowOK(pos)
  <2> DEFINE left == margin - fee
  <2>1. left \in Nat \ {0}
    BY <1>7
  <2> HIDE DEF left
  <2>2. lev \in Nat \ {0} /\ mark \in Nat \ {0} /\ size \in Nat \ {0} /\ RiskKnown(a)
    BY <1>1, <1>2, <1>5
  <2>3. FreshRow(t, a, dir, size, left, lev, mark)
    BY <2>1, <2>2, NewRow
  <2> QED
    BY <2>3 DEF FreshRow, left
<1> HIDE DEF pos
<1>17. Desk(q, 0)
  BY <1>1, <1>13, <1>15, <1>16, OpenDesk
<1> HIDE DEF q
<1> QED
  BY <1>2, <1>17

(* Reduce-only: the collateral goes back, then the target is reduced or closed. *)
LEMMA ReduceDesk ==
  ASSUME MInv, Desk(m, 0), NEW o \in DOMAIN m.orders, m.orders[o].type \in EntryTypes,
         NEW id \in DOMAIN m.positions, NEW mark \in Nat, NEW cum \in Int, NEW size \in Nat,
         NEW keeper_fee \in Nat
  PROVE  LET pos == m.positions[id]
             a == [m EXCEPT !.cash = @ - Refund(m.orders[o])]
             dust == pos.collateral - CollateralClosed(pos, size) < Config.min_collateral
             b == IF size >= pos.size \/ dust
                    THEN settle_isolated_close(a, id, mark, cum, keeper_fee, o)
                    ELSE settle_partial_close(a, id, mark, cum, size, keeper_fee)
         IN  Desk(update_order_status(b, {o}, "Executed"), 0)
<1> DEFINE order == m.orders[o]
           pos == m.positions[id]
           cash == m.cash - Refund(order)
           a == [m EXCEPT !.cash = @ - Refund(order)]
           part == CollateralClosed(pos, size)
           dust == pos.collateral - part < Config.min_collateral
           b == IF size >= pos.size \/ dust
                  THEN settle_isolated_close(a, id, mark, cum, keeper_fee, o)
                  ELSE settle_partial_close(a, id, mark, cum, size, keeper_fee)
           q == update_order_status(b, {o}, "Executed")
<1>1. MarketOK(m) /\ order \in OrderRows /\ m.cash \in Int
  BY StateFacts, HeldTypes DEF MarketOK, OrdersOK
<1>2. Refund(order) \in Nat
  <2>1. order.collateral \in Nat
    BY <1>1 DEF OrderRows
  <2> QED
    BY <2>1 DEF Refund
<1>3. a = [m EXCEPT !.cash = cash] /\ cash \in Int
  BY <1>1, <1>2 DEF MarketOK, MoneyOK, MarketFields
<1> HIDE DEF a, cash
<1>4. MarketOK(a) /\ a.positions = m.positions /\ a.orders = m.orders
  BY <1>1, <1>3, CashMoves
<1>5. Desk(a, 0)
  <2>1. SameDesk(m, a)
    BY <1>1, <1>3, MoneyDesk
  <2> QED
    BY <2>1, DeskKept
<1>6. Desk(a, o) /\ Unlinked(a, o)
  BY <1>4, <1>5, EntryAside
<1> HIDE DEF order
<1>7. MarketOK(b) /\ Desk(b, o) /\ Unlinked(b, o)
  <2>1. id \in DOMAIN a.positions /\ a.positions[id] = pos /\ RowOK(pos)
    BY <1>1, <1>4, RowFacts
  <2>2. CASE size >= pos.size \/ dust
    <3> DEFINE c == settle_isolated_close(a, id, mark, cum, keeper_fee, o)
    <3>1. MarketOK(c) /\ BookKept(a, c, o)
      BY <1>4, <2>1, CloseMoves
    <3>2. Desk(c, o)
      BY <1>4, <1>6, <2>1, CloseDesk
    <3>3. b = c
      BY <2>2
    <3> HIDE DEF c, b
    <3>4. c.orders[o] = a.orders[o]
      BY <1>4, <3>1 DEF BookKept
    <3>5. Unlinked(c, o)
      <4>1. c.orders[o].type \notin CloseTypes
        BY <1>4, <3>4 DEF EntryTypes, CloseTypes
      <4> QED
        BY <3>1, <4>1 DEF MarketOK, OrdersOK, Unlinked
    <3> QED
      BY <3>1, <3>2, <3>3, <3>5
  <2>3. CASE ~(size >= pos.size \/ dust)
    <3> DEFINE c == settle_partial_close(a, id, mark, cum, size, keeper_fee)
    <3>1. size < pos.size /\ pos.collateral - part > 0
      <4>1. pos.size \in Nat /\ pos.collateral \in Nat
        BY <2>1 DEF RowOK, PositionOK
      <4>2. size < pos.size
        BY <2>3, <4>1
      <4>3. part \in Nat
        BY <2>1, <4>1, <4>2, CollateralClosedRange
      <4>4. ~dust
        BY <2>3
      <4> HIDE DEF part, pos
      <4> QED
        BY <4>1, <4>2, <4>3, <4>4, MarginValues
    <3>2. MarketOK(c)
      BY <1>4, <2>1, <3>1, PartialMoves
    <3>3. SameDesk(a, c)
      BY <1>4, <2>1, <3>1, PartialDesk
    <3>4. b = c
      BY <2>3
    <3> HIDE DEF c, b
    <3>5. c.links = a.links
      BY <3>3 DEF SameDesk, SameOrders
    <3>6. Desk(c, o) /\ Unlinked(c, o)
      BY <1>6, <3>3, <3>5, DeskKept DEF Unlinked
    <3> QED
      BY <3>2, <3>4, <3>6
  <2> QED
    BY <2>2, <2>3
<1> HIDE DEF b
<1>8. Desk(q, 0)
  <2>1. "Executed" \in FinalStatuses
    BY DEF FinalStatuses
  <2> QED
    BY <1>7, <2>1, FinishDesk
<1> QED
  BY <1>8 DEF a, b, q, order

LEMMA ReduceKeepsDesk ==
  ASSUME MInv, Desk(m, 0), NEW o \in DOMAIN m.orders, NEW mark \in Prices,
         ExecuteReduceOnly(o, mark)
  PROVE  Desk(m', 0)
<1> DEFINE order == m.orders[o]
           size == calculate_position_size(order.collateral, order.leverage)
           keeper_fee == calculate_keeper_order_fee(size)
           targets == Opposite(m, order.trader, order.asset, order.dir)
           id == ReduceTarget(targets)
           pos == m.positions[id]
           cum == cum_funding[order.asset]
           a == [m EXCEPT !.cash = @ - Refund(m.orders[o])]
           dust == pos.collateral - CollateralClosed(pos, size) < Config.min_collateral
           b == IF size >= pos.size \/ dust
                  THEN settle_isolated_close(a, id, mark, cum, keeper_fee, o)
                  ELSE settle_partial_close(a, id, mark, cum, size, keeper_fee)
           q == update_order_status(b, {o}, "Executed")
           r == update_order_status(WithdrawnOrder(o, "Cancelled"), {o}, "Executed")
<1>1. MarketOK(m) /\ order \in OrderRows /\ order.status = "Pending" /\ order.type \in EntryTypes
  BY StateFacts, HeadFacts DEF ExecuteReduceOnly, FillsEntry
<1>2. (targets # {} /\ m' = q) \/ m' = r
  BY DEF ExecuteReduceOnly, Commit
<1>3. CASE targets # {} /\ m' = q
  <2>1. order.trader \in Traders /\ order.asset \in Assets /\ size \in Nat
    BY <1>1 DEF OrderRows, calculate_position_size
  <2>2. targets \in SUBSET DOMAIN m.positions
    BY <1>1, <2>1, OppositeRows
  <2> HIDE DEF targets, size
  <2>3. id \in DOMAIN m.positions
    BY <1>1, <1>3, <2>2, TargetExists
  <2>4. keeper_fee \in Nat /\ cum \in Int /\ mark \in Nat
    BY <2>1, KeeperFeeType, StateFacts, InputTypes
  <2>5. m.orders[o].type \in EntryTypes
    BY <1>1
  <2> HIDE DEF id, keeper_fee, cum
  <2>6. Desk(q, 0)
    BY <2>1, <2>3, <2>4, <2>5, ReduceDesk
  <2> HIDE DEF q
  <2> QED
    BY <1>3, <2>6
<1>4. CASE m' = r
  BY <1>1, <1>4, RefundDesk
<1> QED
  BY <1>2, <1>3, <1>4

(* A close order about to execute is set aside: its peak is gone, its link   *)
(* goes with its position.                                                   *)
LEMMA ExecuteCloseKeepsDesk ==
  ASSUME MInv, Desk(m, 0), NEW o \in DOMAIN m.orders, NEW mark \in Prices, NEW smoothed,
         ExecuteClose(o, mark, smoothed)
  PROVE  Desk(m', 0)
<1> DEFINE order == m.orders[o]
           id == order.position_id
           pos == m.positions[id]
           cum == cum_funding[pos.asset]
           keeper_fee == calculate_keeper_order_fee(pos.size)
           a == IF order.type = "TrailingStop" THEN DropPeaks(m, {o}) ELSE m
           b == settle_isolated_close(a, id, mark, cum, keeper_fee, o)
           q == update_order_status(b, {o}, "Executed")
<1>1. MarketOK(m) /\ id \in DOMAIN m.positions /\ order.status = "Pending"
  BY StateFacts, HeadFacts DEF ExecuteClose
<1>2. m' = q
  BY DEF ExecuteClose, Commit
<1>3. /\ MarketOK(a) /\ a.orders = m.orders /\ a.links = m.links /\ a.positions = m.positions
      /\ a.open_orders = m.open_orders /\ a.orders_of = m.orders_of
      /\ a.open_positions = m.open_positions
      /\ DOMAIN a.peaks = IF order.type = "TrailingStop" THEN DOMAIN m.peaks \ {o}
                                                         ELSE DOMAIN m.peaks
  <2>1. CASE order.type = "TrailingStop"
    <3>1. MarketOK(a)
      BY <1>1, <2>1, DropPeaksBook
    <3> QED
      BY <1>1, <2>1, <3>1 DEF DropPeaks, MarketOK, MoneyOK, MarketFields
  <2>2. CASE order.type # "TrailingStop"
    BY <1>1, <2>2
  <2> QED
    BY <2>1, <2>2
<1> HIDE DEF a
<1>4. o \in Pending(m) /\ Pending(a) = Pending(m) /\ \A t : PendingOf(a, t) = PendingOf(m, t)
  BY <1>1, <1>3 DEF Pending, PendingOf
<1>5. Counted(a) /\ LinksExact(a)
  BY <1>3, <1>4 DEF Desk, Counted, LinksExact, Leads
<1>6. Guarded(a, o)
  <2>1. 0 \notin Pending(m)
    BY <1>1, NoOrderZero
  <2> QED
    BY <1>3, <1>4, <2>1 DEF Desk, Guarded, Guards
<1>7. PeaksExact(a, o)
  <2>1. Trailing(a) = Trailing(m) /\ (o \in Trailing(m) <=> order.type = "TrailingStop")
    BY <1>3, <1>4 DEF Trailing
  <2>2. DOMAIN m.peaks = Trailing(m)
    BY <1>1, NoOrderZero DEF Desk, PeaksExact
  <2> QED
    BY <1>3, <2>1, <2>2 DEF PeaksExact
<1>8. Desk(a, o)
  BY <1>5, <1>6, <1>7 DEF Desk
<1>9. keeper_fee \in Nat /\ cum \in Int /\ mark \in Nat /\ id \in DOMAIN a.positions
  <2>1. pos.size \in Nat /\ pos.asset \in Assets
    BY <1>1, RowFacts
  <2> QED
    BY <1>1, <1>3, <2>1, KeeperFeeType, StateFacts, InputTypes
<1>10. a.orders[o].position_id = id
  BY <1>3
<1> HIDE DEF id, keeper_fee, cum
<1>11. /\ MarketOK(b) /\ Desk(b, o) /\ \A l \in b.links : l[2] # id
  BY <1>3, <1>8, <1>9, CloseDesk
<1>12. BookKept(a, b, o)
  BY <1>3, <1>9, CloseMoves
<1> HIDE DEF b
<1>13. b.orders[o].position_id = id
  BY <1>3, <1>10, <1>12 DEF BookKept
<1>14. Unlinked(b, o)
  BY <1>11, <1>13 DEF Desk, LinksExact, Leads, Unlinked
<1>15. Desk(q, 0)
  <2>1. "Executed" \in FinalStatuses
    BY DEF FinalStatuses
  <2> QED
    BY <1>11, <1>14, <2>1, FinishDesk
<1> HIDE DEF q
<1> QED
  BY <1>2, <1>15

-----------------------------------------------------------------------------
(* The invariant. *)

LEMMA DeskInit == Init => Desk(m, 0)
<1> SUFFICES ASSUME Init PROVE Desk(m, 0)
  OBVIOUS
<1>1. /\ m.positions = [i \in {} |-> 0] /\ m.orders = <<>> /\ m.links = {}
      /\ m.peaks = [o \in {} |-> 0] /\ m.open_positions = 0 /\ m.open_orders = 0
      /\ m.orders_of = [t \in Traders |-> 0]
  BY DEF Init
<1>2. /\ DOMAIN m.positions = {} /\ DOMAIN m.orders = {} /\ DOMAIN m.peaks = {}
      /\ DOMAIN m.orders_of = Traders /\ \A t \in Traders : m.orders_of[t] = 0
  BY <1>1
<1>3. Pending(m) = {} /\ \A t : PendingOf(m, t) = {}
  BY <1>2 DEF Pending, PendingOf
<1>4. Counted(m)
  BY <1>1, <1>2, <1>3, FS_EmptySet DEF Counted
<1> QED
  BY <1>1, <1>2, <1>3, <1>4 DEF Desk, Guarded, LinksExact, PeaksExact, Trailing

(* Every action keeps the desk. *)
LEMMA PlacementKeepsDesk ==
  ASSUME MInv, Desk(m, 0), PlacementStep
  PROVE  Desk(m', 0)
<1>1. ASSUME NEW t \in Traders, NEW a \in Assets, NEW dir \in Dirs, NEW c \in Collaterals,
             NEW lev \in Leverages, NEW trigger \in Triggers, NEW above \in BOOLEAN,
             NEW ro \in BOOLEAN, NEW tol \in Tolerances, NEW tif \in TimesInForce,
             NEW mark \in Prices,
             PlaceLimitOrder(t, a, dir, c, lev, trigger, above, tol, tif, ro, mark)
      PROVE  Desk(m', 0)
  BY <1>1, LimitKeepsDesk
<1>2. ASSUME NEW t \in Traders, NEW a \in Assets, NEW dir \in Dirs, NEW c \in Collaterals,
             NEW lev \in Leverages, NEW trigger \in Triggers, NEW above \in BOOLEAN,
             NEW ro \in BOOLEAN, NEW tol \in Tolerances, NEW limit \in Triggers,
             PlaceStopLimitOrder(t, a, dir, c, lev, trigger, limit, above, tol, ro)
      PROVE  Desk(m', 0)
  BY <1>2, StopLimitKeepsDesk
<1>3. ASSUME NEW id \in DOMAIN m.positions, NEW tol \in Tolerances,
             \/ \E trigger \in Triggers : SetStopLoss(id, trigger, tol)
             \/ \E trigger \in Triggers, limit \in Triggers \cup {0} :
                  SetTakeProfit(id, trigger, limit, tol)
             \/ \E trail \in Trails, mark \in Prices : PlaceTrailingStop(id, trail, tol, mark)
      PROVE  Desk(m', 0)
  BY <1>3, AttachKeepsDesk
<1> QED
  BY <1>1, <1>2, <1>3 DEF PlacementStep

LEMMA PositionKeepsDesk ==
  ASSUME MInv, Desk(m, 0), PositionStep
  PROVE  Desk(m', 0)
<1>1. ASSUME NEW t \in Traders, NEW a \in Assets, NEW dir \in Dirs, NEW c \in Collaterals,
             NEW lev \in Leverages, NEW mark \in Prices, NEW fee \in Fees,
             NEW payout \in Payouts, OpenPosition(t, a, dir, c, lev, mark, fee, payout)
      PROVE  Desk(m', 0)
  BY <1>1, OpenKeepsDesk
<1> QED
  BY <1>1, CloseKeepsDesk, PartialKeepsDesk, MarginKeepsDesk
     DEF PositionStep

LEMMA KeeperKeepsDesk ==
  ASSUME MInv, Desk(m, 0), KeeperStep
  PROVE  Desk(m', 0)
<1>1. ASSUME NEW o \in DOMAIN m.orders, NEW mark \in Prices,
             \/ UpdateTrailingPeak(o, mark)
             \/ \E smoothed \in Prices \cup {0} : ExecuteOutOfBand(o, mark, smoothed)
             \/ ExecuteStopPhase(o, mark)
             \/ \E fee \in Fees, payout \in Payouts : ExecuteEntry(o, mark, fee, payout)
             \/ ExecuteIllegalEntry(o, mark)
             \/ ExecuteReduceOnly(o, mark)
             \/ \E smoothed \in Prices \cup {0} : ExecuteClose(o, mark, smoothed)
      PROVE  Desk(m', 0)
  BY <1>1, PeakKeepsDesk, CancelKeepsDesk, StopPhaseKeepsDesk, EntryKeepsDesk,
     IllegalKeepsDesk, ReduceKeepsDesk, ExecuteCloseKeepsDesk
<1>2. ASSUME \/ \E id \in DOMAIN m.positions, mark \in Prices, smoothed \in Prices \cup {0} :
                  Liquidate(id, mark, smoothed)
             \/ \E a \in Assets, mark \in Prices : CheckAdlTrigger(a, mark)
             \/ \E id \in DOMAIN m.positions, mark \in Prices : AdlClose(id, mark)
             \/ \E a \in Assets, mark \in Prices : SyncAssetPnl(a, mark)
             \/ \E step \in [DOMAIN risk -> FundingSteps] : ApplyFunding(step)
      PROVE  Desk(m', 0)
  <2>1. ASSUME NEW step \in [DOMAIN risk -> FundingSteps], ApplyFunding(step)
        PROVE  Desk(m', 0)
    BY <2>1 DEF ApplyFunding
  <2> QED
    BY <1>2, <2>1, LiquidateKeepsDesk, AdlCloseKeepsDesk, PoolKeepsDesk
<1> QED
  BY <1>1, <1>2 DEF KeeperStep

LEMMA DeskNext ==
  ASSUME MInv, Desk(m, 0), [Next]_vars
  PROVE  Desk(m', 0)
<1>1. CASE PositionStep
  BY <1>1, PositionKeepsDesk
<1>2. CASE OrderStep
  BY <1>2, PlacementKeepsDesk, CancelKeepsDesk DEF OrderStep
<1>3. CASE KeeperStep
  BY <1>3, KeeperKeepsDesk
<1>4. CASE VaultStep
  BY <1>4, PoolKeepsDesk
<1>5. CASE AdminStep
  <2>1. CASE \E ids \in SUBSET DOMAIN m.positions : ids # {} /\ ReseedFunding(ids)
    BY <2>1, ReseedKeepsDesk
  <2>2. m' = m \/ \E ids \in SUBSET DOMAIN m.positions : ids # {} /\ ReseedFunding(ids)
    BY <1>5 DEF AdminStep, Pause, Unpause, SetAssetHalt, SetAssetRisk
  <2> QED
    BY <2>1, <2>2
<1>6. CASE Tick \/ UNCHANGED vars
  BY <1>6 DEF Tick, vars
<1> QED
  BY <1>1, <1>2, <1>3, <1>4, <1>5, <1>6 DEF Next


(* With no order set aside, the desk is what the run checks. *)
LEMMA DeskExact ==
  ASSUME MarketOK(m), Desk(m, 0)
  PROVE  OrderBookExact
<1>1. 0 \notin Pending(m)
  BY NoOrderZero
<1>2. CountersExact
  BY DEF CountersExact, Desk, Counted, MarketOK, PositionsOK
<1>3. \A o \in Pending(m) : m.orders[o].type \in CloseTypes => Guards(m, o, m.orders[o].position_id)
  BY <1>1 DEF Desk, Guarded
<1>4. DOMAIN m.peaks = Trailing(m)
  BY NoOrderZero DEF Desk, PeaksExact
<1>5. NoZombieOrders
  BY <1>3, <1>4 DEF NoZombieOrders, Guards, Desk, LinksExact, Leads, Trailing
<1> QED
  BY <1>2, <1>5 DEF OrderBookExact

(* The order book never disagrees with its indexes: open_order_count, the    *)
(* per-trader lists and open_position_count are exact through double status  *)
(* writes and bulk cancels; closing, netting, liquidating or deleveraging a  *)
(* position leaves no stop pending on it (cancel_position_orders), and the   *)
(* order that executes loses its link and its peak with its position.        *)
THEOREM MarketOrders == Spec => []OrderBookExact
<1> DEFINE DInv == MInv /\ Desk(m, 0)
<1>1. Init => DInv
  BY MInvInit, DeskInit
<1>2. DInv /\ [Next]_vars => DInv'
  <2> SUFFICES ASSUME DInv, [Next]_vars
               PROVE  MInv' /\ Desk(m', 0)
    OBVIOUS
  <2> QED
    BY MInvNext, DeskNext
<1>3. DInv => OrderBookExact
  BY DeskExact DEF MInv
<1> HIDE DEF DInv
<1> QED
  BY <1>1, <1>2, <1>3, PTL DEF Spec
=============================================================================
