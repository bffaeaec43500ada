-------------------------- MODULE OfferBooks_proofs --------------------------
(***************************************************************************)
(* The offer's books, for any number of rides, riders and requests at      *)
(* work: they balance, the offer keeps the promise of module OfferBudget,  *)
(* and a discount on a bill is one that the offer backs.                   *)
(***************************************************************************)
EXTENDS MoneySystem_proofs, FiniteSetTheorems

-----------------------------------------------------------------------------
(* Sums, as module Totals counts them. *)

\* The coins of one element.
LEMMA OnePile ==
    ASSUME NEW x, NEW n \in Nat
    PROVE  IsFiniteSet({x} \X (1..n)) /\ Cardinality({x} \X (1..n)) = n
<1>1. IsFiniteSet({x}) /\ Cardinality({x}) = 1
  BY FS_Singleton
<1>2. IsFiniteSet(1..n) /\ Cardinality(1..n) = n
  BY FS_Interval
<1>3. /\ IsFiniteSet({x} \X (1..n))
      /\ Cardinality({x} \X (1..n)) = Cardinality({x}) * Cardinality(1..n)
  BY <1>1, <1>2, FS_Product
<1>. QED  BY <1>1, <1>2, <1>3

\* Finitely many amounts have finitely many coins.
LEMMA PilesAreFinite ==
    ASSUME NEW S, IsFiniteSet(S), NEW f, \A x \in S : f[x] \in Nat
    PROVE  IsFiniteSet(Coins(f, S))
<1>. DEFINE Piles == {{x} \X (1..f[x]) : x \in S}
<1>1. IsFiniteSet(Piles)
  <2>. DEFINE pile == [x \in S |-> {x} \X (1..f[x])]
  <2>1. pile \in Surjection(S, Piles)
    BY DEF Surjection
  <2>. QED  BY <2>1, FS_Surjection
<1>2. \A T \in Piles : IsFiniteSet(T)
  <2>. SUFFICES ASSUME NEW x \in S PROVE IsFiniteSet({x} \X (1..f[x]))
    OBVIOUS
  <2>. QED  BY OnePile
<1>. HIDE DEF Piles
<1>3. IsFiniteSet(UNION Piles)
  BY <1>1, <1>2, FS_UNION
<1>. QED  BY <1>3 DEF Coins, Piles

\* What a coin is.
LEMMA CoinOf ==
    ASSUME NEW S, NEW f, NEW c
    PROVE  c \in Coins(f, S) <=> \E x \in S : \E i \in 1..f[x] : c = <<x, i>>
<1>1. c \in Coins(f, S) <=> \E x \in S : c \in {x} \X (1..f[x])
  BY DEF Coins
<1>2. \A x : c \in {x} \X (1..f[x]) <=> \E i \in 1..f[x] : c = <<x, i>>
  OBVIOUS
<1>. QED  BY <1>1, <1>2

\* Only what f is on S counts.
LEMMA TotalSame ==
    ASSUME NEW S, NEW f, NEW g, \A x \in S : f[x] = g[x]
    PROVE  Total(f, S) = Total(g, S)
<1>1. Coins(f, S) = Coins(g, S)
  BY DEF Coins
<1>. QED  BY <1>1 DEF Total

\* A total of finitely many amounts is an amount.
LEMMA TotalIsNat ==
    ASSUME NEW S, IsFiniteSet(S), NEW f, \A x \in S : f[x] \in Nat
    PROVE  Total(f, S) \in Nat
  BY PilesAreFinite, FS_CardinalityType DEF Total

\* Nothing sums to zero.
LEMMA TotalEmpty == ASSUME NEW f PROVE Total(f, {}) = 0
<1>1. Coins(f, {}) = {}
  BY DEF Coins
<1>. QED  BY <1>1, FS_EmptySet DEF Total

\* One more element.
LEMMA TotalAdds ==
    ASSUME NEW S, IsFiniteSet(S), NEW f, \A y \in S : f[y] \in Nat,
           NEW x, x \notin S, f[x] \in Nat
    PROVE  Total(f, S \cup {x}) = Total(f, S) + f[x]
<1>. DEFINE P == {x} \X (1..f[x])
<1>1. Coins(f, S \cup {x}) = Coins(f, S) \cup P
  BY DEF Coins
<1>2. Coins(f, S) \cap P = {}
  BY CoinOf
<1>3. IsFiniteSet(Coins(f, S)) /\ IsFiniteSet(P) /\ Cardinality(P) = f[x]
  BY PilesAreFinite, OnePile
<1>4. Cardinality(Coins(f, S)) \in Nat /\ Cardinality({}) = 0
  BY <1>3, FS_CardinalityType, FS_EmptySet
<1>. HIDE DEF P
<1>5. Cardinality(Coins(f, S) \cup P)
        = Cardinality(Coins(f, S)) + Cardinality(P) - Cardinality(Coins(f, S) \cap P)
  BY <1>3, FS_Union
<1>6. Cardinality(Coins(f, S) \cap P) = 0
  BY <1>2, <1>4, Zenon
<1>7. Cardinality(Coins(f, S) \cup P) = Cardinality(Coins(f, S)) + f[x]
  BY <1>3, <1>4, <1>5, <1>6
<1>8. Cardinality(Coins(f, S \cup {x})) = Cardinality(Coins(f, S)) + f[x]
  BY <1>1, <1>7, Zenon
<1>. QED  BY <1>8 DEF Total

\* One element less: what it had is in the total.
LEMMA TotalDrops ==
    ASSUME NEW S, IsFiniteSet(S), NEW f, \A y \in S : f[y] \in Nat, NEW x \in S
    PROVE  Total(f, S) = Total(f, S \ {x}) + f[x] /\ Total(f, S \ {x}) \in Nat
<1>1. IsFiniteSet(S \ {x}) /\ (S \ {x}) \cup {x} = S
  BY FS_RemoveElement
<1>2. Total(f, (S \ {x}) \cup {x}) = Total(f, S \ {x}) + f[x]
  BY <1>1, TotalAdds
<1>3. Total(f, S \ {x}) \in Nat
  BY <1>1, TotalIsNat
<1>. QED  BY <1>1, <1>2, <1>3

\* Another amount for one element.
LEMMA TotalChanges ==
    ASSUME NEW S, IsFiniteSet(S), NEW f, \A y \in S : f[y] \in Nat,
           NEW g, \A y \in S : g[y] \in Nat,
           NEW x \in S, \A y \in S \ {x} : g[y] = f[y]
    PROVE  Total(g, S) + f[x] = Total(f, S) + g[x] /\ f[x] <= Total(f, S)
<1>1. Total(f, S) = Total(f, S \ {x}) + f[x] /\ Total(f, S \ {x}) \in Nat
  BY TotalDrops
<1>2. Total(g, S) = Total(g, S \ {x}) + g[x]
  BY TotalDrops
<1>3. Total(f, S \ {x}) = Total(g, S \ {x})
  BY TotalSame
<1>. QED  BY <1>1, <1>2, <1>3

\* Counts, likewise.
LEMMA CountAdds ==
    ASSUME NEW S, IsFiniteSet(S), NEW x, x \notin S
    PROVE  IsFiniteSet(S \cup {x}) /\ Cardinality(S \cup {x}) = Cardinality(S) + 1
           /\ Cardinality(S) \in Nat
  BY FS_AddElement, FS_CardinalityType

\* One element less.
LEMMA CountDrops ==
    ASSUME NEW S, IsFiniteSet(S), NEW x \in S
    PROVE  IsFiniteSet(S \ {x}) /\ Cardinality(S) = Cardinality(S \ {x}) + 1
           /\ Cardinality(S \ {x}) \in Nat
<1>1. IsFiniteSet(S \ {x}) /\ Cardinality(S \ {x}) = Cardinality(S) - 1
      /\ Cardinality(S) \in Nat
  BY FS_RemoveElement, FS_CardinalityType
<1>2. Cardinality(S \ {x}) \in Nat
  BY <1>1, FS_CardinalityType
<1>. QED  BY <1>1, <1>2

-----------------------------------------------------------------------------
(* The books: an offer row o, the riders' uses w, the redemptions p that hold the amounts h, *)
(* and the releases W that have taken theirs and not yet given everything back. *)

LiveOf(p) == {r \in Rides : p[r] \in HoldsBudget}
LiveFor(p, u) == {r \in LiveOf(p) : UserOf[r] = u}
AtBudget(W) == {t \in W : t.at = "budget"}
UsesOwed(W, u) == {t \in W : t.at \in {"budget", "usage"} /\ UserOf[t.ride] = u}
OwedAmount(W) == Total(AmountsOf(AtBudget(W)), AtBudget(W))

BooksTyped(o, w, p, h, W) ==
    /\ o.spent \in Nat /\ o.count \in Nat
    /\ w \in [Users -> Nat] /\ p \in [Rides -> RedemptionStatus] /\ h \in [Rides -> Nat]
    /\ W \subseteq Task

\* A release takes the redemption once, and then owes what it has not given back.
OwedSoundly(p, W) ==
    /\ IsFiniteSet(LiveOf(p)) /\ IsFiniteSet(W)
    /\ \A t \in W : p[t.ride] = "released"
    /\ \A t, v \in W : t.ride = v.ride => t = v

Books(o, w, p, h, W) ==
    /\ OwedSoundly(p, W)
    /\ o.spent = Total(h, LiveOf(p)) + OwedAmount(W)
    /\ o.count = Cardinality(LiveOf(p)) + Cardinality(AtBudget(W))
    /\ \A u \in Users : w[u] = Cardinality(LiveFor(p, u)) + Cardinality(UsesOwed(W, u))

\* What the books count is finite, and the sums are numbers.
LEMMA BooksCount ==
    ASSUME NEW o, NEW w, NEW p, NEW h, NEW W, BooksTyped(o, w, p, h, W), OwedSoundly(p, W)
    PROVE  /\ IsFiniteSet(LiveOf(p)) /\ IsFiniteSet(AtBudget(W))
           /\ \A u : IsFiniteSet(LiveFor(p, u)) /\ IsFiniteSet(UsesOwed(W, u))
           /\ Total(h, LiveOf(p)) \in Nat /\ OwedAmount(W) \in Nat
           /\ Cardinality(LiveOf(p)) \in Nat /\ Cardinality(AtBudget(W)) \in Nat
           /\ \A u : Cardinality(LiveFor(p, u)) \in Nat /\ Cardinality(UsesOwed(W, u)) \in Nat
<1>1. IsFiniteSet(LiveOf(p)) /\ IsFiniteSet(W)
  BY DEF OwedSoundly
<1>2. AtBudget(W) \subseteq W /\ \A u : LiveFor(p, u) \subseteq LiveOf(p) /\ UsesOwed(W, u) \subseteq W
  BY DEF AtBudget, LiveFor, UsesOwed
<1>3. /\ IsFiniteSet(AtBudget(W))
      /\ \A u : IsFiniteSet(LiveFor(p, u)) /\ IsFiniteSet(UsesOwed(W, u))
  BY <1>1, <1>2, FS_Subset
<1>4. Total(h, LiveOf(p)) \in Nat
  <2>1. \A r \in LiveOf(p) : h[r] \in Nat
    BY DEF LiveOf, BooksTyped
  <2>. QED  BY <1>1, <2>1, TotalIsNat
<1>5. OwedAmount(W) \in Nat
  <2>1. \A t \in AtBudget(W) : AmountsOf(AtBudget(W))[t] \in Nat
    BY DEF AtBudget, AmountsOf, BooksTyped, Task
  <2>. QED  BY <1>3, <2>1, TotalIsNat DEF OwedAmount
<1>6. \A S : IsFiniteSet(S) => Cardinality(S) \in Nat
  BY FS_CardinalityType
<1>. QED  BY <1>1, <1>3, <1>4, <1>5, <1>6

\* One more release owes the budget, or one less.
LEMMA OwedAdds ==
    ASSUME NEW A, A \subseteq Task, IsFiniteSet(A), NEW v \in Task, v \notin A
    PROVE  Total(AmountsOf(A \cup {v}), A \cup {v}) = Total(AmountsOf(A), A) + v.n
<1>. DEFINE f == AmountsOf(A \cup {v})
<1>1. f[v] = v.n /\ v.n \in Nat /\ \A t \in A : f[t] \in Nat /\ f[t] = AmountsOf(A)[t]
  BY DEF AmountsOf, Task
<1>. HIDE DEF f
<1>2. Total(f, A \cup {v}) = Total(f, A) + f[v]
  BY <1>1, TotalAdds
<1>3. Total(f, A) = Total(AmountsOf(A), A)
  BY <1>1, TotalSame
<1>. QED  BY <1>1, <1>2, <1>3 DEF f

\* A release that has paid back its amount is owed no more.
LEMMA OwedDrops ==
    ASSUME NEW A, A \subseteq Task, IsFiniteSet(A), NEW t \in A
    PROVE  Total(AmountsOf(A), A) = Total(AmountsOf(A \ {t}), A \ {t}) + t.n
<1>1. IsFiniteSet(A \ {t}) /\ (A \ {t}) \cup {t} = A
  BY FS_RemoveElement
<1>2. Total(AmountsOf((A \ {t}) \cup {t}), (A \ {t}) \cup {t}) = Total(AmountsOf(A \ {t}), A \ {t}) + t.n
  BY <1>1, OwedAdds
<1>. QED  BY <1>1, <1>2

\* A booking reserves a redemption.
LEMMA BookPromises ==
    ASSUME NEW o, NEW w, NEW p, NEW h, NEW W, BooksTyped(o, w, p, h, W), Books(o, w, p, h, W),
           NEW r \in Rides, p[r] = "none", NEW n \in Nat,
           NEW oo, oo.spent = o.spent + n, oo.count = o.count + 1
    PROVE  Books(oo, [w EXCEPT ![UserOf[r]] = @ + 1], [p EXCEPT ![r] = "reserved"],
                 [h EXCEPT ![r] = n], W)
<1>. DEFINE pp == [p EXCEPT ![r] = "reserved"]
            hh == [h EXCEPT ![r] = n]
            ww == [w EXCEPT ![UserOf[r]] = @ + 1]
<1>1. /\ pp \in [Rides -> RedemptionStatus] /\ \A s \in Rides : pp[s] = IF s = r THEN "reserved" ELSE p[s]
      /\ \A s \in Rides : hh[s] = IF s = r THEN n ELSE h[s]
      /\ UserOf[r] \in Users /\ \A u \in Users : ww[u] = IF u = UserOf[r] THEN w[u] + 1 ELSE w[u]
  BY UserOfTyped DEF BooksTyped, RedemptionStatus
<1>. HIDE DEF pp, hh, ww
<1>2. OwedSoundly(p, W) /\ W \subseteq Task
  BY DEF Books, BooksTyped
<1>3. LiveOf(pp) = LiveOf(p) \cup {r} /\ r \notin LiveOf(p)
  BY <1>1 DEF LiveOf, HoldsBudget
<1>4. IsFiniteSet(LiveOf(p)) /\ \A s \in LiveOf(p) : h[s] \in Nat /\ hh[s] = h[s]
  BY <1>1, <1>2 DEF OwedSoundly, LiveOf, BooksTyped, HoldsBudget
<1>5. /\ Cardinality(LiveOf(pp)) = Cardinality(LiveOf(p)) + 1 /\ IsFiniteSet(LiveOf(pp))
      /\ Cardinality(LiveOf(p)) \in Nat
  BY <1>3, <1>4, CountAdds
<1>6. Total(hh, LiveOf(pp)) = Total(h, LiveOf(p)) + n
  <2>1. Total(hh, LiveOf(p) \cup {r}) = Total(hh, LiveOf(p)) + hh[r]
    BY <1>1, <1>3, <1>4, TotalAdds
  <2>2. Total(hh, LiveOf(p)) = Total(h, LiveOf(p))
    BY <1>4, TotalSame
  <2>. QED  BY <1>1, <1>3, <2>1, <2>2
<1>7. OwedSoundly(pp, W)
  BY <1>1, <1>2, <1>5 DEF OwedSoundly, Task
<1>8. ASSUME NEW u \in Users
      PROVE  ww[u] = Cardinality(LiveFor(pp, u)) + Cardinality(UsesOwed(W, u))
  <2>1. /\ w[u] = Cardinality(LiveFor(p, u)) + Cardinality(UsesOwed(W, u))
        /\ IsFiniteSet(LiveFor(p, u)) /\ Cardinality(LiveFor(p, u)) \in Nat
        /\ Cardinality(UsesOwed(W, u)) \in Nat
    BY <1>2, BooksCount DEF Books
  <2>2. CASE u = UserOf[r]
    <3>1. LiveFor(pp, u) = LiveFor(p, u) \cup {r} /\ r \notin LiveFor(p, u)
      BY <1>3, <2>2 DEF LiveFor
    <3>2. Cardinality(LiveFor(pp, u)) = Cardinality(LiveFor(p, u)) + 1
      BY <2>1, <3>1, CountAdds
    <3>. QED  BY <1>1, <2>1, <2>2, <3>2
  <2>3. CASE u # UserOf[r]
    <3>1. LiveFor(pp, u) = LiveFor(p, u)
      BY <1>3, <2>3 DEF LiveFor
    <3>. QED  BY <1>1, <2>1, <2>3, <3>1
  <2>. QED  BY <2>2, <2>3
<1>9. oo.spent = Total(hh, LiveOf(pp)) + OwedAmount(W)
  <2>1. o.spent = Total(h, LiveOf(p)) + OwedAmount(W) /\ Total(h, LiveOf(p)) \in Nat /\ OwedAmount(W) \in Nat
    BY <1>2, BooksCount DEF Books
  <2>. QED  BY <1>6, <2>1
<1>10. oo.count = Cardinality(LiveOf(pp)) + Cardinality(AtBudget(W))
  <2>1. o.count = Cardinality(LiveOf(p)) + Cardinality(AtBudget(W)) /\ Cardinality(AtBudget(W)) \in Nat
    BY <1>2, BooksCount DEF Books
  <2>. QED  BY <1>5, <2>1
<1>. QED  BY <1>7, <1>8, <1>9, <1>10 DEF Books, pp, hh, ww

\* A redemption shrinks, and the budget with it.
LEMMA BookShrinks ==
    ASSUME NEW o, NEW w, NEW p, NEW h, NEW W, BooksTyped(o, w, p, h, W), Books(o, w, p, h, W),
           NEW r \in LiveOf(p), NEW n \in Nat, n < h[r],
           NEW oo, oo.spent = Less(o.spent, h[r] - n), oo.count = o.count
    PROVE  Books(oo, w, p, [h EXCEPT ![r] = n], W)
<1>. DEFINE hh == [h EXCEPT ![r] = n]
<1>1. /\ r \in Rides /\ \A s \in Rides : h[s] \in Nat /\ hh[s] = IF s = r THEN n ELSE h[s]
      /\ LiveOf(p) \subseteq Rides
  BY DEF LiveOf, BooksTyped
<1>. HIDE DEF hh
<1>2. OwedSoundly(p, W) /\ IsFiniteSet(LiveOf(p))
  BY DEF Books, OwedSoundly
<1>3. Total(hh, LiveOf(p)) + h[r] = Total(h, LiveOf(p)) + hh[r] /\ h[r] <= Total(h, LiveOf(p))
  BY <1>1, <1>2, TotalChanges
<1>4. o.spent = Total(h, LiveOf(p)) + OwedAmount(W) /\ Total(h, LiveOf(p)) \in Nat /\ OwedAmount(W) \in Nat
  BY <1>2, BooksCount DEF Books
<1>5. Total(hh, LiveOf(p)) \in Nat
  BY <1>1, <1>2, TotalIsNat
<1>6. oo.spent = Total(hh, LiveOf(p)) + OwedAmount(W)
  BY <1>1, <1>3, <1>4, <1>5 DEF Less
<1>. QED  BY <1>6 DEF Books, hh

\* A reservation is used up: as far as the books go, nothing happens.
LEMMA BookGives ==
    ASSUME NEW o, NEW w, NEW p, NEW h, NEW W, BooksTyped(o, w, p, h, W), Books(o, w, p, h, W),
           NEW r \in Rides
    PROVE  Books(o, w, [p EXCEPT ![r] = IF @ = "reserved" THEN "consumed" ELSE @], h, W)
<1>. DEFINE pp == [p EXCEPT ![r] = IF @ = "reserved" THEN "consumed" ELSE @]
<1>1. \A s \in Rides : pp[s] = p[s] \/ (p[s] = "reserved" /\ pp[s] = "consumed")
  BY DEF BooksTyped
<1>. HIDE DEF pp
<1>2. LiveOf(pp) = LiveOf(p)
  BY <1>1 DEF LiveOf, HoldsBudget
<1>3. \A u : LiveFor(pp, u) = LiveFor(p, u)
  BY <1>2 DEF LiveFor
<1>4. \A t \in W : t.ride \in Rides
  BY DEF BooksTyped, Task
<1>5. OwedSoundly(pp, W)
  BY <1>1, <1>2, <1>4 DEF Books, OwedSoundly
<1>. QED  BY <1>2, <1>3, <1>5 DEF Books, pp

\* A release takes the redemption, and from here on owes what it held.
LEMMA BookUndoes ==
    ASSUME NEW o, NEW w, NEW p, NEW h, NEW W, BooksTyped(o, w, p, h, W), Books(o, w, p, h, W),
           NEW v \in Task, v.at = "budget", p[v.ride] = "reserved", v.n = h[v.ride]
    PROVE  /\ Books(o, w, [p EXCEPT ![v.ride] = "released"], h, W \cup {v})
           /\ v \notin W
<1>. DEFINE r == v.ride
            pp == [p EXCEPT ![r] = "released"]
            V == W \cup {v}
<1>1. /\ r \in Rides /\ \A s \in Rides : pp[s] = IF s = r THEN "released" ELSE p[s]
      /\ W \subseteq Task /\ \A t \in W : t.ride \in Rides
  BY DEF BooksTyped, Task
<1>2. OwedSoundly(p, W) /\ \A t \in W : t.ride # r
  BY DEF Books, OwedSoundly
<1>. HIDE DEF pp
<1>3. LiveOf(pp) = LiveOf(p) \ {r} /\ r \in LiveOf(p) /\ LiveOf(p) \subseteq Rides
  BY <1>1 DEF LiveOf, HoldsBudget
<1>4. AtBudget(V) = AtBudget(W) \cup {v} /\ v \notin AtBudget(W) /\ v \notin W
  BY <1>2 DEF AtBudget
<1>5. /\ IsFiniteSet(LiveOf(p)) /\ IsFiniteSet(AtBudget(W)) /\ Total(h, LiveOf(p)) \in Nat
      /\ OwedAmount(W) \in Nat /\ Cardinality(LiveOf(p)) \in Nat /\ Cardinality(AtBudget(W)) \in Nat
      /\ \A u : /\ IsFiniteSet(LiveFor(p, u)) /\ IsFiniteSet(UsesOwed(W, u))
                /\ Cardinality(LiveFor(p, u)) \in Nat /\ Cardinality(UsesOwed(W, u)) \in Nat
  BY <1>2, BooksCount
<1>6. o.spent = Total(h, LiveOf(pp)) + OwedAmount(V)
  <2>1. \A s \in LiveOf(p) : h[s] \in Nat
    BY <1>3 DEF BooksTyped
  <2>2. Total(h, LiveOf(p)) = Total(h, LiveOf(p) \ {r}) + h[r] /\ Total(h, LiveOf(p) \ {r}) \in Nat
    BY <1>3, <1>5, <2>1, TotalDrops
  <2>3. AtBudget(W) \subseteq Task
    BY <1>1 DEF AtBudget
  <2>4. Total(AmountsOf(AtBudget(W) \cup {v}), AtBudget(W) \cup {v})
            = Total(AmountsOf(AtBudget(W)), AtBudget(W)) + v.n
    BY <1>4, <1>5, <2>3, OwedAdds
  <2>5. OwedAmount(V) = OwedAmount(W) + v.n
    BY <1>4, <2>4 DEF OwedAmount
  <2>6. h[r] \in Nat /\ v.n = h[r]
    BY <1>3, <2>1
  <2>7. o.spent = Total(h, LiveOf(p)) + OwedAmount(W)
    BY DEF Books
  <2>. HIDE DEF r, V
  <2>8. o.spent = Total(h, LiveOf(p) \ {r}) + OwedAmount(V)
    BY <1>5, <2>2, <2>5, <2>6, <2>7
  <2>. QED  BY <1>3, <2>8
<1>7. o.count = Cardinality(LiveOf(pp)) + Cardinality(AtBudget(V))
  <2>1. Cardinality(AtBudget(V)) = Cardinality(AtBudget(W)) + 1
    BY <1>4, <1>5, CountAdds
  <2>2. Cardinality(LiveOf(p)) = Cardinality(LiveOf(pp)) + 1 /\ Cardinality(LiveOf(pp)) \in Nat
    BY <1>3, <1>5, CountDrops
  <2>. QED  BY <1>5, <2>1, <2>2 DEF Books
<1>8. ASSUME NEW u \in Users
      PROVE  w[u] = Cardinality(LiveFor(pp, u)) + Cardinality(UsesOwed(V, u))
  <2>1. w[u] = Cardinality(LiveFor(p, u)) + Cardinality(UsesOwed(W, u))
    BY DEF Books
  <2>2. CASE u = UserOf[r]
    <3>1. /\ LiveFor(pp, u) = LiveFor(p, u) \ {r} /\ r \in LiveFor(p, u)
          /\ UsesOwed(V, u) = UsesOwed(W, u) \cup {v} /\ v \notin UsesOwed(W, u)
      BY <1>3, <1>4, <2>2 DEF LiveFor, UsesOwed
    <3>2. Cardinality(UsesOwed(V, u)) = Cardinality(UsesOwed(W, u)) + 1
      BY <1>5, <3>1, CountAdds
    <3>3. /\ Cardinality(LiveFor(p, u)) = Cardinality(LiveFor(pp, u)) + 1
          /\ Cardinality(LiveFor(pp, u)) \in Nat
      BY <1>5, <3>1, CountDrops
    <3>. QED  BY <1>5, <2>1, <3>2, <3>3
  <2>3. CASE u # UserOf[r]
    <3>1. LiveFor(pp, u) = LiveFor(p, u) /\ UsesOwed(V, u) = UsesOwed(W, u)
      BY <1>3, <2>3 DEF LiveFor, UsesOwed
    <3>. QED  BY <2>1, <3>1
  <2>. QED  BY <2>2, <2>3
<1>9. OwedSoundly(pp, V)
  <2>1. IsFiniteSet(LiveOf(pp)) /\ IsFiniteSet(V)
    BY <1>2, <1>3, FS_RemoveElement, FS_AddElement DEF OwedSoundly
  <2>2. \A t \in V : pp[t.ride] = "released"
    BY <1>1, <1>2 DEF OwedSoundly
  <2>3. \A t, x \in V : t.ride = x.ride => t = x
    BY <1>2 DEF OwedSoundly
  <2>. QED  BY <2>1, <2>2, <2>3 DEF OwedSoundly
<1>. QED  BY <1>4, <1>6, <1>7, <1>8, <1>9 DEF Books, pp

\* The budget and the slot are given back.
LEMMA BookReturnsBudget ==
    ASSUME NEW o, NEW w, NEW p, NEW h, NEW W, BooksTyped(o, w, p, h, W), Books(o, w, p, h, W),
           NEW t \in W, t.at = "budget", NEW v \in Task, v.at = "usage", v.ride = t.ride,
           NEW oo, oo.spent = Less(o.spent, t.n), oo.count = Less(o.count, 1)
    PROVE  /\ Books(oo, w, p, h, (W \ {t}) \cup {v})
           /\ oo.spent = o.spent - t.n /\ oo.count = o.count - 1
<1>. DEFINE V == (W \ {t}) \cup {v}
<1>1. OwedSoundly(p, W) /\ W \subseteq Task /\ t \in Task
      /\ \A x \in W : x.ride = t.ride => x = t
  BY DEF Books, OwedSoundly, BooksTyped
<1>2. AtBudget(V) = AtBudget(W) \ {t} /\ t \in AtBudget(W) /\ AtBudget(W) \subseteq Task
  BY <1>1 DEF AtBudget
<1>3. /\ IsFiniteSet(AtBudget(W)) /\ Total(h, LiveOf(p)) \in Nat
      /\ OwedAmount(W) \in Nat /\ Cardinality(LiveOf(p)) \in Nat /\ Cardinality(AtBudget(W)) \in Nat
      /\ \A u : /\ IsFiniteSet(UsesOwed(W, u)) /\ Cardinality(UsesOwed(W, u)) \in Nat
  BY <1>1, BooksCount
<1>4. o.spent = Total(h, LiveOf(p)) + OwedAmount(W)
      /\ o.count = Cardinality(LiveOf(p)) + Cardinality(AtBudget(W))
      /\ \A u \in Users : w[u] = Cardinality(LiveFor(p, u)) + Cardinality(UsesOwed(W, u))
  BY DEF Books
<1>5. v.ride = t.ride /\ v.at = "usage" /\ t.n \in Nat /\ UserOf[v.ride] = UserOf[t.ride]
  BY <1>1 DEF Task
<1>6. OwedSoundly(p, V)
  <2>1. IsFiniteSet(V)
    BY <1>1, FS_RemoveElement, FS_AddElement DEF OwedSoundly
  <2>2. \A x \in V : p[x.ride] = "released"
    BY <1>1, <1>5 DEF OwedSoundly
  <2>3. \A x, y \in V : x.ride = y.ride => x = y
    BY <1>1, <1>5 DEF OwedSoundly
  <2>. QED  BY <1>1, <2>1, <2>2, <2>3 DEF OwedSoundly
<1>7. \A u \in Users : Cardinality(UsesOwed(V, u)) = Cardinality(UsesOwed(W, u))
  <2>. SUFFICES ASSUME NEW u \in Users
                PROVE  Cardinality(UsesOwed(V, u)) = Cardinality(UsesOwed(W, u))
    OBVIOUS
  <2>1. CASE u = UserOf[t.ride]
    <3>1. /\ UsesOwed(V, u) = (UsesOwed(W, u) \ {t}) \cup {v} /\ t \in UsesOwed(W, u)
          /\ v \notin UsesOwed(W, u) \ {t}
      BY <1>1, <1>5, <2>1 DEF UsesOwed
    <3>2. /\ IsFiniteSet(UsesOwed(W, u) \ {t})
          /\ Cardinality(UsesOwed(W, u)) = Cardinality(UsesOwed(W, u) \ {t}) + 1
      BY <1>3, <3>1, CountDrops
    <3>3. Cardinality(UsesOwed(V, u)) = Cardinality(UsesOwed(W, u) \ {t}) + 1
      BY <3>1, <3>2, CountAdds
    <3>. QED  BY <3>2, <3>3
  <2>2. CASE u # UserOf[t.ride]
    <3>1. UsesOwed(V, u) = UsesOwed(W, u)
      BY <1>5, <2>2 DEF UsesOwed
    <3>. QED  BY <3>1
  <2>. QED  BY <2>1, <2>2
<1>. HIDE DEF V
<1>8. OwedAmount(W) = OwedAmount(V) + t.n /\ OwedAmount(V) \in Nat
  <2>1. Total(AmountsOf(AtBudget(W)), AtBudget(W))
            = Total(AmountsOf(AtBudget(W) \ {t}), AtBudget(W) \ {t}) + t.n
    BY <1>2, <1>3, OwedDrops
  <2>2. BooksTyped(o, w, p, h, V)
    BY <1>1 DEF BooksTyped, V
  <2>3. OwedAmount(V) \in Nat
    BY <1>6, <2>2, BooksCount
  <2>. QED  BY <1>2, <2>1, <2>3 DEF OwedAmount
<1>9. Cardinality(AtBudget(W)) = Cardinality(AtBudget(V)) + 1 /\ Cardinality(AtBudget(V)) \in Nat
  BY <1>2, <1>3, CountDrops
<1>10. oo.spent = Total(h, LiveOf(p)) + OwedAmount(V) /\ oo.spent = o.spent - t.n
  BY <1>3, <1>4, <1>5, <1>8 DEF Less
<1>11. oo.count = Cardinality(LiveOf(p)) + Cardinality(AtBudget(V)) /\ oo.count = o.count - 1
  BY <1>3, <1>4, <1>9 DEF Less
<1>. QED  BY <1>4, <1>6, <1>7, <1>10, <1>11 DEF Books, V

\* The rider's use is given back.
LEMMA BookReturnsUse ==
    ASSUME NEW o, NEW w, NEW p, NEW h, NEW W, BooksTyped(o, w, p, h, W), Books(o, w, p, h, W),
           NEW t \in W, t.at = "usage", NEW v \in Task, v.at = "gross", v.ride = t.ride
    PROVE  Books(o, [w EXCEPT ![UserOf[t.ride]] = Less(@, 1)], p, h, (W \ {t}) \cup {v})
<1>. DEFINE V == (W \ {t}) \cup {v}
            ww == [w EXCEPT ![UserOf[t.ride]] = Less(@, 1)]
<1>1. OwedSoundly(p, W) /\ W \subseteq Task /\ t \in Task
      /\ \A x \in W : x.ride = t.ride => x = t
  BY DEF Books, OwedSoundly, BooksTyped
<1>2. /\ AtBudget(V) = AtBudget(W)
  BY DEF AtBudget
<1>3. /\ \A u : /\ IsFiniteSet(UsesOwed(W, u)) /\ Cardinality(UsesOwed(W, u)) \in Nat
                /\ Cardinality(LiveFor(p, u)) \in Nat
  BY <1>1, BooksCount
<1>4. /\ o.spent = Total(h, LiveOf(p)) + OwedAmount(W)
      /\ o.count = Cardinality(LiveOf(p)) + Cardinality(AtBudget(W))
      /\ \A u \in Users : w[u] = Cardinality(LiveFor(p, u)) + Cardinality(UsesOwed(W, u))
  BY DEF Books
<1>5. /\ v.ride = t.ride /\ v.at = "gross" /\ t.ride \in Rides
      /\ \A u \in Users : ww[u] = IF u = UserOf[t.ride] THEN Less(w[u], 1) ELSE w[u]
  BY <1>1, UserOfTyped DEF Task, BooksTyped
<1>6. OwedSoundly(p, V)
  <2>1. IsFiniteSet(V)
    BY <1>1, FS_RemoveElement, FS_AddElement DEF OwedSoundly
  <2>2. \A x \in V : p[x.ride] = "released"
    BY <1>1, <1>5 DEF OwedSoundly
  <2>3. \A x, y \in V : x.ride = y.ride => x = y
    BY <1>1, <1>5 DEF OwedSoundly
  <2>. QED  BY <1>1, <2>1, <2>2, <2>3 DEF OwedSoundly
<1>. HIDE DEF ww
<1>7. ASSUME NEW u \in Users
      PROVE  ww[u] = Cardinality(LiveFor(p, u)) + Cardinality(UsesOwed(V, u))
  <2>1. CASE u = UserOf[t.ride]
    <3>1. UsesOwed(V, u) = UsesOwed(W, u) \ {t} /\ t \in UsesOwed(W, u)
      BY <1>1, <1>5, <2>1 DEF UsesOwed
    <3>2. /\ Cardinality(UsesOwed(W, u)) = Cardinality(UsesOwed(V, u)) + 1
          /\ Cardinality(UsesOwed(V, u)) \in Nat
      BY <1>3, <3>1, CountDrops
    <3>. QED  BY <1>3, <1>4, <1>5, <2>1, <3>2 DEF Less
  <2>2. CASE u # UserOf[t.ride]
    <3>1. UsesOwed(V, u) = UsesOwed(W, u)
      BY <1>5, <2>2 DEF UsesOwed
    <3>. QED  BY <1>4, <1>5, <2>2, <3>1
  <2>. QED  BY <2>1, <2>2
<1>. HIDE DEF V
<1>8. OwedAmount(V) = OwedAmount(W)
  BY <1>2 DEF OwedAmount
<1>. QED  BY <1>2, <1>4, <1>6, <1>7, <1>8 DEF Books, V, ww

\* The discount is zeroed: the release has given everything back.
LEMMA BookCloses ==
    ASSUME NEW o, NEW w, NEW p, NEW h, NEW W, BooksTyped(o, w, p, h, W), Books(o, w, p, h, W),
           NEW t \in W, t.at = "gross"
    PROVE  Books(o, w, p, h, W \ {t})
<1>1. IsFiniteSet(W \ {t})
  BY FS_RemoveElement DEF Books, OwedSoundly
<1>2. OwedSoundly(p, W \ {t})
  BY <1>1 DEF Books, OwedSoundly
<1>3. AtBudget(W \ {t}) = AtBudget(W) /\ \A u : UsesOwed(W \ {t}, u) = UsesOwed(W, u)
  BY DEF AtBudget, UsesOwed
<1>. QED  BY <1>2, <1>3 DEF Books, OwedAmount

\* A release in one transaction does in one step what one on the pool does in four.
LEMMA BookReleases ==
    ASSUME NEW o, NEW w, NEW p, NEW h, NEW W, BooksTyped(o, w, p, h, W), Books(o, w, p, h, W),
           NEW r \in Rides, p[r] = "reserved",
           NEW oo, oo.spent = Less(o.spent, h[r]), oo.count = Less(o.count, 1)
    PROVE  /\ Books(oo, [w EXCEPT ![UserOf[r]] = Less(@, 1)], [p EXCEPT ![r] = "released"], h, W)
           /\ oo.spent = o.spent - h[r] /\ oo.count = o.count - 1
<1>. DEFINE pp == [p EXCEPT ![r] = "released"]
            ww == [w EXCEPT ![UserOf[r]] = Less(@, 1)]
            a == [op |-> "release", at |-> "budget", ride |-> r, n |-> h[r], txn |-> NoTxn]
            b == [op |-> "release", at |-> "usage", ride |-> r, n |-> 0, txn |-> NoTxn]
            c == [op |-> "release", at |-> "gross", ride |-> r, n |-> 0, txn |-> NoTxn]
<1>1. /\ a \in Task /\ a.at = "budget" /\ a.ride = r /\ a.n = h[r]
      /\ b \in Task /\ b.at = "usage" /\ b.ride = r
      /\ c \in Task /\ c.at = "gross" /\ c.ride = r
      /\ a # b /\ b # c /\ a # c
  BY DEF Task, Ops, Steps, BooksTyped
<1>2. /\ W \subseteq Task /\ \A t \in W : t.ride # r
      /\ pp \in [Rides -> RedemptionStatus] /\ ww \in [Users -> Nat]
  BY UserOfTyped DEF Books, OwedSoundly, BooksTyped, RedemptionStatus, Less
<1>. HIDE DEF a, b, c, pp, ww
<1>3. Books(o, w, pp, h, W \cup {a})
  BY <1>1, BookUndoes DEF pp
<1>4. BooksTyped(o, w, pp, h, W \cup {a})
  BY <1>1, <1>2 DEF BooksTyped
<1>5. /\ Books(oo, w, pp, h, ((W \cup {a}) \ {a}) \cup {b})
      /\ oo.spent = o.spent - h[r] /\ oo.count = o.count - 1
  BY <1>1, <1>3, <1>4, BookReturnsBudget
<1>6. ((W \cup {a}) \ {a}) \cup {b} = W \cup {b}
  BY <1>1, <1>2
<1>7. Books(oo, w, pp, h, W \cup {b})
  BY <1>5, <1>6
<1>8. BooksTyped(oo, w, pp, h, W \cup {b})
  <2>1. oo.spent \in Nat /\ oo.count \in Nat
    BY DEF BooksTyped, Less
  <2>. QED  BY <1>1, <1>2, <2>1 DEF BooksTyped
<1>9. Books(oo, ww, pp, h, ((W \cup {b}) \ {b}) \cup {c})
  BY <1>1, <1>7, <1>8, BookReturnsUse DEF ww
<1>10. ((W \cup {b}) \ {b}) \cup {c} = W \cup {c}
  BY <1>1, <1>2
<1>11. Books(oo, ww, pp, h, W \cup {c}) /\ BooksTyped(oo, ww, pp, h, W \cup {c})
  BY <1>1, <1>2, <1>8, <1>9, <1>10 DEF BooksTyped
<1>12. Books(oo, ww, pp, h, (W \cup {c}) \ {c})
  BY <1>1, <1>11, BookCloses
<1>13. (W \cup {c}) \ {c} = W
  BY <1>1, <1>2
<1>. QED  BY <1>5, <1>12, <1>13 DEF pp, ww

-----------------------------------------------------------------------------
(* The invariant. *)

\* The steps of a release on the pool that has taken the redemption and not yet given
\* everything back; those at work, and those a death cut short.
Returning == {"budget", "usage", "gross"}
Owed == Unreturned(Returning)

LedgerInv == Books(offer, usage, redemption, held, Owed)

\* Before the settlement, and from then on.
Ending == {"fare", "derive", "shrink", "apply", "close"}
Billing == {"quote", "record", "claim"}
Closable == {"waiting", "no_drivers", "cancelled"}

\* Where the ride of a request is: an early end writes before it knows that it closes the
\* ride, all else that settles follows the end; a release runs beside a ride not begun.
TaskIsPlaced(t) ==
    /\ t.op = "release" <=> t.at \in Returning \cup {"undo"}
    /\ t.at \in Ending =>
        \/ ride[t.ride] = "completed"
        \/ t.op = "early" /\ ride[t.ride] \in {"underway", "cancelled"}
    /\ t.at \in Billing => ride[t.ride] = "completed"
    /\ t.at \in {"shrink", "apply"} => redemption[t.ride] \in HoldsBudget \/ ride[t.ride] = "cancelled"
    /\ t.op = "release" => ride[t.ride] \in Closable
TasksArePlaced == \A t \in tasks : TaskIsPlaced(t)
ListedIsClosed == \A r \in listed : ride[r] \in Closable
UnbookedIsBare == \A r \in Rides : ride[r] = "unbooked" => redemption[r] = "none"
CutIsOver == \A t \in cut : t.at \in Returning /\ t \notin tasks

\* A discount that no redemption holds is one that a release has yet to zero.
Backed(r) ==
    \/ redemption[r] \in HoldsBudget \/ discount[r] = 0 \/ ride[r] = "cancelled"
    \/ \E t \in Owed : t.ride = r
DiscountIsBacked == \A r \in Rides : Backed(r)

BudgetHolds == offer.spent <= offer.budget

PlaceInv ==
    /\ TasksArePlaced /\ ListedIsClosed /\ UnbookedIsBare /\ CutIsOver /\ DiscountIsBacked
    /\ BudgetHolds

-----------------------------------------------------------------------------
(* What a step does to the books. *)

Still ==
    /\ UNCHANGED <<usage, redemption, held>> /\ Owed' = Owed
    /\ offer'.spent = offer.spent /\ offer'.count = offer.count
    /\ \/ offer'.budget = offer.budget
       \/ offer'.budget \in Budgets /\ offer'.budget >= offer.spent

Promises(r) ==
    /\ ride[r] = "unbooked"
    /\ Owed' = Owed
    /\ \E n \in Nat :
        /\ offer.spent + n <= offer.budget
        /\ offer' = [offer EXCEPT !.spent = @ + n, !.count = @ + 1]
        /\ usage' = [usage EXCEPT ![UserOf[r]] = @ + 1]
        /\ redemption' = [redemption EXCEPT ![r] = "reserved"]
        /\ held' = [held EXCEPT ![r] = n]

\* The redemption is trued down, used up, or both.
Trues(r) ==
    /\ UNCHANGED usage /\ Owed' = Owed
    /\ \/ UNCHANGED <<held, offer>>
       \/ \E n \in Nat :
            /\ redemption[r] \in HoldsBudget /\ n < held[r]
            /\ held' = [held EXCEPT ![r] = n]
            /\ offer' = [offer EXCEPT !.spent = Less(@, held[r] - n)]
    /\ redemption' \in {redemption, Consumed(r)}

Releases(r) == redemption[r] = "reserved" /\ Release(r) /\ Owed' = Owed

Undoes(v) ==
    /\ v.at = "budget" /\ v.n = held[v.ride] /\ redemption[v.ride] = "reserved"
    /\ redemption' = [redemption EXCEPT ![v.ride] = "released"]
    /\ Owed' = Owed \cup {v}
    /\ UNCHANGED <<offer, usage, held>>

GivesBudget(t, v) ==
    /\ t.at = "budget" /\ v.at = "usage" /\ v.ride = t.ride
    /\ offer' = [offer EXCEPT !.spent = Less(@, t.n), !.count = Less(@, 1)]
    /\ Owed' = (Owed \ {t}) \cup {v}
    /\ UNCHANGED <<usage, redemption, held>>

GivesUse(t, v) ==
    /\ t.at = "usage" /\ v.at = "gross" /\ v.ride = t.ride
    /\ usage' = [usage EXCEPT ![UserOf[t.ride]] = Less(@, 1)]
    /\ Owed' = (Owed \ {t}) \cup {v}
    /\ UNCHANGED <<offer, redemption, held>>

Closes(t) ==
    /\ t.at = "gross"
    /\ Owed' = Owed \ {t}
    /\ discount' = [discount EXCEPT ![t.ride] = 0]
    /\ UNCHANGED offerVars

BookStep ==
    \/ Still
    \/ \E r \in Rides : Promises(r) \/ Trues(r) \/ Releases(r)
    \/ \E v \in Task : Undoes(v)
    \/ \E t \in Owed, v \in Task : GivesBudget(t, v) \/ GivesUse(t, v)
    \/ \E t \in Owed : Closes(t)

\* The books are made of amounts and finite sets in every typed state.
LEMMA LedgerTyped ==
    ASSUME MoneyTypeOK PROVE BooksTyped(offer, usage, redemption, held, Owed)
  BY DEF MoneyTypeOK, BooksTyped, Owed, Unreturned

\* A statement outside of a release on the pool leaves what is owed alone.
LEMMA OwedStays ==
    ASSUME cut' = cut, NEW t, t.at \notin Returning, tasks \ {t} \subseteq tasks',
           \A u \in tasks' : u \in tasks \/ u.at \notin Returning
    PROVE  Owed' = Owed
  BY DEF Owed, Unreturned

\* The statements of a release, a death and a step that only starts something.
LEMMA OfferBookStep ==
    ASSUME MoneyTypeOK, PlaceInv, LedgerInv, OfferNext PROVE BookStep
<1>. USE DEF offerVars, countVars
<1>1. ASSUME UNCHANGED <<tasks, cut>> PROVE Owed' = Owed
  BY <1>1 DEF Owed, Unreturned
<1>2. ASSUME NEW r \in Rides,
             BookPlain(r) \/ Reopen(r) \/ ListStale(r)
      PROVE  Still
  BY <1>1, <1>2 DEF BookPlain, Reopen, ListStale, Still
<1>3. ASSUME NEW r \in Rides, BookWithOffer(r) PROVE Promises(r)
  <2>1. DiscountOn(Estimate) \in Nat
    BY DiscountIsNat, FaresAreNat
  <2>2. Owed' = Owed
    BY <1>1, <1>3 DEF BookWithOffer
  <2>. QED  BY <1>3, <2>1, <2>2 DEF BookWithOffer, OfferTakes, Promises
<1>4. ASSUME NEW r \in Rides, CancelFree(r) \/ ReleaseStale(r) PROVE Releases(r) \/ Still
  <2>1. Release(r) /\ Owed' = Owed
    BY <1>1, <1>4 DEF CancelFree, ReleaseStale
  <2>2. CASE redemption[r] # "reserved"
    BY <2>1, <2>2 DEF Release, Still
  <2>. QED  BY <2>1, <2>2 DEF Releases
<1>5. ASSUME NEW r \in Rides, CancelWithFee(r) PROVE Trues(r)
  BY <1>1, <1>5 DEF CancelWithFee, Trues
<1>6. ASSUME NEW r \in Rides, CloseNoDrivers(r) PROVE Still
  <2>1. NewTask("release", "undo", r).at \notin Returning
    BY DEF NewTask, Returning
  <2>2. cut' = cut /\ (tasks' = tasks \/ tasks' = tasks \cup {NewTask("release", "undo", r)})
    BY <1>6 DEF CloseNoDrivers, Start
  <2>3. Owed' = Owed
    BY <2>1, <2>2 DEF Owed, Unreturned
  <2>. QED  BY <1>6, <2>3 DEF CloseNoDrivers, Still
<1>7. CASE PatchOffer
  <2>1. PICK st \in OfferState, b \in Budgets :
            b >= offer.spent /\ offer' = [offer EXCEPT !.st = st, !.budget = b]
    BY <1>7 DEF PatchOffer
  <2>2. Owed' = Owed /\ UNCHANGED <<usage, redemption, held>>
    BY <1>1, <1>7 DEF PatchOffer
  <2>. QED  BY <2>1, <2>2 DEF Still, BookStep, MoneyTypeOK
<1>8. ASSUME NEW t \in tasks, UndoRedemption(t) PROVE Still \/ \E v \in Task : Undoes(v)
  <2>1. t \in Task /\ t.at = "undo" /\ cut' = cut /\ held[t.ride] \in Nat
    BY <1>8, TaskTyped DEF UndoRedemption, MoneyTypeOK
  <2>2. CASE redemption[t.ride] # "reserved"
    <3>1. tasks' = tasks \ {t}
      BY <1>8, <2>2 DEF UndoRedemption, Ends
    <3>2. Owed' = Owed
      BY <2>1, <3>1 DEF Owed, Unreturned, Returning
    <3>. QED  BY <1>8, <2>2, <3>2 DEF UndoRedemption, Still
  <2>3. CASE redemption[t.ride] = "reserved"
    <3>. DEFINE v == [t EXCEPT !.at = "budget", !.n = held[t.ride], !.txn = NoTxn]
    <3>1. v \in Task /\ v.at = "budget" /\ v.ride = t.ride /\ v.n = held[t.ride]
      BY <2>1 DEF Task, Steps
    <3>2. tasks' = (tasks \ {t}) \cup {v}
      BY <1>8, <2>3 DEF UndoRedemption, Carries
    <3>. HIDE DEF v
    <3>3. Owed' = Owed \cup {v}
      BY <2>1, <3>1, <3>2 DEF Owed, Unreturned, Returning
    <3>4. Undoes(v)
      BY <1>8, <2>3, <3>1, <3>3 DEF UndoRedemption, Undoes
    <3>. QED  BY <3>1, <3>4
  <2>. QED  BY <2>2, <2>3
<1>9. ASSUME NEW t \in tasks, ReturnBudget(t) PROVE \E v \in Task : t \in Owed /\ GivesBudget(t, v)
  <2>. DEFINE v == [t EXCEPT !.at = "usage", !.n = 0, !.txn = NoTxn]
  <2>1. t \in Task /\ t.at = "budget" /\ cut' = cut /\ t \notin cut /\ t \in Owed
    BY <1>9 DEF ReturnBudget, MoneyTypeOK, PlaceInv, CutIsOver, Owed, Unreturned, Returning
  <2>2. v \in Task /\ v.at = "usage" /\ v.ride = t.ride
    BY <2>1 DEF Task, Steps
  <2>3. tasks' = (tasks \ {t}) \cup {v}
    BY <1>9 DEF ReturnBudget, Carries
  <2>. HIDE DEF v
  <2>4. Owed' = (Owed \ {t}) \cup {v}
    BY <2>1, <2>2, <2>3 DEF Owed, Unreturned, Returning
  <2>5. GivesBudget(t, v)
    BY <1>9, <2>2, <2>4 DEF ReturnBudget, GivesBudget
  <2>. QED  BY <2>1, <2>2, <2>5
<1>10. ASSUME NEW t \in tasks, ReturnUsage(t) PROVE \E v \in Task : t \in Owed /\ GivesUse(t, v)
  <2>. DEFINE v == [t EXCEPT !.at = "gross"]
  <2>1. t \in Task /\ t.at = "usage" /\ cut' = cut /\ t \notin cut /\ t \in Owed
    BY <1>10 DEF ReturnUsage, MoneyTypeOK, PlaceInv, CutIsOver, Owed, Unreturned, Returning
  <2>2. v \in Task /\ v.at = "gross" /\ v.ride = t.ride
    BY <2>1 DEF Task, Steps
  <2>3. tasks' = (tasks \ {t}) \cup {v}
    BY <1>10 DEF ReturnUsage, Goes
  <2>. HIDE DEF v
  <2>4. Owed' = (Owed \ {t}) \cup {v}
    BY <2>1, <2>2, <2>3 DEF Owed, Unreturned, Returning
  <2>5. GivesUse(t, v)
    BY <1>10, <2>2, <2>4 DEF ReturnUsage, GivesUse
  <2>. QED  BY <2>1, <2>2, <2>5
<1>11. ASSUME NEW t \in tasks, ZeroDiscount(t) PROVE t \in Owed /\ Closes(t)
  <2>1. t.at = "gross" /\ cut' = cut /\ t \notin cut /\ t \in Owed
    BY <1>11 DEF ZeroDiscount, PlaceInv, CutIsOver, Owed, Unreturned, Returning
  <2>2. tasks' = tasks \ {t}
    BY <1>11 DEF ZeroDiscount, Ends
  <2>3. Owed' = Owed \ {t}
    BY <2>1, <2>2 DEF Owed, Unreturned
  <2>. QED  BY <1>11, <2>1, <2>3 DEF ZeroDiscount, Closes
<1>12. ASSUME NEW t \in tasks, Derive(t) \/ Apply(t) \/ Shrink(t) PROVE Owed' = Owed
  <2>1. t.at \in Ending /\ t.n \in Nat /\ Rederived(t.ride) \in Nat /\ cut' = cut
    BY <1>12, TaskTyped, RederivedIsNat DEF Derive, Apply, Shrink, Ending, MoneyTypeOK
  <2>2. /\ tasks \ {t} \subseteq tasks'
        /\ \A u \in tasks' : u \in tasks \/ u.at \in Ending \cup Billing
    BY <1>12, <2>1, TaskGoes, TaskCarries DEF Derive, Apply, Shrink, Steps, Ending, Billing
  <2>. QED  BY <2>1, <2>2, OwedStays DEF Ending, Billing, Returning
<1>13. ASSUME NEW t \in tasks, Derive(t) \/ Apply(t) PROVE Still
  BY <1>12, <1>13 DEF Derive, Apply, Still
<1>14. ASSUME NEW t \in tasks, Shrink(t) PROVE t.ride \in Rides /\ Trues(t.ride)
  <2>1. t.ride \in Rides /\ t.n \in Nat /\ held[t.ride] \in Nat
    BY TaskTyped DEF MoneyTypeOK
  <2>2. Owed' = Owed
    BY <1>12, <1>14
  <2>. QED  BY <1>14, <2>1, <2>2 DEF Shrink, Trues
<1>. QED
  BY <1>2, <1>3, <1>4, <1>5, <1>6, <1>7, <1>8, <1>9, <1>10, <1>11, <1>13, <1>14
  DEF OfferNext, BookStep

\* A statement of a request or job that settles, pays or answers a callback goes on to
\* another such statement.
Paying == Steps \ (Returning \cup {"undo"})

\* A request among the payment's statements stays there, for its ride.
LEMMA PayingTaskMoves ==
    ASSUME MoneyTypeOK, NEW t \in tasks, TaskStep(t)
    PROVE  /\ t.at \in Paying /\ cut' = cut /\ tasks \ {t} \subseteq tasks'
           /\ \A u \in tasks' : \/ u \in tasks
                                \/ u.at \in Paying /\ u.ride = t.ride /\ u.op = t.op
<1>. USE DEF countVars, unchangedByPaying
<1>1. t \in Task
  BY DEF MoneyTypeOK
<1>2. CASE WriteFare(t) \/ CloseEarly(t)
  BY <1>2, TaskGoes, TaskEnds DEF WriteFare, CloseEarly, Steps, Paying, Returning
<1>3. CASE Quote(t)
  <2>1. t.at \in Paying /\ cut' = cut
    BY <1>3 DEF Quote, Paying, Steps, Returning
  <2>2. CASE Ends(t) \/ Goes(t, "claim")
    BY <2>1, <2>2, TaskGoes, TaskEnds DEF Steps, Paying, Returning
  <2>3. CASE Carries(t, "record", Payable(Fare(t.ride), discount'[t.ride]), NoTxn)
    <3>1. discount' \in [Rides -> Nat] /\ t.ride \in Rides
      BY <1>1, <1>3, FinaliseTyped, TaskTyped DEF Quote
    <3>2. Payable(Fare(t.ride), discount'[t.ride]) \in Nat
      BY <3>1, FareIsNat, AmountsAreNat
    <3>. QED  BY <2>1, <2>3, <3>2, TaskCarries DEF Steps, Paying, Returning
  <2>. QED  BY <1>3, <2>2, <2>3 DEF Quote
<1>4. CASE Record(t)
  BY <1>4, TaskGoes, TaskEnds DEF Record, Steps, Paying, Returning
<1>5. CASE Order(t) \/ Debit(t) \/ Confirm(t) \/ Claim(t)
  BY <1>5, TaskGoes, TaskEnds DEF Order, Debit, Confirm, Claim, Steps, Paying, Returning
<1>6. CASE Flag(t) \/ ReopenPayment(t) \/ Judge(t) \/ FailPayment(t)
  BY <1>6, TaskGoes, TaskEnds DEF Flag, ReopenPayment, Judge, FailPayment, Steps, Paying, Returning
<1>7. CASE Reset(t)
  BY <1>7, TaskGoes, TaskEnds DEF Reset, Steps, Paying, Returning
<1>. QED  BY <1>2, <1>3, <1>4, <1>5, <1>6, <1>7 DEF TaskStep

\* What starts on the payments' side.
LEMMA PayingStarts ==
    ASSUME MoneyTypeOK, PaymentNext, ~\E t \in tasks : TaskStep(t) \/ Die(t)
    PROVE  /\ UNCHANGED <<discount, offerVars, cut, listed>> /\ tasks \subseteq tasks'
           /\ \A u \in tasks' \ tasks :
                /\ u.at \in Paying /\ u.op # "release"
                /\ u.at \in Ending =>
                    ride'[u.ride] = "completed" \/ (u.op = "early" /\ ride'[u.ride] = "underway")
                /\ u.at \in Billing => ride'[u.ride] = "completed"
                /\ u.at \notin {"shrink", "apply"}
<1>. USE DEF countVars, NewTask
<1>1. ASSUME NEW r \in Rides, StartTrip(r) PROVE UNCHANGED <<discount, offerVars, cut, listed, tasks>>
  BY <1>1 DEF StartTrip
<1>2. ASSUME NEW r \in Rides, EndTrip(r)
      PROVE  /\ UNCHANGED <<discount, offerVars, cut, listed>> /\ ride'[r] = "completed"
             /\ tasks' = tasks \cup {NewTask("end", "fare", r)}
  BY <1>2 DEF EndTrip, Start, MoneyTypeOK
<1>3. ASSUME NEW r \in Rides, BeginEarlyEnd(r)
      PROVE  /\ UNCHANGED <<discount, offerVars, cut, listed>> /\ ride'[r] = "underway"
             /\ tasks' = tasks \cup {NewTask("early", "fare", r)}
  BY <1>3 DEF BeginEarlyEnd, Start, tripVars
<1>4. ASSUME NEW r \in Rides, StrandedSweep(r) \/ BeginCollect(r)
      PROVE  /\ UNCHANGED <<discount, offerVars, cut, listed>> /\ ride'[r] = "completed"
             /\ \E op \in {"stranded", "cash"} : tasks' = tasks \cup {NewTask(op, "quote", r)}
  BY <1>4 DEF StrandedSweep, BeginCollect, Start, tripVars
<1>5. ASSUME NEW r \in Rides, Poll(r)
      PROVE  /\ UNCHANGED <<discount, offerVars, cut, listed>>
             /\ \E at \in {"confirm", "fail"} :
                    tasks' = tasks \cup {[op |-> "poll", at |-> at, ride |-> r, n |-> 0, txn |-> payment[r].txn]}
  BY <1>5 DEF Poll
<1>6. ASSUME NEW r \in Rides, BeginRetry(r)
      PROVE  /\ UNCHANGED <<discount, offerVars, cut, listed>>
             /\ \E u : u.at = "reset" /\ u.op = "retry" /\ tasks' = tasks \cup {u}
  BY <1>6 DEF BeginRetry, Start
<1>7. ASSUME NEW u \in Users, NEW k \in Txns, FundWallet(u) \/ RiderPays(k)
      PROVE  UNCHANGED <<discount, offerVars, cut, listed, tasks>>
  BY <1>7 DEF FundWallet, RiderPays
<1>8. ASSUME NEW k \in Txns, Notify(k)
      PROVE  /\ UNCHANGED <<discount, offerVars, cut, listed>>
             /\ \E at \in {"flag", "reopen", "confirm"} :
                    tasks' = tasks \cup {[op |-> "payu", at |-> at, ride |-> txn[k].ride, n |-> 0, txn |-> k]}
  BY <1>8 DEF Notify
<1>9. CASE \E r \in Rides : StartTrip(r)
  BY <1>1, <1>9
<1>. USE DEF Paying, Steps, Returning, Ending, Billing
<1>10. CASE \E r \in Rides : EndTrip(r) \/ BeginEarlyEnd(r)
  BY <1>2, <1>3, <1>10
<1>11. CASE \E r \in Rides : StrandedSweep(r) \/ BeginCollect(r)
  BY <1>4, <1>11
<1>12. CASE \E r \in Rides : Poll(r) \/ BeginRetry(r)
  <2>1. CASE \E r \in Rides : Poll(r)
    BY <1>5, <2>1
  <2>2. CASE \E r \in Rides : BeginRetry(r)
    BY <1>6, <2>2
  <2>. QED  BY <1>12, <2>1, <2>2
<1>13. CASE (\E u \in Users : FundWallet(u)) \/ (\E k \in Txns : RiderPays(k))
  BY <1>13 DEF FundWallet, RiderPays
<1>14. CASE \E k \in Txns : Notify(k)
  BY <1>8, <1>14
<1>. QED  BY <1>9, <1>10, <1>11, <1>12, <1>13, <1>14 DEF PaymentNext

\* A death leaves the books as they are: what the request was to give back is owed by the cut one.
LEMMA DeathOwes ==
    ASSUME NEW t \in tasks, Die(t)
    PROVE  /\ UNCHANGED <<tripVars, discount, offerVars, listed>>
           /\ tasks' = tasks \ {t} /\ Owed' = Owed
           /\ cut \subseteq cut' /\ \A u \in cut' : u \in cut \/ (u = t /\ t.at \in Returning)
<1>1. tasks' = tasks \ {t} /\ cut' = IF t.at \in Returning THEN cut \cup {t} ELSE cut
  BY DEF Die, Ends, Returning
<1>2. Owed' = Owed
  BY <1>1 DEF Owed, Unreturned
<1>. QED  BY <1>1, <1>2 DEF Die

\* What a step of the payments does to the books.
LEMMA PaymentBookStep ==
    ASSUME MoneyTypeOK, PlaceInv, LedgerInv, PaymentNext PROVE BookStep
<1>. USE DEF offerVars
<1>1. CASE ~\E t \in tasks : TaskStep(t) \/ Die(t)
  <2>1. /\ UNCHANGED <<discount, offerVars, cut, listed>> /\ tasks \subseteq tasks'
        /\ \A u \in tasks' \ tasks : u.at \in Paying
    BY <1>1, PayingStarts
  <2>2. Owed' = Owed
    BY <2>1 DEF Owed, Unreturned, Paying
  <2>. QED  BY <2>1, <2>2 DEF Still, BookStep
<1>2. ASSUME NEW t \in tasks, Die(t) PROVE Still
  BY <1>2, DeathOwes DEF Still
<1>3. ASSUME NEW t \in tasks, TaskStep(t) PROVE Owed' = Owed
  BY <1>3, PayingTaskMoves, OwedStays DEF Paying
<1>4. ASSUME NEW t \in tasks,
             \/ WriteFare(t) \/ CloseEarly(t) \/ Order(t) \/ Debit(t) \/ Flag(t)
             \/ ReopenPayment(t) \/ Judge(t) \/ FailPayment(t) \/ Reset(t)
      PROVE  Still
  <2>1. Owed' = Owed
    BY <1>3, <1>4 DEF TaskStep
  <2>2. UNCHANGED offerVars
    BY <1>4 DEF WriteFare, CloseEarly, Order, Debit, Flag, ReopenPayment, Judge, FailPayment, Reset
  <2>. QED  BY <2>1, <2>2 DEF Still
<1>5. ASSUME NEW r \in Rides, Finalise(r), Owed' = Owed, UNCHANGED usage,
             redemption' \in {redemption, Consumed(r)}
      PROVE  Trues(r)
  BY <1>5, RederivedIsNat DEF Finalise, Trues
<1>6. ASSUME NEW t \in tasks, Quote(t) \/ Record(t) \/ Confirm(t) \/ Claim(t) PROVE Trues(t.ride)
  <2>1. t.ride \in Rides /\ Owed' = Owed
    BY <1>3, <1>6, TaskTyped DEF TaskStep, MoneyTypeOK
  <2>2. CASE Quote(t) \/ Record(t)
    BY <1>5, <2>1, <2>2 DEF Quote, Record, unchangedByPaying
  <2>3. CASE Confirm(t)
    BY <2>1, <2>3 DEF Confirm, Trues, unchangedByPaying
  <2>4. CASE Claim(t)
    <3>1. CASE t.ride \in collected
      BY <2>1, <2>4, <3>1 DEF Claim, Trues, unchangedByPaying
    <3>2. CASE t.ride \notin collected
      BY <1>5, <2>1, <2>4, <3>2 DEF Claim, unchangedByPaying
    <3>. QED  BY <3>1, <3>2
  <2>. QED  BY <1>6, <2>2, <2>3, <2>4
<1>7. ASSUME NEW t \in tasks, TaskStep(t) PROVE Still \/ (t.ride \in Rides /\ Trues(t.ride))
  BY <1>4, <1>6, <1>7, TaskTyped DEF TaskStep, MoneyTypeOK
<1>. QED  BY <1>1, <1>2, <1>7 DEF BookStep

\* What any step does to the books: it is one of the ways in which they change.
LEMMA EveryBookStep ==
    ASSUME MoneyTypeOK, PlaceInv, LedgerInv, [MoneyNext]_moneyVars PROVE BookStep
<1>1. CASE UNCHANGED moneyVars
  BY <1>1 DEF moneyVars, countVars, offerVars, Owed, Unreturned, Still, BookStep
<1>. QED  BY <1>1, OfferBookStep, PaymentBookStep DEF MoneyNext

\* Whatever a step does to the books, they balance again.
LEMMA LedgerInvStep ==
    ASSUME MoneyTypeOK, PlaceInv, LedgerInv, BookStep PROVE LedgerInv'
<1>1. BooksTyped(offer, usage, redemption, held, Owed) /\ Books(offer, usage, redemption, held, Owed)
  BY LedgerTyped DEF LedgerInv
<1>2. CASE Still
  BY <1>1, <1>2 DEF Still, LedgerInv, Books
<1>3. ASSUME NEW r \in Rides, Promises(r) PROVE LedgerInv'
  <2>1. PICK n \in Nat :
            /\ offer' = [offer EXCEPT !.spent = @ + n, !.count = @ + 1]
            /\ usage' = [usage EXCEPT ![UserOf[r]] = @ + 1]
            /\ redemption' = [redemption EXCEPT ![r] = "reserved"]
            /\ held' = [held EXCEPT ![r] = n]
    BY <1>3 DEF Promises
  <2>2. redemption[r] = "none" /\ Owed' = Owed
    BY <1>3 DEF Promises, PlaceInv, UnbookedIsBare
  <2>3. offer'.spent = offer.spent + n /\ offer'.count = offer.count + 1
    BY <2>1 DEF MoneyTypeOK
  <2>. QED  BY <1>1, <2>1, <2>2, <2>3, BookPromises DEF LedgerInv
<1>4. ASSUME NEW r \in Rides, Trues(r) PROVE LedgerInv'
  <2>1. Books(offer', usage', redemption, held', Owed') /\ offer'.spent \in Nat /\ offer'.count = offer.count
        /\ held' \in [Rides -> Nat]
    <3>1. CASE UNCHANGED <<held, offer>>
      BY <1>1, <1>4, <3>1 DEF Trues, BooksTyped
    <3>2. CASE ~UNCHANGED <<held, offer>>
      <4>1. PICK n \in Nat :
                /\ redemption[r] \in HoldsBudget /\ n < held[r]
                /\ held' = [held EXCEPT ![r] = n]
                /\ offer' = [offer EXCEPT !.spent = Less(@, held[r] - n)]
        BY <1>4, <3>2 DEF Trues
      <4>2. /\ offer'.spent = Less(offer.spent, held[r] - n) /\ offer'.count = offer.count
            /\ r \in LiveOf(redemption) /\ UNCHANGED usage /\ Owed' = Owed
        BY <1>4, <4>1 DEF MoneyTypeOK, LiveOf, Trues
      <4>3. offer'.spent \in Nat /\ held' \in [Rides -> Nat]
        BY <4>1, <4>2 DEF Less, MoneyTypeOK
      <4>. QED  BY <1>1, <4>1, <4>2, <4>3, BookShrinks
    <3>. QED  BY <3>1, <3>2
  <2>2. BooksTyped(offer', usage', redemption, held', Owed')
    BY <1>1, <1>4, <2>1 DEF BooksTyped, Trues
  <2>3. Books(offer', usage', Consumed(r), held', Owed')
    BY <2>1, <2>2, BookGives DEF Consumed
  <2>. QED  BY <1>4, <2>1, <2>3 DEF Trues, LedgerInv
<1>5. ASSUME NEW r \in Rides, Releases(r) PROVE LedgerInv'
  <2>1. /\ redemption[r] = "reserved" /\ Owed' = Owed /\ held' = held
        /\ redemption' = [redemption EXCEPT ![r] = "released"]
        /\ usage' = [usage EXCEPT ![UserOf[r]] = Less(@, 1)]
        /\ offer'.spent = Less(offer.spent, held[r]) /\ offer'.count = Less(offer.count, 1)
    BY <1>5 DEF Releases, Release, MoneyTypeOK
  <2>. QED  BY <1>1, <2>1, BookReleases DEF LedgerInv
<1>6. ASSUME NEW v \in Task, Undoes(v) PROVE LedgerInv'
  BY <1>1, <1>6, BookUndoes DEF Undoes, LedgerInv
<1>7. ASSUME NEW t \in Owed, NEW v \in Task, GivesBudget(t, v) PROVE LedgerInv'
  <2>1. offer'.spent = Less(offer.spent, t.n) /\ offer'.count = Less(offer.count, 1)
    BY <1>7 DEF GivesBudget, MoneyTypeOK
  <2>. QED  BY <1>1, <1>7, <2>1, BookReturnsBudget DEF GivesBudget, LedgerInv
<1>8. ASSUME NEW t \in Owed, NEW v \in Task, GivesUse(t, v) PROVE LedgerInv'
  BY <1>1, <1>8, BookReturnsUse DEF GivesUse, LedgerInv
<1>9. ASSUME NEW t \in Owed, Closes(t) PROVE LedgerInv'
  BY <1>1, <1>9, BookCloses DEF Closes, offerVars, LedgerInv
<1>. QED  BY <1>2, <1>3, <1>4, <1>5, <1>6, <1>7, <1>8, <1>9 DEF BookStep

-----------------------------------------------------------------------------
(* What a step does to a ride, its redemption, its discount and its requests. *)

RideMoves(r) ==
    /\ ride[r] \in {"completed", "cancelled"} => ride'[r] = ride[r]
    /\ ride[r] = "underway" => ride'[r] \in {"underway", "completed", "cancelled"}
    /\ ride[r] \in Closable =>
        \/ ride'[r] \in Closable
        \/ ride'[r] = "underway" /\ r \notin listed /\ \A t \in tasks : ~(t.op = "release" /\ t.ride = r)
    /\ ride'[r] = "unbooked" => ride[r] = "unbooked"

RedemptionMoves(r) ==
    \/ redemption'[r] = redemption[r]
    \/ ride'[r] = "waiting" /\ redemption'[r] = "reserved"
    \/ redemption[r] = "reserved" /\ redemption'[r] = "consumed"
    \/ /\ redemption[r] = "reserved" /\ redemption'[r] = "released" /\ ride'[r] \in Closable
       /\ discount'[r] = 0 \/ \E t \in Owed' : t.ride = r

DiscountMoves(r) ==
    \/ discount'[r] = discount[r] \/ discount'[r] = 0
    \/ redemption'[r] \in HoldsBudget \/ ride'[r] = "cancelled"

OwedMoves(t) == discount'[t.ride] = 0 \/ \E v \in Owed' : v.ride = t.ride

\* How the offer's steps move a ride, its redemption and its discount.
LEMMA OfferRideMoves ==
    ASSUME MoneyTypeOK, PlaceInv, LedgerInv, OfferNext
    PROVE  \A r \in Rides : RideMoves(r) /\ RedemptionMoves(r) /\ DiscountMoves(r)
<1>. USE DEF offerVars, tripVars
<1>. SUFFICES ASSUME NEW r \in Rides PROVE RideMoves(r) /\ RedemptionMoves(r) /\ DiscountMoves(r)
  OBVIOUS
<1>0. ride[r] \in RideStatus /\ redemption[r] \in RedemptionStatus
  BY DEF MoneyTypeOK
<1>1. ASSUME ride'[r] = ride[r] PROVE RideMoves(r)
  BY <1>0, <1>1 DEF RideMoves
<1>2. ASSUME UNCHANGED <<redemption, discount>> PROVE RedemptionMoves(r) /\ DiscountMoves(r)
  BY <1>2 DEF RedemptionMoves, DiscountMoves
<1>3. ASSUME NEW s \in Rides, Release(s), ride'[s] \in Closable
      PROVE  RedemptionMoves(r) /\ DiscountMoves(r)
  BY <1>0, <1>3 DEF Release, RedemptionMoves, DiscountMoves, MoneyTypeOK
<1>4. ASSUME NEW s \in Rides, BookPlain(s) \/ BookWithOffer(s)
      PROVE  RideMoves(r) /\ RedemptionMoves(r) /\ DiscountMoves(r)
  BY <1>0, <1>4
  DEF BookPlain, BookWithOffer, RideMoves, RedemptionMoves, DiscountMoves, Closable, MoneyTypeOK,
      HoldsBudget
<1>5. ASSUME NEW s \in Rides, CancelFree(s)
      PROVE  RideMoves(r) /\ RedemptionMoves(r) /\ DiscountMoves(r)
  <2>1. ride' = [ride EXCEPT ![s] = "cancelled"] /\ ride[s] \in {"waiting", "underway"} /\ Release(s)
    BY <1>5 DEF CancelFree
  <2>2. RideMoves(r)
    BY <1>0, <2>1 DEF RideMoves, Closable, MoneyTypeOK
  <2>3. ride'[s] \in Closable
    BY <2>1 DEF Closable, MoneyTypeOK
  <2>. QED  BY <1>3, <2>1, <2>2, <2>3
<1>6. ASSUME NEW s \in Rides, CancelWithFee(s)
      PROVE  RideMoves(r) /\ RedemptionMoves(r) /\ DiscountMoves(r)
  BY <1>0, <1>6
  DEF CancelWithFee, RideMoves, RedemptionMoves, DiscountMoves, Closable, MoneyTypeOK, Consumed
<1>7. ASSUME NEW s \in Rides, CloseNoDrivers(s) \/ Reopen(s)
      PROVE  RideMoves(r) /\ RedemptionMoves(r) /\ DiscountMoves(r)
  <2>1. RideMoves(r)
    BY <1>0, <1>7 DEF CloseNoDrivers, Reopen, RideMoves, Closable, MoneyTypeOK
  <2>. QED  BY <1>2, <1>7, <2>1 DEF CloseNoDrivers, Reopen
<1>8. ASSUME NEW s \in Rides, ReleaseStale(s)
      PROVE  RideMoves(r) /\ RedemptionMoves(r) /\ DiscountMoves(r)
  <2>1. ride' = ride /\ Release(s) /\ ride[s] \in Closable
    BY <1>8 DEF ReleaseStale, PlaceInv, ListedIsClosed
  <2>. QED  BY <1>1, <1>3, <2>1
<1>9. ASSUME \/ \E s \in Rides : ListStale(s)
             \/ PatchOffer
             \/ \E t \in tasks : ReturnBudget(t) \/ ReturnUsage(t) \/ Derive(t) \/ Shrink(t)
      PROVE  RideMoves(r) /\ RedemptionMoves(r) /\ DiscountMoves(r)
  <2>1. UNCHANGED <<ride, redemption, discount>>
    BY <1>9 DEF ListStale, PatchOffer, ReturnBudget, ReturnUsage, Derive, Shrink
  <2>. QED  BY <1>1, <1>2, <2>1
<1>10. ASSUME NEW t \in tasks, UndoRedemption(t)
       PROVE  RideMoves(r) /\ RedemptionMoves(r) /\ DiscountMoves(r)
  <2>1. t \in Task /\ t.ride \in Rides /\ ride[t.ride] \in Closable /\ held[t.ride] \in Nat
    BY <1>10, TaskTyped DEF UndoRedemption, PlaceInv, TasksArePlaced, TaskIsPlaced, MoneyTypeOK
  <2>2. ride' = ride /\ discount' = discount
    BY <1>10 DEF UndoRedemption
  <2>3. CASE redemption[t.ride] # "reserved"
    BY <1>1, <1>2, <1>10, <2>2, <2>3 DEF UndoRedemption
  <2>4. CASE redemption[t.ride] = "reserved"
    <3>1. redemption' = [redemption EXCEPT ![t.ride] = "released"]
          /\ Carries(t, "budget", held[t.ride], NoTxn)
      BY <1>10, <2>4 DEF UndoRedemption
    <3>2. \E u \in tasks' : u.at = "budget" /\ u.ride = t.ride
      BY <2>1, <3>1, TaskCarries DEF Steps
    <3>3. \E u \in Owed' : u.ride = t.ride
      BY <3>2 DEF Owed, Unreturned, Returning
    <3>4. RedemptionMoves(r) /\ DiscountMoves(r)
      BY <1>0, <2>1, <2>2, <2>4, <3>1, <3>3 DEF RedemptionMoves, DiscountMoves, MoneyTypeOK
    <3>. QED  BY <1>1, <2>2, <3>4
  <2>. QED  BY <2>3, <2>4
<1>11. ASSUME NEW t \in tasks, ZeroDiscount(t) \/ Apply(t)
       PROVE  RideMoves(r) /\ RedemptionMoves(r) /\ DiscountMoves(r)
  <2>1. t.ride \in Rides /\ ride' = ride /\ redemption' = redemption
    BY <1>11, TaskTyped DEF ZeroDiscount, Apply, MoneyTypeOK
  <2>2. ASSUME ZeroDiscount(t) PROVE DiscountMoves(r)
    BY <2>1, <2>2 DEF ZeroDiscount, DiscountMoves, MoneyTypeOK
  <2>3. ASSUME Apply(t) PROVE DiscountMoves(r)
    <3>1. redemption[t.ride] \in HoldsBudget \/ ride[t.ride] = "cancelled"
      BY <2>3 DEF Apply, PlaceInv, TasksArePlaced, TaskIsPlaced
    <3>2. discount' = [discount EXCEPT ![t.ride] = t.n]
      BY <2>3 DEF Apply
    <3>. QED  BY <2>1, <3>1, <3>2 DEF DiscountMoves, MoneyTypeOK
  <2>. QED  BY <1>1, <1>11, <2>1, <2>2, <2>3 DEF RedemptionMoves
<1>. QED
  BY <1>4, <1>5, <1>6, <1>7, <1>8, <1>9, <1>10, <1>11 DEF OfferNext

\* What the settlement makes of a discount rests on a redemption.
LEMMA FinaliseMoves ==
    ASSUME MoneyTypeOK, NEW s \in Rides, Finalise(s), redemption' \in {redemption, Consumed(s)}
    PROVE  \A r \in Rides : DiscountMoves(r)
<1>1. discount' = [discount EXCEPT ![s] = Rederived(s)]
  BY DEF Finalise
<1>2. redemption[s] \notin HoldsBudget => Rederived(s) = discount[s]
  BY DEF Rederived
<1>3. redemption[s] \in HoldsBudget => redemption'[s] \in HoldsBudget
  BY DEF Consumed, HoldsBudget, MoneyTypeOK
<1>. QED  BY <1>1, <1>2, <1>3 DEF DiscountMoves, MoneyTypeOK

\* How the payments' steps move a ride, its redemption and its discount.
LEMMA PaymentRideMoves ==
    ASSUME MoneyTypeOK, PlaceInv, LedgerInv, PaymentNext
    PROVE  \A r \in Rides : RideMoves(r) /\ RedemptionMoves(r) /\ DiscountMoves(r)
<1>. USE DEF offerVars, tripVars
<1>1. ASSUME NEW r \in Rides PROVE RideMoves(r)
  <2>0. ride[r] \in RideStatus
    BY DEF MoneyTypeOK
  <2>1. ASSUME NEW s \in Rides, StartTrip(s) \/ EndTrip(s) PROVE RideMoves(r)
    BY <2>0, <2>1 DEF StartTrip, EndTrip, RideMoves, Closable, MoneyTypeOK
  <2>2. ASSUME NEW t \in tasks, CloseEarly(t) PROVE RideMoves(r)
    <3>1. t.ride \in Rides
      BY TaskTyped DEF MoneyTypeOK
    <3>. QED  BY <2>0, <2>2, <3>1 DEF CloseEarly, RideMoves, Closable, MoneyTypeOK
  <2>3. ASSUME ride' = ride PROVE RideMoves(r)
    BY <2>0, <2>3 DEF RideMoves
  <2>4. \/ \E s \in Rides : StartTrip(s) \/ EndTrip(s)
        \/ \E t \in tasks : CloseEarly(t)
        \/ ride' = ride
    BY DEF PaymentNext, BeginEarlyEnd, StrandedSweep, BeginCollect, Poll, BeginRetry,
        FundWallet, RiderPays, Notify, Die, TaskStep, WriteFare, Quote, Record, Order, Debit, Confirm,
        Claim, Flag, ReopenPayment, Judge, FailPayment, Reset
  <2>. QED  BY <2>1, <2>2, <2>3, <2>4
<1>2. ASSUME NEW r \in Rides PROVE RedemptionMoves(r) /\ DiscountMoves(r)
  <2>1. ASSUME UNCHANGED <<redemption, discount>> PROVE RedemptionMoves(r) /\ DiscountMoves(r)
    BY <2>1 DEF RedemptionMoves, DiscountMoves
  <2>2. ASSUME NEW s \in Rides, redemption' \in {redemption, Consumed(s)} PROVE RedemptionMoves(r)
    BY <2>2 DEF RedemptionMoves, Consumed, MoneyTypeOK
  <2>3. ASSUME NEW t \in tasks, Quote(t) \/ Record(t) \/ Confirm(t) \/ Claim(t)
        PROVE  RedemptionMoves(r) /\ DiscountMoves(r)
    <3>1. t.ride \in Rides
      BY TaskTyped DEF MoneyTypeOK
    <3>2. redemption' \in {redemption, Consumed(t.ride)}
      BY <2>3 DEF Quote, Record, Confirm, Claim
    <3>3. discount' = discount \/ Finalise(t.ride)
      BY <2>3 DEF Quote, Record, Confirm, Claim
    <3>4. DiscountMoves(r)
      BY <3>1, <3>2, <3>3, FinaliseMoves DEF DiscountMoves
    <3>. QED  BY <2>2, <3>1, <3>2, <3>4
  <2>4. \/ UNCHANGED <<redemption, discount>>
        \/ \E t \in tasks : Quote(t) \/ Record(t) \/ Confirm(t) \/ Claim(t)
    BY DEF PaymentNext, StartTrip, EndTrip, BeginEarlyEnd, StrandedSweep, BeginCollect, Poll, BeginRetry,
        FundWallet, RiderPays, Notify, Die, TaskStep, WriteFare, CloseEarly, Order, Debit,
        Flag, ReopenPayment, Judge, FailPayment, Reset
  <2>. QED  BY <2>1, <2>3, <2>4
<1>. QED  BY <1>1, <1>2

\* What a release owes goes on to its next statement or has been given back.
LEMMA OwedMovesOn ==
    ASSUME MoneyTypeOK, BookStep, NEW t \in Owed PROVE OwedMoves(t)
<1>1. \A x \in Owed : x.ride \in Rides
  BY TaskTyped DEF Owed, Unreturned, MoneyTypeOK
<1>2. ASSUME NEW x \in Owed, Closes(x) PROVE OwedMoves(t)
  BY <1>1, <1>2 DEF Closes, OwedMoves, MoneyTypeOK
<1>3. ASSUME NEW x \in Owed, NEW v \in Task, GivesBudget(x, v) \/ GivesUse(x, v) PROVE OwedMoves(t)
  BY <1>3 DEF GivesBudget, GivesUse, OwedMoves
<1>4. ASSUME Owed \subseteq Owed' PROVE OwedMoves(t)
  BY <1>4 DEF OwedMoves
<1>. QED  BY <1>2, <1>3, <1>4 DEF BookStep, Still, Promises, Trues, Releases, Undoes

\* A request stays where it may be.
LEMMA StaysPlaced ==
    ASSUME MoneyTypeOK, NEW t \in tasks, TaskIsPlaced(t), RideMoves(t.ride), RedemptionMoves(t.ride)
    PROVE  TaskIsPlaced(t)'
<1>1. ride[t.ride] \in RideStatus
  BY TaskTyped DEF MoneyTypeOK
<1>2. ASSUME t.at \in Ending
      PROVE  ride'[t.ride] = "completed" \/ (t.op = "early" /\ ride'[t.ride] \in {"underway", "cancelled"})
  BY <1>2 DEF TaskIsPlaced, RideMoves
<1>3. ASSUME t.at \in Billing PROVE ride'[t.ride] = "completed"
  BY <1>3 DEF TaskIsPlaced, RideMoves
<1>4. ASSUME t.op = "release" PROVE ride'[t.ride] \in Closable
  BY <1>4 DEF TaskIsPlaced, RideMoves, Closable
<1>5. ASSUME t.at \in {"shrink", "apply"}
      PROVE  redemption'[t.ride] \in HoldsBudget \/ ride'[t.ride] = "cancelled"
  BY <1>2, <1>5 DEF TaskIsPlaced, RideMoves, RedemptionMoves, HoldsBudget, Closable, Ending
<1>. QED  BY <1>2, <1>3, <1>4, <1>5 DEF TaskIsPlaced

\* Where a request goes on to, it may be.
LEMMA OfferTaskPlaced ==
    ASSUME MoneyTypeOK, PlaceInv, OfferNext, NEW u \in tasks' \ tasks
    PROVE  TaskIsPlaced(u)'
<1>. USE DEF offerVars, tripVars, Returning, Ending, Billing, Closable
<1>1. ASSUME NEW r \in Rides, CloseNoDrivers(r) PROVE TaskIsPlaced(u)'
  <2>1. u = NewTask("release", "undo", r) /\ ride'[r] = "no_drivers"
    BY <1>1 DEF CloseNoDrivers, Start, MoneyTypeOK
  <2>. QED  BY <2>1 DEF NewTask, TaskIsPlaced
<1>2. ASSUME NEW t \in tasks PROVE TaskIsPlaced(t) /\ t \in Task /\ t.ride \in Rides /\ t.n \in Nat
                                   /\ held[t.ride] \in Nat /\ Rederived(t.ride) \in Nat
  BY TaskTyped, RederivedIsNat DEF PlaceInv, TasksArePlaced, MoneyTypeOK
<1>3. ASSUME NEW t \in tasks, UndoRedemption(t) \/ ReturnBudget(t) \/ ReturnUsage(t) \/ ZeroDiscount(t)
      PROVE  TaskIsPlaced(u)'
  <2>1. t.op = "release" /\ ride[t.ride] \in Closable /\ ride' = ride
    BY <1>2, <1>3 DEF UndoRedemption, ReturnBudget, ReturnUsage, ZeroDiscount, TaskIsPlaced
  <2>2. u.op = "release" /\ u.at \in Returning /\ u.ride = t.ride
    <3>1. CASE UndoRedemption(t)
      BY <1>2, <2>1, <3>1, TaskCarries, TaskEnds DEF UndoRedemption, Steps
    <3>2. CASE ReturnBudget(t)
      BY <2>1, <3>2, TaskCarries DEF ReturnBudget, Steps
    <3>3. CASE ReturnUsage(t)
      BY <2>1, <3>3, TaskGoes DEF ReturnUsage, Steps
    <3>4. CASE ZeroDiscount(t)
      BY <3>4, TaskEnds DEF ZeroDiscount
    <3>. QED  BY <1>3, <3>1, <3>2, <3>3, <3>4
  <2>. QED  BY <2>1, <2>2 DEF TaskIsPlaced
<1>4. ASSUME NEW t \in tasks, Derive(t) PROVE TaskIsPlaced(u)'
  <2>1. t.at = "derive" /\ ride' = ride /\ redemption' = redemption /\ t.op # "release"
    BY <1>2, <1>4 DEF Derive, TaskIsPlaced
  <2>2. CASE Rederived(t.ride) = discount[t.ride]
    <3>1. u.op = t.op /\ u.ride = t.ride /\ u.at = IF t.op = "early" THEN "close" ELSE "quote"
      BY <1>4, <2>2, TaskGoes DEF Derive, Steps
    <3>. QED  BY <1>2, <2>1, <3>1 DEF TaskIsPlaced
  <2>3. CASE Rederived(t.ride) # discount[t.ride]
    <3>1. u.op = t.op /\ u.ride = t.ride /\ u.at \in {"shrink", "apply"}
      BY <1>2, <1>4, <2>3, TaskCarries DEF Derive, Steps
    <3>2. redemption[t.ride] \in HoldsBudget
      BY <2>3 DEF Rederived
    <3>. QED  BY <1>2, <2>1, <3>1, <3>2 DEF TaskIsPlaced
  <2>. QED  BY <2>2, <2>3
<1>5. ASSUME NEW t \in tasks, Shrink(t) PROVE TaskIsPlaced(u)'
  <2>1. t.at = "shrink" /\ ride' = ride /\ redemption' = redemption /\ t.op # "release"
    BY <1>2, <1>5 DEF Shrink, TaskIsPlaced
  <2>2. u.op = t.op /\ u.ride = t.ride /\ u.at = "apply"
    BY <1>5, TaskGoes DEF Shrink, Steps
  <2>. QED  BY <1>2, <2>1, <2>2 DEF TaskIsPlaced
<1>6. ASSUME NEW t \in tasks, Apply(t) PROVE TaskIsPlaced(u)'
  <2>1. t.at = "apply" /\ ride' = ride /\ redemption' = redemption /\ t.op # "release"
    BY <1>2, <1>6 DEF Apply, TaskIsPlaced
  <2>2. u.op = t.op /\ u.ride = t.ride /\ u.at = IF t.op = "early" THEN "close" ELSE "quote"
    BY <1>6, TaskCarries DEF Apply, Steps
  <2>. QED  BY <1>2, <2>1, <2>2 DEF TaskIsPlaced
<1>7. CASE UNCHANGED tasks
  BY <1>7
<1>. QED
  BY <1>1, <1>3, <1>4, <1>5, <1>6, <1>7
  DEF OfferNext, BookPlain, BookWithOffer, CancelFree, CancelWithFee, Reopen, ListStale, ReleaseStale,
      PatchOffer

\* A request that the payments begin or move on is where its ride allows it.
LEMMA PaymentTaskPlaced ==
    ASSUME MoneyTypeOK, PlaceInv, PaymentNext, NEW u \in tasks' \ tasks
    PROVE  TaskIsPlaced(u)'
<1>. USE DEF tripVars, Paying, Returning, Ending, Billing
<1>1. ASSUME NEW t \in tasks PROVE TaskIsPlaced(t) /\ t.ride \in Rides
  BY TaskTyped DEF PlaceInv, TasksArePlaced, MoneyTypeOK
<1>2. CASE ~\E t \in tasks : TaskStep(t) \/ Die(t)
  <2>1. /\ u.at \in Paying /\ u.op # "release" /\ u.at \notin {"shrink", "apply"}
        /\ u.at \in Ending =>
              ride'[u.ride] = "completed" \/ (u.op = "early" /\ ride'[u.ride] = "underway")
        /\ u.at \in Billing => ride'[u.ride] = "completed"
    BY <1>2, PayingStarts
  <2>. QED  BY <2>1 DEF TaskIsPlaced
<1>3. ASSUME NEW t \in tasks, TaskStep(t) PROVE TaskIsPlaced(u)'
  <2>1. u.at \in Paying /\ u.ride = t.ride /\ u.op = t.op /\ t.at \in Paying /\ t.op # "release"
    BY <1>1, <1>3, PayingTaskMoves DEF TaskIsPlaced
  <2>2. ASSUME u.at \notin Ending \cup Billing PROVE TaskIsPlaced(u)'
    BY <2>1, <2>2 DEF TaskIsPlaced
  <2>3. CASE WriteFare(t)
    <3>1. ride' = ride /\ t.at = "fare"
      BY <2>3 DEF WriteFare
    <3>2. u.at = "derive" \/ (u.at = "quote" /\ t.op = "end")
      BY <2>3, TaskGoes DEF WriteFare, Steps
    <3>. QED  BY <1>1, <2>1, <3>1, <3>2 DEF TaskIsPlaced
  <2>4. CASE CloseEarly(t)
    <3>1. u.at = "quote" /\ ride'[t.ride] = "completed"
      BY <1>1, <2>4, TaskGoes, TaskEnds DEF CloseEarly, Steps, MoneyTypeOK
    <3>. QED  BY <2>1, <3>1 DEF TaskIsPlaced
  <2>5. CASE Quote(t)
    <3>1. ride' = ride /\ t.at = "quote"
      BY <2>5 DEF Quote
    <3>2. u.at \in {"record", "claim"}
      <4>1. discount' \in [Rides -> Nat]
        BY <1>1, <2>5, FinaliseTyped DEF Quote
      <4>2. Payable(Fare(t.ride), discount'[t.ride]) \in Nat
        BY <1>1, <4>1, FareIsNat, AmountsAreNat
      <4>. QED  BY <2>5, <4>2, TaskGoes, TaskCarries, TaskEnds DEF Quote, Steps
    <3>. QED  BY <1>1, <2>1, <3>1, <3>2 DEF TaskIsPlaced
  <2>6. CASE \/ Record(t) \/ Order(t) \/ Debit(t) \/ Confirm(t) \/ Claim(t) \/ Flag(t)
             \/ ReopenPayment(t) \/ Judge(t) \/ FailPayment(t) \/ Reset(t)
    <3>1. CASE Record(t)
      BY <2>2, <3>1, TaskGoes, TaskEnds DEF Record, Steps
    <3>2. CASE Order(t) \/ Debit(t) \/ Confirm(t) \/ Claim(t)
      BY <2>2, <3>2, TaskGoes, TaskEnds DEF Order, Debit, Confirm, Claim, Steps
    <3>3. CASE Flag(t) \/ ReopenPayment(t) \/ Judge(t) \/ FailPayment(t) \/ Reset(t)
      BY <2>2, <3>3, TaskGoes, TaskEnds DEF Flag, ReopenPayment, Judge, FailPayment, Reset, Steps
    <3>. QED  BY <2>6, <3>1, <3>2, <3>3
  <2>. QED  BY <1>3, <2>3, <2>4, <2>5, <2>6 DEF TaskStep
<1>4. ASSUME NEW t \in tasks, Die(t) PROVE TaskIsPlaced(u)'
  BY <1>4, DeathOwes
<1>. QED  BY <1>2, <1>3, <1>4

\* A release that a death cut short is over, and none other is.
LEMMA CutStaysOver ==
    ASSUME MoneyTypeOK, PlaceInv, LedgerInv, MoneyNext PROVE CutIsOver'
<1>. USE DEF offerVars, countVars
<1>1. /\ \A t \in cut : t.at \in Returning /\ t \notin tasks
      /\ \A t, v \in Owed : t.ride = v.ride => t = v
      /\ \A t \in Owed : redemption[t.ride] = "released"
  BY DEF PlaceInv, CutIsOver, LedgerInv, Books, OwedSoundly
<1>2. CASE cut' = cut /\ \A u \in tasks' \ tasks : u.at \notin Returning
  BY <1>1, <1>2 DEF CutIsOver
<1>3. ASSUME NEW t \in tasks, NEW u, cut' = cut, \A v \in tasks' \ tasks : v = u,
             t.at \in Returning, u.ride = t.ride, u.at # t.at
      PROVE  CutIsOver'
  BY <1>1, <1>3 DEF CutIsOver, Owed, Unreturned
<1>4. ASSUME NEW t \in tasks, UndoRedemption(t) PROVE CutIsOver'
  <2>1. cut' = cut /\ t.ride \in Rides /\ held[t.ride] \in Nat
    BY <1>4, TaskTyped DEF UndoRedemption, MoneyTypeOK
  <2>2. CASE redemption[t.ride] # "reserved"
    BY <1>1, <1>4, <2>1, <2>2 DEF UndoRedemption, Ends, CutIsOver
  <2>3. CASE redemption[t.ride] = "reserved"
    <3>1. \A u \in tasks' \ tasks : u.ride = t.ride
      BY <1>4, <2>1, <2>3, TaskCarries DEF UndoRedemption, Steps
    <3>2. \A v \in cut : v.ride # t.ride
      BY <1>1, <2>3 DEF Owed, Unreturned
    <3>. QED  BY <1>1, <2>1, <3>1, <3>2 DEF CutIsOver
  <2>. QED  BY <2>2, <2>3
<1>5. ASSUME NEW t \in tasks, ReturnBudget(t) PROVE CutIsOver'
  <2>. DEFINE v == [t EXCEPT !.at = "usage", !.n = 0, !.txn = NoTxn]
  <2>1. v.at = "usage" /\ v.ride = t.ride /\ t.at = "budget" /\ cut' = cut
    BY <1>5 DEF ReturnBudget, MoneyTypeOK, Task
  <2>2. \A u \in tasks' \ tasks : u = v
    BY <1>5 DEF ReturnBudget, Carries
  <2>. HIDE DEF v
  <2>. QED  BY <1>3, <2>1, <2>2 DEF Returning
<1>6. ASSUME NEW t \in tasks, ReturnUsage(t) PROVE CutIsOver'
  <2>. DEFINE v == [t EXCEPT !.at = "gross"]
  <2>1. v.at = "gross" /\ v.ride = t.ride /\ t.at = "usage" /\ cut' = cut
    BY <1>6 DEF ReturnUsage, MoneyTypeOK, Task
  <2>2. \A u \in tasks' \ tasks : u = v
    BY <1>6 DEF ReturnUsage, Goes
  <2>. HIDE DEF v
  <2>. QED  BY <1>3, <2>1, <2>2 DEF Returning
<1>7. ASSUME NEW t \in tasks, ZeroDiscount(t) PROVE CutIsOver'
  BY <1>2, <1>7 DEF ZeroDiscount, Ends
<1>8. ASSUME NEW t \in tasks, Derive(t) \/ Shrink(t) \/ Apply(t) PROVE CutIsOver'
  <2>1. cut' = cut /\ t.n \in Nat /\ Rederived(t.ride) \in Nat
    BY <1>8, TaskTyped, RederivedIsNat DEF Derive, Apply, Shrink, MoneyTypeOK
  <2>2. \A u \in tasks' \ tasks : u.at \notin Returning
    BY <1>8, <2>1, TaskGoes, TaskCarries DEF Derive, Apply, Shrink, Steps, Returning
  <2>. QED  BY <1>2, <2>1, <2>2
<1>9. ASSUME NEW r \in Rides, CloseNoDrivers(r) PROVE CutIsOver'
  <2>1. NewTask("release", "undo", r).at \notin Returning
    BY DEF NewTask, Returning
  <2>. QED  BY <1>2, <1>9, <2>1 DEF CloseNoDrivers, Start
<1>10. CASE UNCHANGED <<tasks, cut>>
  BY <1>2, <1>10
<1>11. CASE OfferNext
  BY <1>4, <1>5, <1>6, <1>7, <1>8, <1>9, <1>10, <1>11
  DEF OfferNext, BookPlain, BookWithOffer, CancelFree, CancelWithFee, Reopen, ListStale, ReleaseStale,
      PatchOffer
<1>12. ASSUME NEW t \in tasks, TaskStep(t) PROVE CutIsOver'
  BY <1>2, <1>12, PayingTaskMoves DEF Paying
<1>13. ASSUME NEW t \in tasks, Die(t) PROVE CutIsOver'
  BY <1>1, <1>13, DeathOwes DEF CutIsOver
<1>14. CASE PaymentNext
  <2>1. CASE ~\E t \in tasks : TaskStep(t) \/ Die(t)
    BY <1>2, <1>14, <2>1, PayingStarts DEF Paying
  <2>. QED  BY <1>12, <1>13, <2>1
<1>. QED  BY <1>11, <1>14 DEF MoneyNext

\* How any step moves rides, redemptions, discounts, requests and cut ones.
LEMMA EveryMove ==
    ASSUME MoneyTypeOK, PlaceInv, LedgerInv, [MoneyNext]_moneyVars
    PROVE  /\ \A r \in Rides : RideMoves(r) /\ RedemptionMoves(r) /\ DiscountMoves(r)
           /\ \A u \in tasks' \ tasks : TaskIsPlaced(u)'
           /\ CutIsOver'
<1>1. CASE UNCHANGED moneyVars
  <2>1. UNCHANGED <<ride, redemption, discount, tasks, cut>>
    BY <1>1 DEF moneyVars, tripVars, offerVars, countVars
  <2>2. \A r \in Rides : RideMoves(r)
    BY <2>1 DEF RideMoves, Closable, MoneyTypeOK, RideStatus
  <2>3. CutIsOver'
    BY <2>1 DEF PlaceInv, CutIsOver
  <2>. QED  BY <2>1, <2>2, <2>3 DEF RedemptionMoves, DiscountMoves
<1>2. CASE OfferNext
  BY <1>2, OfferRideMoves, OfferTaskPlaced, CutStaysOver DEF MoneyNext
<1>3. CASE PaymentNext
  BY <1>3, PaymentRideMoves, PaymentTaskPlaced, CutStaysOver DEF MoneyNext
<1>. QED  BY <1>1, <1>2, <1>3 DEF MoneyNext

\* No step lets the counter exceed the budget.
LEMMA BudgetStillHolds ==
    ASSUME MoneyTypeOK, BudgetHolds, BookStep PROVE BudgetHolds'
<1>1. offer.spent \in Nat /\ offer.budget \in Nat
  BY DEF MoneyTypeOK
<1>2. ASSUME NEW n \in Nat, offer'.spent = Less(offer.spent, n), offer'.budget = offer.budget
      PROVE  BudgetHolds'
  BY <1>1, <1>2 DEF BudgetHolds, Less
<1>3. CASE Still
  BY <1>1, <1>3, BudgetsAreNat DEF Still, BudgetHolds
<1>4. ASSUME NEW r \in Rides, Promises(r) PROVE BudgetHolds'
  BY <1>1, <1>4 DEF Promises, BudgetHolds, MoneyTypeOK
<1>5. ASSUME NEW r \in Rides, Trues(r) PROVE BudgetHolds'
  <2>1. CASE offer' = offer
    BY <2>1 DEF BudgetHolds
  <2>2. CASE offer' # offer
    <3>1. PICK n \in Nat : n < held[r] /\ offer' = [offer EXCEPT !.spent = Less(@, held[r] - n)]
      BY <1>5, <2>2 DEF Trues
    <3>2. held[r] - n \in Nat
      BY <3>1 DEF MoneyTypeOK
    <3>3. offer'.spent = Less(offer.spent, held[r] - n) /\ offer'.budget = offer.budget
      BY <3>1 DEF MoneyTypeOK
    <3>. QED  BY <1>2, <3>2, <3>3
  <2>. QED  BY <2>1, <2>2
<1>6. ASSUME NEW r \in Rides, Releases(r) PROVE BudgetHolds'
  <2>1. held[r] \in Nat /\ offer'.spent = Less(offer.spent, held[r]) /\ offer'.budget = offer.budget
    BY <1>6 DEF Releases, Release, MoneyTypeOK
  <2>. QED  BY <1>2, <2>1
<1>7. ASSUME NEW t \in Owed, NEW v \in Task, GivesBudget(t, v) PROVE BudgetHolds'
  <2>1. t.n \in Nat /\ offer'.spent = Less(offer.spent, t.n) /\ offer'.budget = offer.budget
    BY <1>7, TaskTyped DEF GivesBudget, MoneyTypeOK, Owed, Unreturned
  <2>. QED  BY <1>2, <2>1
<1>8. CASE offer' = offer
  BY <1>8 DEF BudgetHolds
<1>. QED
  BY <1>3, <1>4, <1>5, <1>6, <1>7, <1>8 DEF BookStep, Undoes, GivesUse, Closes, offerVars

\* A step keeps the places of requests, redemptions and discounts.
LEMMA PlaceInvStep ==
    ASSUME MoneyTypeOK, PlaceInv, LedgerInv, [MoneyNext]_moneyVars PROVE PlaceInv'
<1>1. \A r \in Rides : RideMoves(r) /\ RedemptionMoves(r) /\ DiscountMoves(r)
  BY EveryMove
<1>2. BookStep
  BY EveryBookStep
<1>3. TasksArePlaced'
  <2>1. ASSUME NEW t \in tasks PROVE TaskIsPlaced(t)'
    <3>1. t.ride \in Rides /\ TaskIsPlaced(t)
      BY TaskTyped DEF MoneyTypeOK, PlaceInv, TasksArePlaced
    <3>. QED  BY <1>1, <3>1, StaysPlaced
  <2>2. ASSUME NEW t \in tasks' PROVE TaskIsPlaced(t)'
    BY <2>1, EveryMove
  <2>. QED  BY <2>2 DEF TasksArePlaced
<1>4. ListedIsClosed'
  <2>1. listed' \subseteq listed \/ \E r \in Rides : ride'[r] \in Closable /\ listed' = listed \cup {r}
    <3>1. ASSUME NEW r \in Rides, ListStale(r)
          PROVE  ride'[r] \in Closable /\ listed' = listed \cup {r}
      BY <3>1 DEF ListStale, tripVars, ClosedUnserved, Closable
    <3>2. \/ listed' \subseteq listed \/ \E r \in Rides : ListStale(r)
      <4>1. CASE UNCHANGED moneyVars
        BY <4>1 DEF moneyVars
      <4>2. CASE OfferNext
        BY <4>2
        DEF OfferNext, BookPlain, BookWithOffer, CancelFree, CancelWithFee, CloseNoDrivers, Reopen,
            ReleaseStale, PatchOffer, UndoRedemption, ReturnBudget, ReturnUsage,
            ZeroDiscount, Derive, Shrink, Apply
      <4>3. CASE PaymentNext
        BY <4>3
        DEF PaymentNext, StartTrip, EndTrip, BeginEarlyEnd, StrandedSweep, BeginCollect, Poll, BeginRetry,
            FundWallet, RiderPays, Notify, Die, TaskStep, WriteFare, CloseEarly, Quote, Record, Order,
            Debit, Confirm, Claim, Flag, ReopenPayment, Judge, FailPayment, Reset, unchangedByPaying
      <4>. QED  BY <4>1, <4>2, <4>3 DEF MoneyNext
    <3>. QED  BY <3>1, <3>2
  <2>2. \A r \in listed : r \in Rides /\ ride[r] \in Closable
    BY DEF MoneyTypeOK, PlaceInv, ListedIsClosed
  <2>3. \A r \in listed : ride'[r] \in Closable
    BY <1>1, <2>2 DEF RideMoves
  <2>. QED  BY <2>1, <2>3 DEF ListedIsClosed
<1>5. UnbookedIsBare'
  BY <1>1 DEF PlaceInv, UnbookedIsBare, RideMoves, RedemptionMoves, Closable
<1>6. DiscountIsBacked'
  <2>. SUFFICES ASSUME NEW r \in Rides PROVE Backed(r)'
    BY DEF DiscountIsBacked
  <2>1. Backed(r) /\ RideMoves(r) /\ RedemptionMoves(r) /\ DiscountMoves(r)
    BY <1>1 DEF PlaceInv, DiscountIsBacked
  <2>2. ASSUME NEW t \in Owed, t.ride = r PROVE Backed(r)'
    BY <1>2, <2>2, OwedMovesOn DEF OwedMoves, Backed
  <2>3. ASSUME redemption[r] \in HoldsBudget PROVE Backed(r)'
    BY <2>1, <2>3 DEF RedemptionMoves, Backed, HoldsBudget
  <2>4. ASSUME ride[r] = "cancelled" PROVE Backed(r)'
    BY <2>1, <2>4 DEF RideMoves, Backed
  <2>5. ASSUME discount[r] = 0 PROVE Backed(r)'
    BY <2>1, <2>5 DEF DiscountMoves, Backed
  <2>. QED  BY <2>1, <2>2, <2>3, <2>4, <2>5 DEF Backed
<1>7. CutIsOver' /\ BudgetHolds'
  BY <1>2, EveryMove, BudgetStillHolds DEF PlaceInv
<1>. QED  BY <1>3, <1>4, <1>5, <1>6, <1>7 DEF PlaceInv

\* Before the first booking the books are empty.
LEMMA BooksInvInit == ASSUME MoneyInit PROVE PlaceInv /\ LedgerInv
<1>1. Owed = {} /\ tasks = {} /\ cut = {} /\ listed = {}
  BY DEF MoneyInit, Owed, Unreturned
<1>2. LiveOf(redemption) = {} /\ AtBudget({}) = {}
      /\ \A u : LiveFor(redemption, u) = {} /\ UsesOwed({}, u) = {}
  BY DEF MoneyInit, LiveOf, HoldsBudget, LiveFor, AtBudget, UsesOwed
<1>3. IsFiniteSet({}) /\ Cardinality({}) = 0
  BY FS_EmptySet
<1>4. \A f : Total(f, {}) = 0
  BY TotalEmpty
<1>5. OwedSoundly(redemption, {})
  BY <1>2, <1>3 DEF OwedSoundly
<1>6. OwedAmount({}) = 0
  BY <1>2, <1>4 DEF OwedAmount
<1>7. Books(offer, usage, redemption, held, {})
  <2>1. offer.spent = 0 /\ offer.count = 0 /\ \A u \in Users : usage[u] = 0
    BY DEF MoneyInit
  <2>2. Total(held, LiveOf(redemption)) = 0 /\ Cardinality(LiveOf(redemption)) = 0
        /\ Cardinality(AtBudget({})) = 0
    BY <1>2, <1>3, <1>4
  <2>3. \A u : Cardinality(LiveFor(redemption, u)) = 0 /\ Cardinality(UsesOwed({}, u)) = 0
    BY <1>2, <1>3
  <2>. QED  BY <1>5, <1>6, <2>1, <2>2, <2>3 DEF Books
<1>8. PlaceInv
  <2>1. BudgetHolds
    BY BudgetsAreNat DEF MoneyInit, BudgetHolds
  <2>2. DiscountIsBacked /\ UnbookedIsBare
    BY DEF MoneyInit, DiscountIsBacked, Backed, UnbookedIsBare
  <2>. QED  BY <1>1, <2>1, <2>2 DEF PlaceInv, TasksArePlaced, ListedIsClosed, CutIsOver
<1>. QED  BY <1>1, <1>7, <1>8 DEF LedgerInv

\* Types, places and books hold in every state.
LEMMA BooksInvAlways == MoneySafety => [](MoneyTypeOK /\ PlaceInv /\ LedgerInv)
<1>1. MoneyInit => PlaceInv /\ LedgerInv
  BY BooksInvInit
<1>2. MoneyTypeOK /\ PlaceInv /\ LedgerInv /\ [MoneyNext]_moneyVars => PlaceInv' /\ LedgerInv'
  BY PlaceInvStep, EveryBookStep, LedgerInvStep
<1>3. MoneySafety => []MoneyTypeOK
  BY MoneyTypeCorrect
<1>. QED  BY <1>1, <1>2, <1>3, PTL DEF MoneySafety

-----------------------------------------------------------------------------
(* What follows. *)

\* The offer's books balance, for any number of rides, riders, requests and deaths: budget_spent,
\* redemption_count and the riders' uses are those of the reserved and consumed redemptions,
\* plus what a release has taken and not yet given back.
THEOREM BooksAlwaysBalance == MoneySafety => []BooksBalance
<1>1. LedgerInv => BooksBalance
  <2>. SUFFICES ASSUME LedgerInv PROVE BooksBalance
    OBVIOUS
  <2>1. LiveOf(redemption) = Live /\ AtBudget(Owed) = Unreturned({"budget"})
        /\ \A u : /\ UsesOwed(Owed, u) = {t \in Unreturned({"budget", "usage"}) : UserOf[t.ride] = u}
                  /\ LiveFor(redemption, u) = {r \in Live : UserOf[r] = u}
    BY DEF LiveOf, Live, AtBudget, Owed, Unreturned, Returning, UsesOwed, LiveFor
  <2>. QED  BY <2>1 DEF LedgerInv, Books, OwedAmount, BooksBalance
<1>. QED  BY <1>1, BooksInvAlways, PTL

\* The discounts that stand never exceed the budget, whatever an admin makes of it meanwhile.
THEOREM DiscountsWithinBudget == MoneySafety => [](Total(held, Live) <= offer.budget)
<1>1. MoneyTypeOK /\ PlaceInv /\ LedgerInv => Total(held, Live) <= offer.budget
  <2>. SUFFICES ASSUME MoneyTypeOK, PlaceInv, LedgerInv PROVE Total(held, Live) <= offer.budget
    OBVIOUS
  <2>1. /\ Live = LiveOf(redemption) /\ offer.spent = Total(held, LiveOf(redemption)) + OwedAmount(Owed)
        /\ Total(held, LiveOf(redemption)) \in Nat /\ OwedAmount(Owed) \in Nat
    BY LedgerTyped, BooksCount DEF Live, LiveOf, LedgerInv, Books
  <2>2. offer.spent <= offer.budget /\ offer.budget \in Nat
    BY DEF PlaceInv, BudgetHolds, MoneyTypeOK
  <2>. QED  BY <2>1, <2>2
<1>. QED  BY <1>1, BooksInvAlways, PTL

\* A bill carries a discount that the ride's redemption holds when the bill is written,
\* whoever writes it: no reservation that was given back is still deducted.
THEOREM BilledDiscountBacked == MoneySafety => BilledDiscountIsBacked
<1>. DEFINE Step == \A r \in Rides :
        payment[r].st = "none" /\ payment'[r].st # "none" /\ (\A t \in cut : t.ride # r)
            => payment'[r].off <= (IF redemption'[r] \in HoldsBudget THEN held'[r] ELSE 0)
<1>1. MoneyTypeOK /\ MoneyTypeOK' /\ MoneyInv /\ PlaceInv /\ LedgerInv /\ [MoneyNext]_moneyVars
        => [Step]_moneyVars
  <2>. SUFFICES ASSUME MoneyTypeOK, MoneyTypeOK', MoneyInv, PlaceInv, LedgerInv, MoneyNext,
                       NEW r \in Rides, payment[r].st = "none", payment'[r].st # "none",
                       \A t \in cut : t.ride # r
                PROVE  payment'[r].off <= (IF redemption'[r] \in HoldsBudget THEN held'[r] ELSE 0)
    BY DEF Step
  <2>1. PICK t \in tasks : (Record(t) \/ Claim(t)) /\ t.ride = r
    <3>1. \A s \in Rides : payment[s] \in PaymentRow
      BY DEF MoneyTypeOK
    <3>2. \/ payment' = payment
          \/ \E t \in tasks : \/ Record(t) \/ Claim(t) \/ Order(t) \/ ReopenPayment(t)
                              \/ FailPayment(t) \/ Reset(t) \/ Confirm(t)
      <4>1. CASE OfferNext
        BY <4>1
        DEF OfferNext, BookPlain, BookWithOffer, CancelFree, CancelWithFee, CloseNoDrivers, Reopen,
            ListStale, ReleaseStale, PatchOffer, UndoRedemption, ReturnBudget, ReturnUsage,
            ZeroDiscount, Derive, Shrink, Apply, payVars
      <4>2. CASE PaymentNext
        BY <4>2
        DEF PaymentNext, StartTrip, EndTrip, BeginEarlyEnd, StrandedSweep, BeginCollect, Poll, BeginRetry,
            FundWallet, RiderPays, Notify, Die, TaskStep, WriteFare, CloseEarly, Quote,
            Debit, Flag, Judge, payVars
      <4>. QED  BY <4>1, <4>2 DEF MoneyNext
    <3>3. \A t \in tasks : t.ride \in Rides
      BY TaskTyped DEF MoneyTypeOK
    <3>4. ASSUME NEW t \in tasks, Order(t) \/ ReopenPayment(t) \/ FailPayment(t) \/ Reset(t) \/ Confirm(t)
          PROVE  payment'[r].st = "none"
      <4>1. CASE Order(t)
        <5>1. PICK k \in Txns : payment' = [payment EXCEPT ![t.ride].txn = k]
          BY <4>1 DEF Order
        <5>. QED  BY <3>1, <5>1 DEF MoneyTypeOK, PaymentRow
      <4>2. CASE ReopenPayment(t) \/ FailPayment(t)
        BY <3>1, <4>2 DEF ReopenPayment, FailPayment, MoneyTypeOK, PaymentRow
      <4>3. CASE Reset(t)
        BY <3>1, <4>3 DEF Reset, MoneyTypeOK, PaymentRow
      <4>4. CASE Confirm(t)
        BY <3>1, <4>4 DEF Confirm, Confirmable, MoneyTypeOK, PaymentRow
      <4>. QED  BY <3>4, <4>1, <4>2, <4>3, <4>4
    <3>5. ASSUME NEW t \in tasks, Record(t) \/ Claim(t) PROVE t.ride = r
      BY <3>3, <3>5 DEF Record, Claim, Recorded, MoneyTypeOK
    <3>. QED  BY <3>2, <3>4, <3>5
  <2>2. /\ Finalise(r) /\ redemption' \in {redemption, Consumed(r)} /\ payment'[r].off = discount'[r]
    BY <2>1 DEF Record, Claim, Recorded, MoneyTypeOK
  <2>3. discount'[r] = Rederived(r) /\ held[r] \in Nat /\ Rederived(r) \in Nat /\ held'[r] \in Nat
    BY <2>2, RederivedIsNat DEF Finalise, MoneyTypeOK
  <2>4. CASE redemption[r] \in HoldsBudget
    <3>1. redemption'[r] \in HoldsBudget
      BY <2>2, <2>4 DEF Consumed, HoldsBudget, MoneyTypeOK
    <3>2. DiscountOn(Fare(r)) \in Nat
      BY FareIsNat, DiscountIsNat
    <3>3. Rederived(r) <= held[r]
      BY <2>3, <2>4, <3>2 DEF Rederived, Least
    <3>4. held'[r] = held[r] \/ held'[r] = Rederived(r)
      BY <2>2 DEF Finalise, MoneyTypeOK
    <3>. QED  BY <2>2, <2>3, <3>1, <3>3, <3>4
  <2>5. CASE redemption[r] \notin HoldsBudget
    <3>1. redemption'[r] = redemption[r] /\ Rederived(r) = discount[r]
      BY <2>2, <2>5 DEF Consumed, HoldsBudget, MoneyTypeOK, Rederived
    <3>2. ride[r] = "completed"
      BY <2>1 DEF Record, Claim, PlaceInv, TasksArePlaced, TaskIsPlaced, Billing
    <3>3. ASSUME NEW u \in Owed, u.ride = r PROVE FALSE
      <4>1. u \in tasks /\ u.at \in Returning
        BY <3>3 DEF Owed, Unreturned
      <4>2. ride[r] \in Closable
        BY <3>3, <4>1 DEF PlaceInv, TasksArePlaced, TaskIsPlaced
      <4>. QED  BY <3>2, <4>2 DEF Closable
    <3>4. discount[r] = 0
      BY <2>5, <3>2, <3>3 DEF PlaceInv, DiscountIsBacked, Backed
    <3>. QED  BY <2>2, <2>3, <2>5, <3>1, <3>4
  <2>. QED  BY <2>4, <2>5
<1>. QED  BY <1>1, BooksInvAlways, MoneyInvAlways, PTL DEF MoneySafety, BilledDiscountIsBacked

-----------------------------------------------------------------------------
(* The offer implements OfferBudget. *)

GrantRow == [st : {"none", "promised", "given", "withdrawn"}, n : Nat]

GrantsOf(p, h) == [r \in Rides |->
    CASE p[r] = "none" -> [st |-> "none", n |-> 0]
      [] p[r] = "reserved" -> [st |-> "promised", n |-> h[r]]
      [] p[r] = "consumed" -> [st |-> "given", n |-> h[r]]
      [] p[r] = "released" -> [st |-> "withdrawn", n |-> 0]]

\* The grant of a redemption in each of its statuses.
LEMMA GrantsAre ==
    ASSUME NEW p \in [Rides -> RedemptionStatus], NEW h \in [Rides -> Nat]
    PROVE  /\ GrantsOf(p, h) \in [Rides -> GrantRow]
           /\ \A r \in Rides :
                /\ p[r] = "none" => GrantsOf(p, h)[r] = [st |-> "none", n |-> 0]
                /\ p[r] = "reserved" => GrantsOf(p, h)[r] = [st |-> "promised", n |-> h[r]]
                /\ p[r] = "consumed" => GrantsOf(p, h)[r] = [st |-> "given", n |-> h[r]]
                /\ p[r] = "released" => GrantsOf(p, h)[r] = [st |-> "withdrawn", n |-> 0]
<1>. DEFINE G(r) == GrantsOf(p, h)[r]
<1>1. ASSUME NEW r \in Rides
      PROVE  /\ G(r) \in GrantRow
             /\ p[r] = "none" => G(r) = [st |-> "none", n |-> 0]
             /\ p[r] = "reserved" => G(r) = [st |-> "promised", n |-> h[r]]
             /\ p[r] = "consumed" => G(r) = [st |-> "given", n |-> h[r]]
             /\ p[r] = "released" => G(r) = [st |-> "withdrawn", n |-> 0]
  <2>1. p[r] \in {"none", "reserved", "consumed", "released"} /\ h[r] \in Nat
    BY DEF RedemptionStatus
  <2>. QED  BY <2>1 DEF GrantRow, GrantsOf
<1>2. \A r \in Rides : GrantsOf(p, h)[r] \in GrantRow
  BY <1>1
<1>3. GrantsOf(p, h) \in [Rides -> GrantRow]
  BY <1>2 DEF GrantsOf
<1>. QED  BY <1>1, <1>3

\* OfferBudget sums as these books do.
LEMMA SameTotal == ASSUME NEW f, NEW S PROVE BudgetOfOffer!Total(f, S) = Total(f, S)
<1>1. BudgetOfOffer!Coins(f, S) = Coins(f, S)
  BY DEF BudgetOfOffer!Coins, Coins
<1>2. \A T : BudgetOfOffer!Cardinality(T) = Cardinality(T)
  BY DEF BudgetOfOffer!Cardinality, Cardinality
<1>. QED  BY <1>1, <1>2 DEF BudgetOfOffer!Total, Total

\* What OfferBudget calls granted is what the redemptions hold.
LEMMA GrantedIsHeld ==
    ASSUME MoneyTypeOK, LedgerInv
    PROVE  /\ BudgetOfOffer!Granted \in Nat /\ BudgetOfOffer!Granted <= offer.spent
           /\ offer.spent \in Nat /\ offer.budget \in Nat
<1>. DEFINE amounts == [r \in Rides |-> Grants[r].n]
<1>1. redemption \in [Rides -> RedemptionStatus] /\ held \in [Rides -> Nat]
      /\ Grants = GrantsOf(redemption, held)
  BY DEF MoneyTypeOK, Grants, GrantsOf
<1>2. ASSUME NEW r \in Rides
      PROVE  /\ Grants[r].st \in {"promised", "given"} <=> redemption[r] \in {"reserved", "consumed"}
             /\ redemption[r] \in {"reserved", "consumed"} => Grants[r].n = held[r]
  <2>1. redemption[r] \in {"none", "reserved", "consumed", "released"}
    BY <1>1 DEF RedemptionStatus
  <2>2. /\ redemption[r] = "none" => Grants[r].st = "none"
        /\ redemption[r] = "reserved" => Grants[r].st = "promised" /\ Grants[r].n = held[r]
        /\ redemption[r] = "consumed" => Grants[r].st = "given" /\ Grants[r].n = held[r]
        /\ redemption[r] = "released" => Grants[r].st = "withdrawn"
    <3>1. /\ redemption[r] = "none" => Grants[r] = [st |-> "none", n |-> 0]
          /\ redemption[r] = "reserved" => Grants[r] = [st |-> "promised", n |-> held[r]]
          /\ redemption[r] = "consumed" => Grants[r] = [st |-> "given", n |-> held[r]]
          /\ redemption[r] = "released" => Grants[r] = [st |-> "withdrawn", n |-> 0]
      BY <1>1, GrantsAre, Zenon
    <3>. QED  BY <3>1
  <2>. QED  BY <2>1, <2>2
<1>3. {r \in Rides : BudgetOfOffer!Stands(r)} = LiveOf(redemption)
  BY <1>2 DEF BudgetOfOffer!Stands, LiveOf, HoldsBudget
<1>4. \A r \in LiveOf(redemption) : amounts[r] = held[r]
  BY <1>2 DEF LiveOf, HoldsBudget
<1>5. BudgetOfOffer!Granted = Total(amounts, {r \in Rides : BudgetOfOffer!Stands(r)})
  BY SameTotal DEF BudgetOfOffer!Granted
<1>. HIDE DEF amounts
<1>6. BudgetOfOffer!Granted = Total(held, LiveOf(redemption))
  BY <1>3, <1>4, <1>5, TotalSame
<1>7. /\ offer.spent = Total(held, LiveOf(redemption)) + OwedAmount(Owed)
      /\ Total(held, LiveOf(redemption)) \in Nat /\ OwedAmount(Owed) \in Nat
  BY LedgerTyped, BooksCount DEF LedgerInv, Books
<1>. QED  BY <1>6, <1>7 DEF MoneyTypeOK

\* Every step promises, shrinks, gives or withdraws a grant, or sets the budget.
LEMMA BudgetStep ==
    ASSUME MoneyTypeOK, MoneyTypeOK', PlaceInv, LedgerInv, BookStep
    PROVE  [BudgetOfOffer!Next]_<<Grants, offer.budget>>
<1>1. Grants = GrantsOf(redemption, held) /\ Grants' = GrantsOf(redemption', held')
  BY DEF Grants, GrantsOf
<1>2. /\ Grants \in [Rides -> GrantRow] /\ Grants' \in [Rides -> GrantRow]
      /\ \A r \in Rides :
            /\ redemption[r] = "none" => Grants[r] = [st |-> "none", n |-> 0]
            /\ redemption[r] = "reserved" => Grants[r] = [st |-> "promised", n |-> held[r]]
            /\ redemption[r] = "consumed" => Grants[r] = [st |-> "given", n |-> held[r]]
            /\ redemption'[r] = "reserved" => Grants'[r] = [st |-> "promised", n |-> held'[r]]
            /\ redemption'[r] = "consumed" => Grants'[r] = [st |-> "given", n |-> held'[r]]
            /\ redemption'[r] = "released" => Grants'[r] = [st |-> "withdrawn", n |-> 0]
            /\ redemption'[r] = redemption[r] /\ held'[r] = held[r] => Grants'[r] = Grants[r]
  <2>1. redemption \in [Rides -> RedemptionStatus] /\ held \in [Rides -> Nat]
        /\ redemption' \in [Rides -> RedemptionStatus] /\ held' \in [Rides -> Nat]
    BY DEF MoneyTypeOK
  <2>2. \A r \in Rides : redemption'[r] = redemption[r] /\ held'[r] = held[r] => Grants'[r] = Grants[r]
    <3>. SUFFICES ASSUME NEW r \in Rides, redemption'[r] = redemption[r], held'[r] = held[r]
                  PROVE  Grants'[r] = Grants[r]
      OBVIOUS
    <3>1. redemption[r] \in {"none", "reserved", "consumed", "released"}
      BY <2>1 DEF RedemptionStatus
    <3>2. /\ redemption[r] = "none" =>
              Grants[r] = [st |-> "none", n |-> 0] /\ Grants'[r] = [st |-> "none", n |-> 0]
          /\ redemption[r] = "reserved" =>
              Grants[r] = [st |-> "promised", n |-> held[r]] /\ Grants'[r] = [st |-> "promised", n |-> held[r]]
          /\ redemption[r] = "consumed" =>
              Grants[r] = [st |-> "given", n |-> held[r]] /\ Grants'[r] = [st |-> "given", n |-> held[r]]
          /\ redemption[r] = "released" =>
              Grants[r] = [st |-> "withdrawn", n |-> 0] /\ Grants'[r] = [st |-> "withdrawn", n |-> 0]
      <4>1. /\ redemption[r] = "none" => Grants[r] = [st |-> "none", n |-> 0]
            /\ redemption[r] = "reserved" => Grants[r] = [st |-> "promised", n |-> held[r]]
            /\ redemption[r] = "consumed" => Grants[r] = [st |-> "given", n |-> held[r]]
            /\ redemption[r] = "released" => Grants[r] = [st |-> "withdrawn", n |-> 0]
        BY <1>1, <2>1, GrantsAre, Zenon
      <4>2. /\ redemption'[r] = "none" => Grants'[r] = [st |-> "none", n |-> 0]
            /\ redemption'[r] = "reserved" => Grants'[r] = [st |-> "promised", n |-> held'[r]]
            /\ redemption'[r] = "consumed" => Grants'[r] = [st |-> "given", n |-> held'[r]]
            /\ redemption'[r] = "released" => Grants'[r] = [st |-> "withdrawn", n |-> 0]
        BY <1>1, <2>1, GrantsAre, Zenon
      <4>. QED  BY <4>1, <4>2
    <3>. QED  BY <3>1, <3>2
  <2>. QED  BY <1>1, <2>1, <2>2, GrantsAre
<1>3. /\ BudgetOfOffer!Granted \in Nat /\ BudgetOfOffer!Granted <= offer.spent
      /\ offer.spent \in Nat /\ offer.budget \in Nat
  BY GrantedIsHeld
<1>4. ASSUME NEW r \in Rides, NEW g, Grants'[r] = g, \A s \in Rides \ {r} : Grants'[s] = Grants[s]
      PROVE  Grants' = [Grants EXCEPT ![r] = g]
  BY <1>2, <1>4
<1>5. ASSUME \A s \in Rides : Grants'[s] = Grants[s] PROVE Grants' = Grants
  BY <1>2, <1>5
<1>6. CASE Still
  <2>1. Grants' = Grants
    BY <1>1, <1>6 DEF Still
  <2>2. offer'.budget = offer.budget \/ (offer'.budget \in Budgets /\ offer'.budget >= BudgetOfOffer!Granted)
    <3>1. offer'.budget = offer.budget \/ (offer'.budget \in Budgets /\ offer'.budget >= offer.spent)
      BY <1>6 DEF Still
    <3>2. offer'.budget \in Nat
      BY DEF MoneyTypeOK
    <3>. QED  BY <1>3, <3>1, <3>2
  <2>. QED  BY <2>1, <2>2 DEF BudgetOfOffer!Next, BudgetOfOffer!Rebudget
<1>7. ASSUME NEW r \in Rides, Promises(r) PROVE BudgetOfOffer!Promise(r)
  <2>1. PICK n \in Nat :
            /\ offer.spent + n <= offer.budget
            /\ offer' = [offer EXCEPT !.spent = @ + n, !.count = @ + 1]
            /\ redemption' = [redemption EXCEPT ![r] = "reserved"]
            /\ held' = [held EXCEPT ![r] = n]
    BY <1>7 DEF Promises
  <2>2. redemption[r] = "none"
    BY <1>7 DEF Promises, PlaceInv, UnbookedIsBare
  <2>3. redemption'[r] = "reserved" /\ held'[r] = n
        /\ \A s \in Rides \ {r} : redemption'[s] = redemption[s] /\ held'[s] = held[s]
    BY <2>1 DEF MoneyTypeOK
  <2>4. Grants' = [Grants EXCEPT ![r] = [st |-> "promised", n |-> n]]
    BY <1>2, <1>4, <2>3
  <2>5. n \in 0..(offer.budget - BudgetOfOffer!Granted)
    BY <1>3, <2>1
  <2>6. offer'.budget = offer.budget /\ Grants[r] = BudgetOfOffer!None
    BY <1>2, <2>1, <2>2 DEF MoneyTypeOK, BudgetOfOffer!None
  <2>. QED  BY <2>4, <2>5, <2>6 DEF BudgetOfOffer!Promise
<1>8. ASSUME NEW r \in Rides, redemption[r] = "reserved", redemption'[r] = "released",
             \A s \in Rides \ {r} : redemption'[s] = redemption[s], held' = held,
             offer'.budget = offer.budget
      PROVE  BudgetOfOffer!Withdraw(r)
  <2>1. Grants' = [Grants EXCEPT ![r] = [st |-> "withdrawn", n |-> 0]]
    BY <1>2, <1>4, <1>8
  <2>2. Grants[r].st = "promised"
    BY <1>2, <1>8
  <2>. QED  BY <1>8, <2>1, <2>2 DEF BudgetOfOffer!Withdraw
<1>9. ASSUME NEW r \in Rides, Trues(r)
      PROVE  UNCHANGED <<Grants, offer.budget>> \/ BudgetOfOffer!Give(r) \/ BudgetOfOffer!Shrink(r)
  <2>1. /\ \A s \in Rides \ {r} : redemption'[s] = redemption[s] /\ held'[s] = held[s]
        /\ held'[r] \in Nat /\ held[r] \in Nat /\ offer'.budget = offer.budget
        /\ held'[r] = held[r] \/ (held'[r] < held[r] /\ redemption[r] \in HoldsBudget)
        /\ redemption'[r] = redemption[r] \/ (redemption[r] = "reserved" /\ redemption'[r] = "consumed")
    BY <1>9 DEF Trues, Consumed, MoneyTypeOK
  <2>2. \A s \in Rides \ {r} : Grants'[s] = Grants[s]
    BY <1>2, <2>1
  <2>3. CASE redemption'[r] # redemption[r]
    <3>1. Grants[r] = [st |-> "promised", n |-> held[r]] /\ Grants'[r] = [st |-> "given", n |-> held'[r]]
      BY <1>2, <2>1, <2>3
    <3>2. Grants' = [Grants EXCEPT ![r] = [st |-> "given", n |-> held'[r]]]
      BY <1>4, <2>2, <3>1
    <3>3. held'[r] \in 0..Grants[r].n
      BY <2>1, <3>1
    <3>4. Grants[r].st = "promised"
      BY <3>1
    <3>. QED  BY <2>1, <3>2, <3>3, <3>4 DEF BudgetOfOffer!Give
  <2>4. CASE redemption'[r] = redemption[r] /\ held'[r] # held[r]
    <3>1. PICK st \in {"promised", "given"} :
              Grants[r] = [st |-> st, n |-> held[r]] /\ Grants'[r] = [st |-> st, n |-> held'[r]]
      BY <1>2, <2>1, <2>4 DEF HoldsBudget
    <3>2. Grants' = [Grants EXCEPT ![r].n = held'[r]]
      <4>1. [Grants[r] EXCEPT !.n = held'[r]] = [st |-> st, n |-> held'[r]]
        BY <3>1
      <4>. QED  BY <1>4, <2>2, <3>1, <4>1
    <3>3. held'[r] \in 0..(Grants[r].n - 1)
      BY <2>1, <2>4, <3>1
    <3>4. BudgetOfOffer!Stands(r)
      BY <3>1 DEF BudgetOfOffer!Stands
    <3>. QED  BY <2>1, <3>2, <3>3, <3>4 DEF BudgetOfOffer!Shrink
  <2>5. CASE redemption'[r] = redemption[r] /\ held'[r] = held[r]
    BY <1>2, <1>5, <2>1, <2>2, <2>5
  <2>. QED  BY <2>3, <2>4, <2>5
<1>10. ASSUME NEW r \in Rides, Releases(r) PROVE BudgetOfOffer!Withdraw(r)
  BY <1>8, <1>10 DEF Releases, Release, MoneyTypeOK
<1>11. ASSUME NEW v \in Task, Undoes(v) PROVE v.ride \in Rides /\ BudgetOfOffer!Withdraw(v.ride)
  BY <1>8, <1>11, TaskTyped DEF Undoes, MoneyTypeOK
<1>12. CASE \/ \E t \in Owed, v \in Task : GivesBudget(t, v) \/ GivesUse(t, v)
            \/ \E t \in Owed : Closes(t)
  <2>1. redemption' = redemption /\ held' = held
    BY <1>12 DEF GivesBudget, GivesUse, Closes, offerVars
  <2>2. offer'.budget = offer.budget
    BY <1>12 DEF GivesBudget, GivesUse, Closes, offerVars, MoneyTypeOK
  <2>. QED  BY <1>1, <2>1, <2>2
<1>. QED
  BY <1>6, <1>7, <1>9, <1>10, <1>11, <1>12 DEF BookStep, BudgetOfOffer!Next

\* The offer implements OfferBudget, for any number of rides, requests, sweeps and deaths: a
\* ride is granted a discount at most once and within the budget that is there, a grant
\* shrinks and never grows, and one that a payment used up is never given back.
THEOREM OfferKeepsItsPromise == MoneySafety => OfferBudgetSpec
<1>1. MoneyInit => BudgetOfOffer!Init
  BY BudgetsAreNat DEF MoneyInit, Grants, BudgetOfOffer!Init, BudgetOfOffer!None
<1>2. MoneyTypeOK /\ MoneyTypeOK' /\ PlaceInv /\ LedgerInv /\ [MoneyNext]_moneyVars
        => [BudgetOfOffer!Next]_<<Grants, offer.budget>>
  BY EveryBookStep, BudgetStep
<1>. QED
  BY <1>1, <1>2, BooksInvAlways, PTL DEF MoneySafety, OfferBudgetSpec, BudgetOfOffer!Spec
=============================================================================
