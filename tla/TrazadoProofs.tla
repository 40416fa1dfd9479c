----------------------------- MODULE TrazadoProofs -----------------------------
(***************************************************************************)
(* Proofs about Trazado: the page keeps its types, a line sends what its     *)
(* list shows, and the lock keeps the three ways of locating apart until it  *)
(* is freed in use. First what the operations on sequences do (indexOf,      *)
(* RemoveAt, InsertAt), then what they do to the correspondence of an array  *)
(* with the list (Refleja), then each operation on one SPATIAL, the reading  *)
(* of a file by induction on its placemarks, and the actions of the page.    *)
(***************************************************************************)
EXTENDS Trazado, SequenceTheorems, WellFoundedInduction, TLAPS

-------------------------------------------------------------------------------
(* Induction on sets of numbers.                                           *)

LEMMA MenorBienFundado == IsWellFoundedOn({ss \in Nat \X Nat : ss[1] < ss[2]}, Nat)
  BY NatLessThanWellFounded DEF OpToRel

(* A set of naturals has a least one.                                       *)
LEMMA Minimo ==
  ASSUME NEW T, T \subseteq Nat, T # {}
  PROVE  \E x \in T : \A y \in T : x <= y
<1> DEFINE R == {ss \in Nat \X Nat : ss[1] < ss[2]}
<1>1. IsWellFoundedOn(R, Nat)
  BY MenorBienFundado
<1>2. \A x, y \in Nat : y < x => <<y, x>> \in R
  OBVIOUS
<1> HIDE DEF R
<1>3. PICK x \in T : \A y \in T : ~(<<y, x>> \in R)
  BY <1>1, WFMin
<1>4. ASSUME NEW y \in T PROVE x <= y
  <2>1. x \in Nat /\ y \in Nat
    OBVIOUS
  <2>2. ~(y < x)
    BY <1>2, <1>3, <2>1
  <2> QED BY <2>1, <2>2
<1> QED BY <1>4

LEMMA Induccion ==
  ASSUME NEW T, 0 \in T, \A n \in Nat : n \in T => n + 1 \in T
  PROVE  Nat \subseteq T
<1> SUFFICES ASSUME Nat \ T # {} PROVE FALSE
  OBVIOUS
<1>1. PICK x \in Nat \ T : \A y \in Nat \ T : x <= y
  BY Minimo
<1> QED BY <1>1, x - 1 \in Nat

(* What indexOf returns: 0 where there is none, else an index of it.         *)
LEMMA Busca ==
  ASSUME NEW S, NEW a \in Seq(S), NEW e
  PROVE  \/ indexOf(a, e) = 0 /\ \A j \in DOMAIN a : a[j] # e
         \/ indexOf(a, e) \in 1..Len(a) /\ a[indexOf(a, e)] = e
<1> DEFINE I == {i \in 1..Len(a) : a[i] = e}
<1>0. indexOf(a, e) = IF I # {} THEN Min(I) ELSE 0
  BY DEF indexOf, SelectInSeq
<1>1. CASE I = {}
  BY <1>0, <1>1
<1>2. CASE I # {}
  <2>1. PICK x \in I : \A y \in I : x <= y
    <3>1. I \subseteq Nat
      OBVIOUS
    <3> HIDE DEF I
    <3> QED BY <1>2, <3>1, Minimo
  <2>2. Min(I) \in I
    BY <2>1 DEF Min
  <2> QED BY <1>0, <1>2, <2>2
<1> QED BY <1>1, <1>2

-------------------------------------------------------------------------------
(* Taking an entry out of a sequence, and putting one in.                   *)

LEMMA Quita ==
  ASSUME NEW S, NEW a \in Seq(S), NEW i \in 1..Len(a)
  PROVE  /\ RemoveAt(a, i) \in Seq(S)
         /\ Len(RemoveAt(a, i)) = Len(a) - 1
         /\ \A j \in 1..Len(a) - 1 : RemoveAt(a, i)[j] = IF j < i THEN a[j] ELSE a[j + 1]
<1> DEFINE u == SubSeq(a, 1, i - 1)
           v == SubSeq(a, i + 1, Len(a))
<1>1. u \in Seq(S) /\ Len(u) = i - 1 /\ \A j \in 1..i - 1 : u[j] = a[j]
  OBVIOUS
<1>2. v \in Seq(S) /\ Len(v) = Len(a) - i /\ \A j \in 1..Len(a) - i : v[j] = a[j + i]
  OBVIOUS
<1>3. RemoveAt(a, i) = u \o v
  BY DEF RemoveAt
<1> HIDE DEF u, v
<1>4. /\ u \o v \in Seq(S) /\ Len(u \o v) = Len(u) + Len(v)
      /\ \A j \in 1..Len(u) + Len(v) : (u \o v)[j] = IF j <= Len(u) THEN u[j] ELSE v[j - Len(u)]
  BY <1>1, <1>2, ConcatProperties
<1>5. Len(u) + Len(v) = Len(a) - 1
  BY <1>1, <1>2
<1>6. ASSUME NEW j \in 1..Len(a) - 1
      PROVE  RemoveAt(a, i)[j] = IF j < i THEN a[j] ELSE a[j + 1]
  <2>1. CASE j < i
    BY <1>1, <1>3, <1>4, <1>5, <2>1
  <2>2. CASE ~(j < i)
    <3>1. RemoveAt(a, i)[j] = v[j - (i - 1)]
      BY <1>1, <1>3, <1>4, <1>5, <2>2
    <3>2. j - (i - 1) \in 1..Len(a) - i /\ (j - (i - 1)) + i = j + 1
      BY <2>2
    <3> QED BY <1>2, <2>2, <3>1, <3>2
  <2> QED BY <2>1, <2>2
<1> QED BY <1>3, <1>4, <1>5, <1>6

LEMMA Inserta ==
  ASSUME NEW S, NEW a \in Seq(S), NEW i \in 1..Len(a) + 1, NEW e \in S
  PROVE  /\ InsertAt(a, i, e) \in Seq(S)
         /\ Len(InsertAt(a, i, e)) = Len(a) + 1
         /\ \A j \in 1..Len(a) + 1 : InsertAt(a, i, e)[j] =
               IF j < i THEN a[j] ELSE IF j = i THEN e ELSE a[j - 1]
<1> DEFINE u == SubSeq(a, 1, i - 1)
           v == SubSeq(a, i, Len(a))
           w == u \o <<e>>
<1>1. u \in Seq(S) /\ Len(u) = i - 1 /\ \A j \in 1..i - 1 : u[j] = a[j]
  OBVIOUS
<1>2. v \in Seq(S) /\ Len(v) = Len(a) - i + 1 /\ \A j \in 1..Len(a) - i + 1 : v[j] = a[j + i - 1]
  OBVIOUS
<1>3. InsertAt(a, i, e) = w \o v
  BY DEF InsertAt
<1> HIDE DEF u, v
<1>4. w \in Seq(S) /\ Len(w) = i /\ w[i] = e /\ \A j \in 1..i - 1 : w[j] = a[j]
  BY <1>1
<1> HIDE DEF w
<1>5. /\ w \o v \in Seq(S) /\ Len(w \o v) = Len(w) + Len(v)
      /\ \A j \in 1..Len(w) + Len(v) : (w \o v)[j] = IF j <= Len(w) THEN w[j] ELSE v[j - Len(w)]
  BY <1>2, <1>4, ConcatProperties
<1>6. Len(w) + Len(v) = Len(a) + 1
  BY <1>2, <1>4
<1>7. ASSUME NEW j \in 1..Len(a) + 1
      PROVE  InsertAt(a, i, e)[j] = IF j < i THEN a[j] ELSE IF j = i THEN e ELSE a[j - 1]
  <2>1. CASE j <= i
    BY <1>3, <1>4, <1>5, <1>6, <2>1
  <2>2. CASE ~(j <= i)
    <3>1. InsertAt(a, i, e)[j] = v[j - i]
      BY <1>3, <1>4, <1>5, <1>6, <2>2
    <3>2. j - i \in 1..Len(a) - i + 1 /\ (j - i) + i - 1 = j - 1
      BY <2>2
    <3> QED BY <1>2, <2>2, <3>1, <3>2
  <2> QED BY <2>1, <2>2
<1> QED BY <1>3, <1>5, <1>6, <1>7

LEMMA Delante ==
  ASSUME NEW S, NEW a \in Seq(S), a # <<>>
  PROVE  Front(a) = RemoveAt(a, Len(a)) /\ Len(a) \in 1..Len(a)
<1>1. Len(a) \in 1..Len(a)
  OBVIOUS
<1>2. Front(a) \in Seq(S) /\ Len(Front(a)) = Len(a) - 1 /\ \A j \in 1..Len(a) - 1 : Front(a)[j] = a[j]
  <2>1. Front(a) = SubSeq(a, 1, Len(a) - 1)
    BY DEF Front
  <2>2. \A i \in 1..Len(a) : LET u == SubSeq(a, 1, i - 1) IN
          u \in Seq(S) /\ Len(u) = i - 1 /\ \A j \in 1..i - 1 : u[j] = a[j]
    OBVIOUS
  <2> QED BY <1>1, <2>1, <2>2
<1>3. /\ RemoveAt(a, Len(a)) \in Seq(S) /\ Len(RemoveAt(a, Len(a))) = Len(a) - 1
      /\ \A j \in 1..Len(a) - 1 : RemoveAt(a, Len(a))[j] = a[j]
  BY <1>1, Quita
<1> QED BY <1>1, <1>2, <1>3, SeqEqual

(* Nothing is in what is left that was not there before.                    *)
LEMMA SacaDentro ==
  ASSUME NEW a \in Seq(Entrada), NEW f
  PROVE  /\ Saca(a, f) \in Seq(Entrada)
         /\ \A j \in DOMAIN Saca(a, f) : \E k \in DOMAIN a : Saca(a, f)[j] = a[k]
         /\ a # <<>> => Donde(a, f) \in DOMAIN a /\ Saca(a, f) = RemoveAt(a, Donde(a, f))
<1>1. CASE a = <<>>
  BY <1>1 DEF Saca
<1>2. CASE a # <<>>
  <2>1. Donde(a, f) \in 1..Len(a)
    <3>1. indexOf(a, Suelta(f)) = 0 \/ indexOf(a, Suelta(f)) \in 1..Len(a)
      BY Busca
    <3>2. Len(a) \in 1..Len(a)
      BY <1>2
    <3> QED BY <3>1, <3>2 DEF Donde
  <2>2. Saca(a, f) = RemoveAt(a, Donde(a, f))
    BY <1>2 DEF Saca
  <2>3. ASSUME NEW j \in DOMAIN Saca(a, f)
        PROVE  \E k \in DOMAIN a : Saca(a, f)[j] = a[k]
    <3> DEFINE b == RemoveAt(a, Donde(a, f))
    <3>1. /\ b \in Seq(Entrada) /\ Len(b) = Len(a) - 1
          /\ \A m \in 1..Len(a) - 1 : b[m] = IF m < Donde(a, f) THEN a[m] ELSE a[m + 1]
      BY <2>1, Quita
    <3>2. b = Saca(a, f)
      BY <2>2
    <3> HIDE DEF b
    <3>3. j \in 1..Len(a) - 1
      BY <2>3, <3>1, <3>2
    <3>4. j \in DOMAIN a /\ j + 1 \in DOMAIN a
      BY <3>3
    <3> QED BY <3>1, <3>2, <3>3, <3>4
  <2>4. Saca(a, f) \in Seq(Entrada)
    BY <2>1, <2>2, Quita
  <2> QED BY <2>1, <2>2, <2>3, <2>4
<1> QED BY <1>1, <1>2

(* Every entry of c is one of a, or of a figure that comes from D.           *)
HeredaDe(c, a, D) == \A k \in DOMAIN c : (\E j \in DOMAIN a : c[k] = a[j]) \/ c[k].ele.de \in D

LEMMA HeredaSi == ASSUME NEW a, NEW D PROVE HeredaDe(a, a, D)
  BY DEF HeredaDe

LEMMA HeredaMas ==
  ASSUME NEW a \in Seq(Entrada), NEW e \in Entrada, NEW D, e.ele.de \in D
  PROVE  HeredaDe(Append(a, e), a, D)
<1>1. /\ Len(Append(a, e)) = Len(a) + 1 /\ Append(a, e)[Len(a) + 1] = e
      /\ \A j \in 1..Len(a) : Append(a, e)[j] = a[j]
  BY AppendProperties
<1>2. ASSUME NEW k \in DOMAIN Append(a, e)
      PROVE  (\E j \in DOMAIN a : Append(a, e)[k] = a[j]) \/ Append(a, e)[k].ele.de \in D
  <2>1. k \in 1..Len(a) \/ k = Len(a) + 1
    BY <1>1
  <2>2. CASE k \in 1..Len(a)
    <3>1. k \in DOMAIN a /\ Append(a, e)[k] = a[k]
      BY <1>1, <2>2
    <3> QED BY <3>1
  <2>3. CASE k = Len(a) + 1
    BY <1>1, <2>3
  <2> QED BY <2>1, <2>2, <2>3
<1> QED BY <1>2 DEF HeredaDe

LEMMA HeredaMenos ==
  ASSUME NEW a \in Seq(Entrada), NEW D, NEW f
  PROVE  HeredaDe(Saca(a, f), a, D) /\ HeredaDe(Front(a), a, D)
<1>1. HeredaDe(Saca(a, f), a, D)
  BY SacaDentro DEF HeredaDe
<1>2. HeredaDe(Front(a), a, D)
  <2>1. CASE a = <<>>
    BY <2>1 DEF Front, HeredaDe
  <2>2. CASE a # <<>>
    <3>1. Front(a) = RemoveAt(a, Len(a)) /\ Len(a) \in 1..Len(a)
      BY <2>2, Delante
    <3>2. /\ RemoveAt(a, Len(a)) \in Seq(Entrada) /\ Len(RemoveAt(a, Len(a))) = Len(a) - 1
          /\ \A m \in 1..Len(a) - 1 : RemoveAt(a, Len(a))[m] = IF m < Len(a) THEN a[m] ELSE a[m + 1]
      BY <3>1, Quita
    <3> DEFINE b == RemoveAt(a, Len(a))
    <3> HIDE DEF b
    <3>3. ASSUME NEW k \in DOMAIN b PROVE \E j \in DOMAIN a : b[k] = a[j]
      <4>1. k \in 1..Len(a) - 1
        BY <3>2, <3>3 DEF b
      <4>2. b[k] = a[k] /\ k \in DOMAIN a
        BY <3>2, <4>1 DEF b
      <4> QED BY <4>2
    <3> QED BY <3>1, <3>3 DEF HeredaDe, b
  <2> QED BY <2>1, <2>2
<1> QED BY <1>1, <1>2

-------------------------------------------------------------------------------
(* The list and the array.                                                 *)

LEMMA ReflejaNada == ASSUME NEW t PROVE Refleja(<<>>, <<>>, t)
<1>1. [k \in DOMAIN <<>> |-> 1] \in [DOMAIN <<>> -> DOMAIN <<>>]
  OBVIOUS
<1>2. DOMAIN <<>> = {}
  OBVIOUS
<1> QED BY <1>1, <1>2 DEF Refleja

LEMMA ReflejaMas ==
  ASSUME NEW t, NEW a \in Seq(Entrada), NEW h \in Seq(Figura), NEW f \in Figura, NEW e \in Entrada,
         e.ele = f, f.tipo = t, Refleja(a, h, t)
  PROVE  Refleja(Append(a, e), Append(h, f), t)
<1> DEFINE b == Append(a, e)
           g == Append(h, f)
<1>1. PICK pos \in [DOMAIN a -> DOMAIN h] :
        /\ \A j, k \in DOMAIN a : j < k => pos[j] < pos[k]
        /\ \A k \in DOMAIN a : a[k].ele = h[pos[k]] /\ h[pos[k]].tipo = t
        /\ \A i \in DOMAIN h : h[i].tipo = t => \E k \in DOMAIN a : pos[k] = i
  BY DEF Refleja
<1>2. /\ DOMAIN b = 1..Len(a) + 1 /\ DOMAIN a = 1..Len(a) /\ Len(a) \in Nat
      /\ b[Len(a) + 1] = e /\ \A j \in 1..Len(a) : b[j] = a[j]
  OBVIOUS
<1>3. /\ DOMAIN g = 1..Len(h) + 1 /\ DOMAIN h = 1..Len(h) /\ Len(h) \in Nat
      /\ g[Len(h) + 1] = f /\ \A j \in 1..Len(h) : g[j] = h[j]
  OBVIOUS
<1> HIDE DEF b, g
<1> DEFINE q == [k \in DOMAIN b |-> IF k = Len(a) + 1 THEN Len(h) + 1 ELSE pos[k]]
<1>4. q \in [DOMAIN b -> DOMAIN g]
  BY <1>2, <1>3
<1>5. ASSUME NEW j \in DOMAIN b, NEW k \in DOMAIN b, j < k PROVE q[j] < q[k]
  BY <1>1, <1>2, <1>3, <1>5
<1>6. ASSUME NEW k \in DOMAIN b PROVE b[k].ele = g[q[k]] /\ g[q[k]].tipo = t
  BY <1>1, <1>2, <1>3
<1>7. ASSUME NEW i \in DOMAIN g, g[i].tipo = t PROVE \E k \in DOMAIN b : q[k] = i
  <2>1. CASE i = Len(h) + 1
    BY <1>2, <2>1
  <2>2. CASE i \in DOMAIN h
    <3>1. PICK k \in DOMAIN a : pos[k] = i
      BY <1>1, <1>3, <1>7, <2>2
    <3>2. k \in DOMAIN b /\ q[k] = i
      BY <1>2, <3>1
    <3> QED BY <3>2
  <2> QED BY <1>3, <2>1, <2>2
<1> HIDE DEF q
<1>8. Refleja(b, g, t)
  BY <1>4, <1>5, <1>6, <1>7 DEF Refleja
<1> QED BY <1>8 DEF b, g

LEMMA ReflejaOtro ==
  ASSUME NEW t, NEW a \in Seq(Entrada), NEW h \in Seq(Figura), NEW f \in Figura,
         f.tipo # t, Refleja(a, h, t)
  PROVE  Refleja(a, Append(h, f), t)
<1> DEFINE g == Append(h, f)
<1>1. PICK pos \in [DOMAIN a -> DOMAIN h] :
        /\ \A j, k \in DOMAIN a : j < k => pos[j] < pos[k]
        /\ \A k \in DOMAIN a : a[k].ele = h[pos[k]] /\ h[pos[k]].tipo = t
        /\ \A i \in DOMAIN h : h[i].tipo = t => \E k \in DOMAIN a : pos[k] = i
  BY DEF Refleja
<1>2. /\ DOMAIN g = 1..Len(h) + 1 /\ DOMAIN h = 1..Len(h) /\ Len(h) \in Nat
      /\ g[Len(h) + 1] = f /\ \A j \in 1..Len(h) : g[j] = h[j]
  OBVIOUS
<1> HIDE DEF g
<1>3. pos \in [DOMAIN a -> DOMAIN g]
  BY <1>2
<1>4. \A k \in DOMAIN a : a[k].ele = g[pos[k]] /\ g[pos[k]].tipo = t
  BY <1>1, <1>2
<1>5. ASSUME NEW i \in DOMAIN g, g[i].tipo = t PROVE \E k \in DOMAIN a : pos[k] = i
  <2>1. i \in DOMAIN h
    BY <1>2, <1>5
  <2> QED BY <1>1, <1>2, <1>5, <2>1
<1>6. Refleja(a, g, t)
  BY <1>1, <1>3, <1>4, <1>5 DEF Refleja
<1> QED BY <1>6 DEF g

LEMMA QuitaEntrada ==
  ASSUME NEW a \in Seq(Entrada), NEW i \in 1..Len(a)
  PROVE  /\ RemoveAt(a, i) \in Seq(Entrada)
         /\ Len(RemoveAt(a, i)) = Len(a) - 1
         /\ \A j \in 1..Len(a) - 1 : RemoveAt(a, i)[j] = IF j < i THEN a[j] ELSE a[j + 1]
  BY Quita

(* Entry d of the array and p of the list are the same figure: both go.      *)
LEMMA ReflejaQuita ==
  ASSUME NEW t, NEW a \in Seq(Entrada), NEW h \in Seq(Figura), NEW p \in 1..Len(h), NEW d \in 1..Len(a),
         \A i, j \in DOMAIN h : h[i] = h[j] => i = j,
         a[d].ele = h[p], Refleja(a, h, t)
  PROVE  Refleja(RemoveAt(a, d), RemoveAt(h, p), t)
<1> DEFINE b == RemoveAt(a, d)
           g == RemoveAt(h, p)
<1>1. PICK pos \in [DOMAIN a -> DOMAIN h] :
        /\ \A j, k \in DOMAIN a : j < k => pos[j] < pos[k]
        /\ \A k \in DOMAIN a : a[k].ele = h[pos[k]] /\ h[pos[k]].tipo = t
        /\ \A i \in DOMAIN h : h[i].tipo = t => \E k \in DOMAIN a : pos[k] = i
  BY DEF Refleja
<1>2. /\ DOMAIN b = 1..Len(a) - 1 /\ DOMAIN a = 1..Len(a) /\ Len(a) \in Nat
      /\ \A j \in 1..Len(a) - 1 : b[j] = IF j < d THEN a[j] ELSE a[j + 1]
  <2>1. /\ b \in Seq(Entrada) /\ Len(b) = Len(a) - 1
        /\ \A j \in 1..Len(a) - 1 : b[j] = IF j < d THEN a[j] ELSE a[j + 1]
    <3>1. /\ RemoveAt(a, d) \in Seq(Entrada) /\ Len(RemoveAt(a, d)) = Len(a) - 1
          /\ \A j \in 1..Len(a) - 1 : RemoveAt(a, d)[j] = IF j < d THEN a[j] ELSE a[j + 1]
      BY QuitaEntrada
    <3> QED BY <3>1
  <2> HIDE DEF b
  <2>2. DOMAIN b = 1..Len(b) /\ DOMAIN a = 1..Len(a) /\ Len(a) \in Nat
    BY <2>1
  <2> QED BY <2>1, <2>2
<1>3. /\ DOMAIN g = 1..Len(h) - 1 /\ DOMAIN h = 1..Len(h) /\ Len(h) \in Nat
      /\ \A j \in 1..Len(h) - 1 : g[j] = IF j < p THEN h[j] ELSE h[j + 1]
  <2>1. /\ g \in Seq(Figura) /\ Len(g) = Len(h) - 1
        /\ \A j \in 1..Len(h) - 1 : g[j] = IF j < p THEN h[j] ELSE h[j + 1]
    BY Quita
  <2> HIDE DEF g
  <2>2. DOMAIN g = 1..Len(g) /\ DOMAIN h = 1..Len(h) /\ Len(h) \in Nat
    BY <2>1
  <2> QED BY <2>1, <2>2
<1>4. pos[d] = p
  <2>1. d \in DOMAIN a /\ p \in DOMAIN h /\ pos[d] \in DOMAIN h
    BY <1>1, <1>2, <1>3
  <2>2. h[pos[d]] = h[p]
    BY <1>1, <2>1
  <2> QED BY <2>1, <2>2
<1> HIDE DEF b, g
<1>5. \A k \in 1..Len(a) : /\ pos[k] \in 1..Len(h)
                           /\ k < d => pos[k] < p
                           /\ k > d => pos[k] > p
  BY <1>1, <1>2, <1>3, <1>4
<1>11. d \in 1..Len(a) /\ p \in 1..Len(h) /\ Len(a) \in Nat /\ Len(h) \in Nat
  BY <1>2, <1>3
<1> DEFINE q == [k \in DOMAIN b |-> IF k < d THEN pos[k] ELSE pos[k + 1] - 1]
<1>12. \A k \in 1..Len(a) - 1 : /\ k < d => q[k] = pos[k] /\ pos[k] \in 1..Len(h) - 1 /\ pos[k] < p
                                /\ ~(k < d) => /\ q[k] = pos[k + 1] - 1 /\ pos[k + 1] > p
                                               /\ pos[k + 1] \in 1..Len(h)
  <2>1. ASSUME NEW k \in 1..Len(a) - 1, k < d
        PROVE  q[k] = pos[k] /\ pos[k] \in 1..Len(h) - 1 /\ pos[k] < p
    <3>1. k \in 1..Len(a) /\ k \in DOMAIN b
      BY <1>2, <1>11
    <3>2. pos[k] \in 1..Len(h) /\ pos[k] < p
      BY <1>5, <2>1, <3>1
    <3> QED BY <1>11, <2>1, <3>1, <3>2
  <2>2. ASSUME NEW k \in 1..Len(a) - 1, ~(k < d)
        PROVE  q[k] = pos[k + 1] - 1 /\ pos[k + 1] > p /\ pos[k + 1] \in 1..Len(h)
    <3>1. k + 1 \in 1..Len(a) /\ k \in DOMAIN b /\ k + 1 > d
      BY <1>2, <1>11, <2>2
    <3>2. pos[k + 1] \in 1..Len(h) /\ pos[k + 1] > p
      BY <1>5, <3>1
    <3> QED BY <2>2, <3>1, <3>2
  <2> QED BY <2>1, <2>2
<1>6. q \in [DOMAIN b -> DOMAIN g]
  <2>1. ASSUME NEW k \in DOMAIN b PROVE q[k] \in DOMAIN g
    <3>0. k \in 1..Len(a) - 1
      BY <1>2
    <3>1. CASE k < d
      <4>1. q[k] \in 1..Len(h) - 1
        BY <1>12, <3>0, <3>1
      <4> QED BY <1>3, <4>1
    <3>2. CASE ~(k < d)
      <4>1. q[k] = pos[k + 1] - 1 /\ pos[k + 1] > p /\ pos[k + 1] \in 1..Len(h)
        BY <1>12, <3>0, <3>2
      <4>2. q[k] \in 1..Len(h) - 1
        BY <1>11, <4>1
      <4> QED BY <1>3, <4>2
    <3> QED BY <3>1, <3>2
  <2> QED BY <2>1
<1>7. ASSUME NEW j \in DOMAIN b, NEW k \in DOMAIN b, j < k PROVE q[j] < q[k]
  <2>1. /\ j \in 1..Len(a) /\ j + 1 \in 1..Len(a) /\ k \in 1..Len(a) /\ k + 1 \in 1..Len(a)
        /\ j \in 1..Len(a) - 1 /\ k \in 1..Len(a) - 1
    BY <1>2
  <2>2. CASE k < d
    BY <1>1, <1>2, <1>7, <2>1, <2>2
  <2>3. CASE j < d /\ ~(k < d)
    <3>1. q[j] = pos[j] /\ pos[j] < p /\ pos[j] \in 1..Len(h) - 1
      BY <1>12, <2>1, <2>3
    <3>2. q[k] = pos[k + 1] - 1 /\ pos[k + 1] > p /\ pos[k + 1] \in 1..Len(h)
      BY <1>12, <2>1, <2>3
    <3> HIDE DEF q
    <3> QED BY <1>11, <3>1, <3>2
  <2>4. CASE ~(j < d)
    <3>1. pos[j + 1] < pos[k + 1]
      BY <1>1, <1>2, <1>7, <2>1
    <3>2. q[j] = pos[j + 1] - 1 /\ pos[j + 1] \in 1..Len(h)
      BY <1>12, <2>1, <2>4
    <3>3. q[k] = pos[k + 1] - 1 /\ pos[k + 1] \in 1..Len(h)
      BY <1>7, <1>12, <2>1, <2>4
    <3> HIDE DEF q
    <3> QED BY <1>11, <3>1, <3>2, <3>3
  <2> QED BY <2>2, <2>3, <2>4
<1>8. ASSUME NEW k \in DOMAIN b PROVE b[k].ele = g[q[k]] /\ g[q[k]].tipo = t
  <2>1. k \in 1..Len(a) /\ k + 1 \in 1..Len(a)
    BY <1>2
  <2>2. CASE k < d
    <3>1. b[k] = a[k] /\ q[k] = pos[k] /\ pos[k] < p /\ pos[k] \in 1..Len(h) - 1
      BY <1>2, <1>12, <2>1, <2>2
    <3>2. g[q[k]] = h[pos[k]]
      BY <1>3, <3>1
    <3> QED BY <1>1, <1>2, <2>1, <3>1, <3>2
  <2>3. CASE ~(k < d)
    <3>1. /\ b[k] = a[k + 1] /\ q[k] = pos[k + 1] - 1
          /\ pos[k + 1] > p /\ pos[k + 1] \in 1..Len(h)
      BY <1>2, <1>12, <2>1, <2>3
    <3>2. q[k] \in 1..Len(h) - 1 /\ ~(q[k] < p) /\ q[k] + 1 = pos[k + 1]
      <4> HIDE DEF q
      <4> QED BY <1>11, <3>1
    <3>3. g[q[k]] = h[pos[k + 1]]
      BY <1>3, <3>2
    <3> QED BY <1>1, <1>2, <2>1, <3>1, <3>3
  <2> QED BY <2>2, <2>3
<1>9. ASSUME NEW i \in DOMAIN g, g[i].tipo = t PROVE \E k \in DOMAIN b : q[k] = i
  <2>0. i \in 1..Len(h) - 1 /\ i \in DOMAIN h /\ i + 1 \in DOMAIN h
    BY <1>3
  <2>1. CASE i < p
    <3>1. PICK k \in DOMAIN a : pos[k] = i
      BY <1>1, <1>3, <1>9, <2>1
    <3>2. k < d
      <4>1. k \in 1..Len(a) /\ ~(k > d) /\ k # d
        BY <1>2, <1>4, <1>5, <2>0, <2>1, <3>1, <1>11
      <4> QED BY <1>11, <4>1
    <3>3. k \in DOMAIN b /\ q[k] = i
      BY <1>2, <3>1, <3>2
    <3> QED BY <3>3
  <2>2. CASE ~(i < p)
    <3>0. g[i] = h[i + 1]
      BY <1>3, <2>0, <2>2
    <3>1. PICK k \in DOMAIN a : pos[k] = i + 1
      BY <1>1, <1>9, <2>0, <3>0
    <3>2. k > d
      <4>1. k \in 1..Len(a) /\ pos[k] > p
        BY <1>2, <1>11, <2>0, <2>2, <3>1
      <4>2. ~(k < d) /\ k # d
        BY <1>4, <1>5, <1>11, <4>1
      <4> QED BY <1>11, <4>1, <4>2
    <3>3. k - 1 \in DOMAIN b /\ q[k - 1] = i
      BY <1>2, <1>3, <3>1, <3>2
    <3> QED BY <3>3
  <2> QED BY <2>1, <2>2
<1> HIDE DEF q
<1>10. Refleja(b, g, t)
  BY <1>6, <1>7, <1>8, <1>9 DEF Refleja
<1> QED BY <1>10 DEF b, g

LEMMA ReflejaQuitaOtro ==
  ASSUME NEW t, NEW a \in Seq(Entrada), NEW h \in Seq(Figura), NEW p \in 1..Len(h),
         h[p].tipo # t, Refleja(a, h, t)
  PROVE  Refleja(a, RemoveAt(h, p), t)
<1> DEFINE g == RemoveAt(h, p)
<1>1. PICK pos \in [DOMAIN a -> DOMAIN h] :
        /\ \A j, k \in DOMAIN a : j < k => pos[j] < pos[k]
        /\ \A k \in DOMAIN a : a[k].ele = h[pos[k]] /\ h[pos[k]].tipo = t
        /\ \A i \in DOMAIN h : h[i].tipo = t => \E k \in DOMAIN a : pos[k] = i
  BY DEF Refleja
<1>2. /\ DOMAIN g = 1..Len(h) - 1 /\ DOMAIN h = 1..Len(h) /\ Len(h) \in Nat
      /\ \A j \in 1..Len(h) - 1 : g[j] = IF j < p THEN h[j] ELSE h[j + 1]
  <2>1. /\ g \in Seq(Figura) /\ Len(g) = Len(h) - 1
        /\ \A j \in 1..Len(h) - 1 : g[j] = IF j < p THEN h[j] ELSE h[j + 1]
    BY Quita
  <2> HIDE DEF g
  <2>2. DOMAIN g = 1..Len(g) /\ DOMAIN h = 1..Len(h) /\ Len(h) \in Nat
    BY <2>1
  <2> QED BY <2>1, <2>2
<1> HIDE DEF g
<1>3. \A k \in DOMAIN a : pos[k] \in 1..Len(h) /\ pos[k] # p
  BY <1>1, <1>2
<1> DEFINE q == [k \in DOMAIN a |-> IF pos[k] < p THEN pos[k] ELSE pos[k] - 1]
<1>4. q \in [DOMAIN a -> DOMAIN g]
  <2>1. ASSUME NEW k \in DOMAIN a PROVE q[k] \in DOMAIN g
    <3>1. CASE pos[k] < p
      BY <1>2, <1>3, <3>1
    <3>2. CASE ~(pos[k] < p)
      BY <1>2, <1>3, <3>2
    <3> QED BY <3>1, <3>2
  <2> QED BY <2>1
<1>5. ASSUME NEW j \in DOMAIN a, NEW k \in DOMAIN a, j < k PROVE q[j] < q[k]
  <2>1. pos[j] < pos[k]
    BY <1>1, <1>5
  <2> QED BY <1>3, <2>1
<1>6. ASSUME NEW k \in DOMAIN a PROVE a[k].ele = g[q[k]] /\ g[q[k]].tipo = t
  <2>1. g[q[k]] = h[pos[k]]
    <3>1. CASE pos[k] < p
      <4>1. q[k] = pos[k] /\ pos[k] \in 1..Len(h) - 1
        BY <1>2, <1>3, <3>1
      <4> QED BY <1>2, <3>1, <4>1
    <3>2. CASE ~(pos[k] < p)
      <4>1. q[k] = pos[k] - 1 /\ q[k] \in 1..Len(h) - 1 /\ ~(q[k] < p) /\ q[k] + 1 = pos[k]
        BY <1>2, <1>3, <3>2
      <4> QED BY <1>2, <4>1
    <3> QED BY <3>1, <3>2
  <2> QED BY <1>1, <2>1
<1>7. ASSUME NEW i \in DOMAIN g, g[i].tipo = t PROVE \E k \in DOMAIN a : q[k] = i
  <2>1. CASE i < p
    <3>1. PICK k \in DOMAIN a : pos[k] = i
      BY <1>1, <1>2, <1>7, <2>1
    <3> QED BY <2>1, <3>1
  <2>2. CASE ~(i < p)
    <3>0. g[i] = h[i + 1] /\ i + 1 \in DOMAIN h
      BY <1>2, <2>2
    <3>1. PICK k \in DOMAIN a : pos[k] = i + 1
      BY <1>1, <1>7, <3>0
    <3>2. q[k] = i
      BY <1>2, <2>2, <3>1
    <3> QED BY <3>2
  <2> QED BY <2>1, <2>2
<1> HIDE DEF q
<1>8. Refleja(a, g, t)
  BY <1>4, <1>5, <1>6, <1>7 DEF Refleja
<1> QED BY <1>8 DEF g

(* The last figure of the list, if of type t, is the last entry.            *)
LEMMA ReflejaUltimo ==
  ASSUME NEW t, NEW a \in Seq(Entrada), NEW h \in Seq(Figura), h # <<>>,
         h[Len(h)].tipo = t, Refleja(a, h, t)
  PROVE  a # <<>> /\ a[Len(a)].ele = h[Len(h)]
<1>1. PICK pos \in [DOMAIN a -> DOMAIN h] :
        /\ \A j, k \in DOMAIN a : j < k => pos[j] < pos[k]
        /\ \A k \in DOMAIN a : a[k].ele = h[pos[k]] /\ h[pos[k]].tipo = t
        /\ \A i \in DOMAIN h : h[i].tipo = t => \E k \in DOMAIN a : pos[k] = i
  BY DEF Refleja
<1>2. Len(h) \in DOMAIN h /\ DOMAIN h = 1..Len(h) /\ DOMAIN a = 1..Len(a) /\ Len(a) \in Nat
  OBVIOUS
<1>3. PICK k \in DOMAIN a : pos[k] = Len(h)
  BY <1>1, <1>2
<1>4. k = Len(a)
  <2>1. Len(a) \in DOMAIN a /\ k <= Len(a)
    BY <1>2
  <2>2. ~(k < Len(a))
    BY <1>1, <1>2, <1>3, <2>1
  <2> QED BY <1>2, <2>1, <2>2
<1> QED BY <1>1, <1>2, <1>3, <1>4

(* The entries are the figures of the list.                                 *)
LEMMA ReflejaDentro ==
  ASSUME NEW t, NEW a, NEW h, Refleja(a, h, t), NEW k \in DOMAIN a
  PROVE  \E i \in DOMAIN h : a[k].ele = h[i]
  BY DEF Refleja

-------------------------------------------------------------------------------
(* One SPATIAL.                                                            *)

Espacio == [punto : Seq(Entrada), linea : Seq(Entrada), stack : Seq(Figura),
            postack : Int, type : {1, 2}]

(* After n figures: where postack may be, which figures the stack holds, and *)
(* that the arrays show what the stack says. nub: Sin Ubicacion is on; o: a  *)
(* removal missed its figure.                                              *)
Sana(s, n, nub, o) ==
  /\ s.postack \in -2..Len(s.stack) - 1
  /\ s.postack = -2 => o
  /\ \A i \in DOMAIN s.stack : s.stack[i].id <= n /\ (s.stack[i].de = "comuna" => nub)
  /\ \A i, j \in DOMAIN s.stack : s.stack[i] = s.stack[j] => i = j
  /\ nub \/ o \/ (Refleja(s.punto, Hechas(s), "punto") /\ Refleja(s.linea, Hechas(s), "linea"))

(* The arrays of u are those of s, but for figures that come from D.         *)
Hereda(u, s, D) == HeredaDe(u.punto, s.punto, D) /\ HeredaDe(u.linea, s.linea, D)

LEMMA EspacioCampos ==
  ASSUME NEW s \in Espacio
  PROVE  /\ s.punto \in Seq(Entrada) /\ s.linea \in Seq(Entrada) /\ s.stack \in Seq(Figura)
         /\ s.postack \in Int /\ s.type \in {1, 2}
  BY DEF Espacio

LEMMA EspacioForma ==
  ASSUME NEW s \in Espacio
  PROVE  s = [punto |-> s.punto, linea |-> s.linea, stack |-> s.stack, postack |-> s.postack, type |-> s.type]
  BY DEF Espacio

LEMMA EspacioArma ==
  ASSUME NEW u, NEW a \in Seq(Entrada), NEW b \in Seq(Entrada), NEW c \in Seq(Figura),
         NEW p \in Int, NEW t \in {1, 2},
         u = [punto |-> a, linea |-> b, stack |-> c, postack |-> p, type |-> t]
  PROVE  u \in Espacio
  BY DEF Espacio

LEMMA FiguraCampos ==
  ASSUME NEW f \in Figura
  PROVE  /\ f.tipo = "punto" \/ f.tipo = "linea"
         /\ f.id \in Nat /\ f.id \in 1..MaxFiguras
         /\ Suelta(f) \in Entrada /\ Suelta(f).ele = f
         /\ Registro(f) \in Entrada /\ Registro(f).ele = f
  BY TrazadoAssumption DEF Figura, Tipos, Suelta, Registro, Entrada

LEMMA HechasForma ==
  ASSUME NEW s \in Espacio, s.postack \in -2..Len(s.stack) - 1
  PROVE  /\ Hechas(s) \in Seq(Figura)
         /\ Len(Hechas(s)) = IF s.postack = -2 THEN 0 ELSE s.postack + 1
         /\ \A j \in 1..s.postack + 1 : j \in DOMAIN s.stack /\ Hechas(s)[j] = s.stack[j]
<1>1. s.stack \in Seq(Figura) /\ Len(s.stack) \in Nat
  BY DEF Espacio
<1>2. CASE s.postack = -2
  <2>1. SubSeq(s.stack, 1, -1) = <<>>
    BY <1>1
  <2> QED BY <1>2, <2>1 DEF Hechas
<1>3. CASE s.postack # -2
  <2>1. s.postack + 1 \in 0..Len(s.stack)
    BY <1>1, <1>3
  <2>2. \A m \in 0..Len(s.stack) : LET u == SubSeq(s.stack, 1, m) IN
          u \in Seq(Figura) /\ Len(u) = m /\ \A j \in 1..m : j \in DOMAIN s.stack /\ u[j] = s.stack[j]
    BY <1>1
  <2> QED BY <1>3, <2>1, <2>2 DEF Hechas
<1> QED BY <1>2, <1>3

LEMMA PoneForma ==
  ASSUME NEW s \in Espacio, NEW f \in Figura, s.postack \in -2..Len(s.stack) - 1
  PROVE  /\ Pone(s, f) \in Espacio
         /\ Pone(s, f).punto = IF f.tipo = "punto" THEN Append(s.punto, Suelta(f)) ELSE s.punto
         /\ Pone(s, f).linea = IF f.tipo = "linea" THEN Append(s.linea, Suelta(f)) ELSE s.linea
         /\ Pone(s, f).stack = IF s.postack = -2 THEN <<>> ELSE Append(Hechas(s), f)
         /\ Pone(s, f).postack = s.postack + 1
         /\ Pone(s, f).type = s.type
<1> DEFINE q == IF s.postack = -2 THEN <<>> ELSE Append(Hechas(s), f)
<1>1. Suelta(f) \in Entrada /\ (f.tipo = "punto" \/ f.tipo = "linea")
  BY FiguraCampos
<1>2. Hechas(s) \in Seq(Figura)
  BY HechasForma
<1>3. q \in Seq(Figura)
  BY <1>2
<1>4. /\ Append(s.punto, Suelta(f)) \in Seq(Entrada) /\ Append(s.linea, Suelta(f)) \in Seq(Entrada)
      /\ s.punto \in Seq(Entrada) /\ s.linea \in Seq(Entrada)
      /\ s.postack + 1 \in Int /\ s.type \in {1, 2}
  BY <1>1, EspacioCampos
<1>5. Pone(s, f) = [s EXCEPT ![f.tipo] = Append(@, Suelta(f)), !.stack = q, !.postack = @ + 1]
  BY DEF Pone
<1> HIDE DEF q
<1>6. CASE f.tipo = "punto"
  <2>1. Pone(s, f) = [s EXCEPT !.punto = Append(@, Suelta(f)), !.stack = q, !.postack = @ + 1]
    BY <1>5, <1>6
  <2>2. Pone(s, f) = [punto |-> Append(s.punto, Suelta(f)), linea |-> s.linea, stack |-> q,
                      postack |-> s.postack + 1, type |-> s.type]
    BY <2>1 DEF Espacio
  <2>3. Pone(s, f) \in Espacio
    BY <1>3, <1>4, <2>2, EspacioArma
  <2> QED BY <1>6, <2>2, <2>3 DEF q
<1>7. CASE f.tipo = "linea"
  <2>1. Pone(s, f) = [s EXCEPT !.linea = Append(@, Suelta(f)), !.stack = q, !.postack = @ + 1]
    BY <1>5, <1>7
  <2>2. Pone(s, f) = [punto |-> s.punto, linea |-> Append(s.linea, Suelta(f)), stack |-> q,
                      postack |-> s.postack + 1, type |-> s.type]
    BY <2>1 DEF Espacio
  <2>3. Pone(s, f) \in Espacio
    BY <1>3, <1>4, <2>2, EspacioArma
  <2> QED BY <1>7, <2>2, <2>3 DEF q
<1> QED BY <1>1, <1>6, <1>7

LEMMA SanaCrece ==
  ASSUME NEW s \in Espacio, NEW n \in Nat, NEW m \in Nat, n <= m, NEW nub, NEW o, Sana(s, n, nub, o)
  PROVE  Sana(s, m, nub, o)
<1>1. \A i \in DOMAIN s.stack : s.stack[i].id \in Nat
  BY FiguraCampos DEF Espacio
<1> QED BY <1>1 DEF Sana

(* A new figure takes its place at the end of both.                         *)
LEMMA PoneSana ==
  ASSUME NEW s \in Espacio, NEW n \in Nat, NEW nub, NEW o, Sana(s, n, nub, o),
         NEW f \in Figura, f.id > n, f.de = "comuna" => nub
  PROVE  Sana(Pone(s, f), f.id, nub, o)
<1> DEFINE p == Pone(s, f)
           h == Hechas(s)
<1>1. s.postack \in -2..Len(s.stack) - 1 /\ s.stack \in Seq(Figura) /\ Len(s.stack) \in Nat
  BY DEF Sana, Espacio
<1>2. /\ p \in Espacio /\ p.postack = s.postack + 1
      /\ p.punto = IF f.tipo = "punto" THEN Append(s.punto, Suelta(f)) ELSE s.punto
      /\ p.linea = IF f.tipo = "linea" THEN Append(s.linea, Suelta(f)) ELSE s.linea
      /\ p.stack = IF s.postack = -2 THEN <<>> ELSE Append(h, f)
  BY <1>1, PoneForma
<1>3. /\ h \in Seq(Figura) /\ Len(h) = IF s.postack = -2 THEN 0 ELSE s.postack + 1
      /\ \A j \in 1..s.postack + 1 : j \in DOMAIN s.stack /\ h[j] = s.stack[j]
  BY <1>1, HechasForma
<1>4. f.id \in Nat /\ (f.tipo = "punto" \/ f.tipo = "linea") /\ Suelta(f) \in Entrada /\ Suelta(f).ele = f
  BY FiguraCampos
<1>5. \A i \in DOMAIN s.stack : s.stack[i].id \in Nat
  BY FiguraCampos DEF Espacio
<1> HIDE DEF p, h
<1>6. CASE s.postack = -2
  <2>1. o /\ p.stack = <<>> /\ p.postack = -1 /\ Len(<<>>) = 0 /\ DOMAIN <<>> = {}
    BY <1>2, <1>6 DEF Sana
  <2>2. Sana(p, f.id, nub, o)
    BY <2>1 DEF Sana
  <2> QED BY <2>2 DEF p
<1>7. CASE s.postack # -2
  <2>1. /\ p.stack = Append(h, f) /\ Len(h) = s.postack + 1 /\ Len(h) \in Nat
        /\ Len(p.stack) = Len(h) + 1 /\ DOMAIN p.stack = 1..Len(h) + 1
        /\ p.stack[Len(h) + 1] = f /\ \A j \in 1..Len(h) : p.stack[j] = h[j]
    BY <1>1, <1>2, <1>3, <1>7
  <2>2. p.postack = Len(p.stack) - 1 /\ p.postack # -2
    BY <1>2, <2>1
  <2>3. \A j \in 1..Len(h) : j \in DOMAIN s.stack /\ p.stack[j] = s.stack[j]
    BY <1>3, <2>1
  <2>4. ASSUME NEW i \in DOMAIN p.stack
        PROVE  p.stack[i].id <= f.id /\ (p.stack[i].de = "comuna" => nub)
    <3>1. CASE i = Len(h) + 1
      BY <1>4, <2>1, <3>1
    <3>2. CASE i \in 1..Len(h)
      <4>1. i \in DOMAIN s.stack /\ p.stack[i] = s.stack[i]
        BY <2>3, <3>2
      <4>2. s.stack[i].id <= n /\ (s.stack[i].de = "comuna" => nub)
        BY <4>1 DEF Sana
      <4> QED BY <1>4, <1>5, <4>1, <4>2
    <3> QED BY <2>1, <3>1, <3>2
  <2>5. ASSUME NEW i \in DOMAIN p.stack, NEW j \in DOMAIN p.stack, p.stack[i] = p.stack[j]
        PROVE  i = j
    <3>1. \A k \in 1..Len(h) : p.stack[k] # f
      <4>1. ASSUME NEW k \in 1..Len(h) PROVE p.stack[k] # f
        <5>1. k \in DOMAIN s.stack /\ p.stack[k] = s.stack[k]
          BY <2>3
        <5>2. s.stack[k].id <= n /\ s.stack[k].id \in Nat
          BY <1>5, <5>1 DEF Sana
        <5> QED BY <1>4, <5>1, <5>2
      <4> QED BY <4>1
    <3>2. CASE i \in 1..Len(h) /\ j \in 1..Len(h)
      BY <2>3, <2>5, <3>2 DEF Sana
    <3>3. CASE ~(i \in 1..Len(h) /\ j \in 1..Len(h))
      BY <2>1, <2>5, <3>1, <3>3
    <3> QED BY <3>2, <3>3
  <2>6. Hechas(p) = Append(h, f)
    <3>1. SubSeq(p.stack, 1, Len(p.stack)) = p.stack
      BY <1>2, SubSeqFull DEF Espacio
    <3>2. p.postack + 1 = Len(p.stack)
      BY <2>1, <2>2
    <3> QED BY <2>1, <3>1, <3>2 DEF Hechas
  <2>7. ASSUME ~nub, ~o
        PROVE  Refleja(p.punto, Hechas(p), "punto") /\ Refleja(p.linea, Hechas(p), "linea")
    <3>1. Refleja(s.punto, h, "punto") /\ Refleja(s.linea, h, "linea")
      BY <2>7 DEF Sana, h
    <3>2. s.punto \in Seq(Entrada) /\ s.linea \in Seq(Entrada)
      BY DEF Espacio
    <3>3. CASE f.tipo = "punto"
      BY <1>2, <1>3, <1>4, <2>6, <3>1, <3>2, <3>3, ReflejaMas, ReflejaOtro
    <3>4. CASE f.tipo = "linea"
      BY <1>2, <1>3, <1>4, <2>6, <3>1, <3>2, <3>4, ReflejaMas, ReflejaOtro
    <3> QED BY <1>4, <3>3, <3>4
  <2>8. p.postack \in -2..Len(p.stack) - 1
    BY <2>1, <2>2
  <2>9. Sana(p, f.id, nub, o)
    BY <2>2, <2>4, <2>5, <2>7, <2>8 DEF Sana
  <2> QED BY <2>9 DEF p
<1> QED BY <1>6, <1>7

LEMMA PoneHereda ==
  ASSUME NEW s \in Espacio, NEW f \in Figura, s.postack \in -2..Len(s.stack) - 1
  PROVE  Hereda(Pone(s, f), s, {f.de})
<1>1. /\ Pone(s, f).punto = IF f.tipo = "punto" THEN Append(s.punto, Suelta(f)) ELSE s.punto
      /\ Pone(s, f).linea = IF f.tipo = "linea" THEN Append(s.linea, Suelta(f)) ELSE s.linea
  BY PoneForma
<1>2. Suelta(f) \in Entrada /\ Suelta(f).ele.de \in {f.de}
  BY FiguraCampos
<1> QED BY <1>1, <1>2, EspacioCampos, HeredaSi, HeredaMas DEF Hereda

(* undo takes the last figure off both.                                     *)
LEMMA UndoSana ==
  ASSUME NEW s \in Espacio, NEW n, NEW nub, NEW o, Sana(s, n, nub, o)
  PROVE  undo(s) \in Espacio /\ Sana(undo(s), n, nub, o) /\ Hereda(undo(s), s, {})
<1> DEFINE f == s.stack[s.postack + 1]
           u == undo(s)
           h == Hechas(s)
<1>1. s.postack \in -2..Len(s.stack) - 1 /\ s.stack \in Seq(Figura) /\ Len(s.stack) \in Nat
  BY DEF Sana, Espacio
<1>2. CASE s.postack < 0
  BY <1>2, HeredaSi DEF undo, Hereda
<1>3. CASE ~(s.postack < 0)
  <2>1. s.postack + 1 \in 1..Len(s.stack) /\ f \in Figura
    BY <1>1, <1>3
  <2>2. f.tipo = "punto" \/ f.tipo = "linea"
    BY <2>1, FiguraCampos
  <2>3. Front(s.punto) \in Seq(Entrada) /\ Front(s.linea) \in Seq(Entrada)
    <3>1. s.punto \in Seq(Entrada) /\ s.linea \in Seq(Entrada)
      BY DEF Espacio
    <3>2. Front(<<>>) = <<>>
      BY DEF Front
    <3> QED BY <3>1, <3>2, Delante, Quita
  <2>4. u = [s EXCEPT ![f.tipo] = Front(@), !.postack = @ - 1]
    BY <1>1, <1>3 DEF undo
  <2>5. /\ u \in Espacio /\ u.stack = s.stack /\ u.postack = s.postack - 1
        /\ u.punto = IF f.tipo = "punto" THEN Front(s.punto) ELSE s.punto
        /\ u.linea = IF f.tipo = "linea" THEN Front(s.linea) ELSE s.linea
    <3> HIDE DEF f, u
    <3>0. /\ s.punto \in Seq(Entrada) /\ s.linea \in Seq(Entrada) /\ s.stack \in Seq(Figura)
          /\ s.postack - 1 \in Int /\ s.type \in {1, 2}
      BY EspacioCampos
    <3>1. CASE f.tipo = "punto"
      <4>1. u = [s EXCEPT !.punto = Front(@), !.postack = @ - 1]
        BY <2>4, <3>1
      <4>2. u = [punto |-> Front(s.punto), linea |-> s.linea, stack |-> s.stack,
                 postack |-> s.postack - 1, type |-> s.type]
        BY <4>1 DEF Espacio
      <4>3. u \in Espacio
        BY <2>3, <3>0, <4>2, EspacioArma
      <4> QED BY <3>1, <4>2, <4>3
    <3>2. CASE f.tipo = "linea"
      <4>1. u = [s EXCEPT !.linea = Front(@), !.postack = @ - 1]
        BY <2>4, <3>2
      <4>2. u = [punto |-> s.punto, linea |-> Front(s.linea), stack |-> s.stack,
                 postack |-> s.postack - 1, type |-> s.type]
        BY <4>1 DEF Espacio
      <4>3. u \in Espacio
        BY <2>3, <3>0, <4>2, EspacioArma
      <4> QED BY <3>2, <4>2, <4>3
    <3> QED BY <2>2, <3>1, <3>2
  <2>6. /\ h \in Seq(Figura) /\ Len(h) = s.postack + 1 /\ Len(h) \in 1..Len(h)
        /\ \A j \in 1..Len(h) : j \in DOMAIN s.stack /\ h[j] = s.stack[j]
    BY <1>1, <1>3, HechasForma
  <2>7. h[Len(h)] = f
    BY <1>3, <2>6
  <2>8. u.postack \in -1..Len(u.stack) - 1
    <3> HIDE DEF f, u
    <3> QED BY <1>1, <1>3, <2>5
  <2> HIDE DEF f, u, h
  <2>9. Hechas(u) = RemoveAt(h, Len(h))
    <3>1. /\ Hechas(u) \in Seq(Figura) /\ Len(Hechas(u)) = s.postack
          /\ \A j \in 1..s.postack : Hechas(u)[j] = s.stack[j]
      <4>1. u.postack \in -2..Len(u.stack) - 1 /\ u.postack # -2
        BY <1>1, <2>5, <2>8
      <4> QED BY <1>1, <2>5, <4>1, HechasForma
    <3>2. /\ RemoveAt(h, Len(h)) \in Seq(Figura) /\ Len(RemoveAt(h, Len(h))) = Len(h) - 1
          /\ \A j \in 1..Len(h) - 1 : RemoveAt(h, Len(h))[j] = h[j]
      <4>1. /\ RemoveAt(h, Len(h)) \in Seq(Figura) /\ Len(RemoveAt(h, Len(h))) = Len(h) - 1
            /\ \A j \in 1..Len(h) - 1 : RemoveAt(h, Len(h))[j] = IF j < Len(h) THEN h[j] ELSE h[j + 1]
        BY <2>6, Quita
      <4>2. \A j \in 1..Len(h) - 1 : j < Len(h)
        BY <2>6
      <4> QED BY <4>1, <4>2
    <3>3. \A j \in 1..s.postack : RemoveAt(h, Len(h))[j] = s.stack[j]
      BY <1>1, <2>6, <3>2
    <3>4. Len(h) - 1 = s.postack
      BY <1>1, <2>6
    <3> QED BY <3>1, <3>2, <3>3, <3>4, SeqEqual
  <2>10. ASSUME ~nub, ~o
         PROVE  Refleja(u.punto, Hechas(u), "punto") /\ Refleja(u.linea, Hechas(u), "linea")
    <3>1. Refleja(s.punto, h, "punto") /\ Refleja(s.linea, h, "linea")
      BY <2>10 DEF Sana, h
    <3>2. s.punto \in Seq(Entrada) /\ s.linea \in Seq(Entrada)
      BY DEF Espacio
    <3>3. \A i, j \in DOMAIN h : h[i] = h[j] => i = j
      BY <2>6 DEF Sana
    <3>4. h # <<>>
      BY <2>6
    <3>5. ASSUME NEW t \in Tipos, NEW a \in Seq(Entrada), Refleja(a, h, t)
          PROVE  Refleja(IF f.tipo = t THEN Front(a) ELSE a, RemoveAt(h, Len(h)), t)
      <4>1. CASE f.tipo = t
        <5>1. a # <<>> /\ a[Len(a)].ele = h[Len(h)]
          BY <2>6, <2>7, <3>4, <3>5, <4>1, ReflejaUltimo
        <5>2. Front(a) = RemoveAt(a, Len(a)) /\ Len(a) \in 1..Len(a)
          BY <5>1, Delante
        <5>3. Refleja(RemoveAt(a, Len(a)), RemoveAt(h, Len(h)), t)
          BY <2>6, <3>3, <3>5, <5>1, <5>2, ReflejaQuita
        <5> QED BY <4>1, <5>2, <5>3
      <4>2. CASE f.tipo # t
        <5>1. Refleja(a, RemoveAt(h, Len(h)), t)
          BY <2>6, <2>7, <3>5, <4>2, ReflejaQuitaOtro
        <5> QED BY <4>2, <5>1
      <4> QED BY <4>1, <4>2
    <3> QED BY <2>5, <2>9, <3>1, <3>2, <3>5 DEF Tipos
  <2>11. u.postack \in -2..Len(u.stack) - 1 /\ u.postack # -2
    BY <1>1, <2>5, <2>8
  <2>12. Sana(u, n, nub, o)
    BY <2>5, <2>10, <2>11 DEF Sana
  <2>13. Hereda(u, s, {})
    BY <2>5, EspacioCampos, HeredaSi, HeredaMenos DEF Hereda
  <2> QED BY <2>5, <2>12, <2>13 DEF u
<1> QED BY <1>1, <1>2, <1>3

(* forward puts the next figure of the stack at the end of both.            *)
LEMMA ForwardSana ==
  ASSUME NEW s \in Espacio, NEW n, NEW nub, NEW o, Sana(s, n, nub, o)
  PROVE  /\ forward(s) \in Espacio /\ Sana(forward(s), n, nub, o)
         /\ ~nub => Hereda(forward(s), s, Origen \ {"comuna"})
<1> DEFINE f == s.stack[s.postack + 2]
           u == forward(s)
           h == Hechas(s)
<1>1. s.postack \in -2..Len(s.stack) - 1 /\ s.stack \in Seq(Figura) /\ Len(s.stack) \in Nat
  BY DEF Sana, Espacio
<1>2. CASE s.postack >= Len(s.stack) - 1
  BY <1>2, HeredaSi DEF forward, Hereda
<1>3. CASE ~(s.postack >= Len(s.stack) - 1) /\ s.postack = -2
  <2>1. u = [s EXCEPT !.postack = -1]
    BY <1>3 DEF forward
  <2>2. u = [punto |-> s.punto, linea |-> s.linea, stack |-> s.stack, postack |-> -1, type |-> s.type]
    BY <2>1 DEF Espacio
  <2> HIDE DEF u
  <2>3. u \in Espacio
    <3>1. /\ s.punto \in Seq(Entrada) /\ s.linea \in Seq(Entrada) /\ s.stack \in Seq(Figura)
          /\ s.type \in {1, 2} /\ -1 \in Int
      BY EspacioCampos
    <3> QED BY <2>2, <3>1, EspacioArma
  <2>4. o
    BY <1>3 DEF Sana
  <2>5. -1 \in -2..Len(s.stack) - 1
    BY <1>1
  <2>6. Sana(u, n, nub, o)
    BY <2>2, <2>4, <2>5 DEF Sana
  <2>7. Hereda(u, s, Origen \ {"comuna"})
    BY <2>2, HeredaSi DEF Hereda
  <2> QED BY <2>3, <2>6, <2>7 DEF u
<1>4. CASE ~(s.postack >= Len(s.stack) - 1) /\ s.postack # -2
  <2>1. s.postack + 2 \in 1..Len(s.stack) /\ f \in Figura /\ s.postack \in -1..Len(s.stack) - 2
    BY <1>1, <1>4
  <2>2. /\ f.tipo = "punto" \/ f.tipo = "linea"
        /\ Registro(f) \in Entrada /\ Registro(f).ele = f
    BY <2>1, FiguraCampos
  <2>3. u = [s EXCEPT ![f.tipo] = Append(@, Registro(f)), !.postack = @ + 1]
    BY <1>4 DEF forward
  <2>4. /\ u \in Espacio /\ u.stack = s.stack /\ u.postack = s.postack + 1
        /\ u.punto = IF f.tipo = "punto" THEN Append(s.punto, Registro(f)) ELSE s.punto
        /\ u.linea = IF f.tipo = "linea" THEN Append(s.linea, Registro(f)) ELSE s.linea
    <3> HIDE DEF f, u
    <3>0. /\ s.punto \in Seq(Entrada) /\ s.linea \in Seq(Entrada) /\ s.stack \in Seq(Figura)
          /\ s.postack + 1 \in Int /\ s.type \in {1, 2}
      BY EspacioCampos
    <3>1. CASE f.tipo = "punto"
      <4>1. u = [s EXCEPT !.punto = Append(@, Registro(f)), !.postack = @ + 1]
        BY <2>3, <3>1
      <4>2. u = [punto |-> Append(s.punto, Registro(f)), linea |-> s.linea, stack |-> s.stack,
                 postack |-> s.postack + 1, type |-> s.type]
        BY <4>1 DEF Espacio
      <4>3. Append(s.punto, Registro(f)) \in Seq(Entrada)
        BY <2>2, <3>0
      <4>4. u \in Espacio
        BY <3>0, <4>2, <4>3, EspacioArma
      <4> QED BY <3>1, <4>2, <4>4
    <3>2. CASE f.tipo = "linea"
      <4>1. u = [s EXCEPT !.linea = Append(@, Registro(f)), !.postack = @ + 1]
        BY <2>3, <3>2
      <4>2. u = [punto |-> s.punto, linea |-> Append(s.linea, Registro(f)), stack |-> s.stack,
                 postack |-> s.postack + 1, type |-> s.type]
        BY <4>1 DEF Espacio
      <4>3. Append(s.linea, Registro(f)) \in Seq(Entrada)
        BY <2>2, <3>0
      <4>4. u \in Espacio
        BY <3>0, <4>2, <4>3, EspacioArma
      <4> QED BY <3>2, <4>2, <4>4
    <3> QED BY <2>2, <3>1, <3>2
  <2>5. /\ h \in Seq(Figura) /\ Len(h) = s.postack + 1
        /\ \A j \in 1..s.postack + 1 : h[j] = s.stack[j]
    BY <1>1, <1>4, HechasForma
  <2> HIDE DEF h, u
  <2>6. u.postack \in -2..Len(u.stack) - 1 /\ u.postack # -2
    BY <2>1, <2>4
  <2>7. Hechas(u) = Append(h, f)
    <3> HIDE DEF f
    <3>0. s.postack + 1 \in Nat /\ s.stack[s.postack + 2] = f
      BY <2>1 DEF f
    <3>1. /\ Hechas(u) \in Seq(Figura) /\ Len(Hechas(u)) = s.postack + 2
          /\ \A j \in 1..s.postack + 2 : Hechas(u)[j] = s.stack[j]
      <4>1. /\ Hechas(u) \in Seq(Figura) /\ Len(Hechas(u)) = u.postack + 1
            /\ \A j \in 1..u.postack + 1 : Hechas(u)[j] = u.stack[j]
        BY <2>4, <2>6, HechasForma
      <4>2. u.postack + 1 = s.postack + 2
        BY <2>1, <2>4
      <4> QED BY <2>4, <4>1, <4>2
    <3>2. /\ Append(h, f) \in Seq(Figura) /\ Len(Append(h, f)) = Len(h) + 1
          /\ \A j \in 1..Len(h) : Append(h, f)[j] = h[j]
          /\ Append(h, f)[Len(h) + 1] = f
      BY <2>1, <2>5, AppendProperties
    <3>3. \A j \in 1..s.postack + 2 : j \in 1..s.postack + 1 \/ j = s.postack + 2
      BY <2>1
    <3>4. Len(h) + 1 = s.postack + 2
      BY <2>1, <2>5
    <3>5. \A j \in 1..s.postack + 2 : Append(h, f)[j] = s.stack[j]
      BY <2>5, <3>0, <3>2, <3>3, <3>4
    <3> QED BY <3>1, <3>2, <3>4, <3>5, SeqEqual
  <2>8. ASSUME ~nub, ~o
        PROVE  Refleja(u.punto, Hechas(u), "punto") /\ Refleja(u.linea, Hechas(u), "linea")
    <3> HIDE DEF f
    <3>1. Refleja(s.punto, h, "punto") /\ Refleja(s.linea, h, "linea")
      BY <2>8 DEF Sana, h
    <3>2. s.punto \in Seq(Entrada) /\ s.linea \in Seq(Entrada)
      BY DEF Espacio
    <3>3. CASE f.tipo = "punto"
      BY <2>1, <2>2, <2>4, <2>5, <2>7, <3>1, <3>2, <3>3, ReflejaMas, ReflejaOtro
    <3>4. CASE f.tipo = "linea"
      BY <2>1, <2>2, <2>4, <2>5, <2>7, <3>1, <3>2, <3>4, ReflejaMas, ReflejaOtro
    <3> QED BY <2>2, <3>3, <3>4
  <2>9. Sana(u, n, nub, o)
    BY <2>4, <2>6, <2>8 DEF Sana
  <2>10. ASSUME ~nub PROVE Hereda(u, s, Origen \ {"comuna"})
    <3>1. f.de \in Origen \ {"comuna"}
      <4>1. f.de # "comuna"
        BY <2>1, <2>10 DEF Sana, f
      <4> QED BY <2>1, <4>1 DEF Figura
    <3> HIDE DEF f
    <3> QED BY <2>2, <2>4, <3>1, EspacioCampos, HeredaSi, HeredaMas DEF Hereda
  <2> QED BY <2>4, <2>9, <2>10 DEF u
<1> QED BY <1>2, <1>3, <1>4

SinRepetir(h) == \A i, j \in DOMAIN h : h[i] = h[j] => i = j

(* A figure of the stack that changes its place.                            *)
LEMMA Mueve ==
  ASSUME NEW h \in Seq(Figura), NEW k \in 1..Len(h), NEW q \in 1..Len(h),
         SinRepetir(h)
  PROVE  LET m == InsertAt(RemoveAt(h, k), q, h[k]) IN
         /\ m \in Seq(Figura) /\ Len(m) = Len(h)
         /\ \A i \in DOMAIN m : \E j \in DOMAIN h : m[i] = h[j]
         /\ SinRepetir(m)
         /\ \A i \in 1..q - 1 : m[i] = RemoveAt(h, k)[i]
<1> DEFINE r == RemoveAt(h, k)
           m == InsertAt(r, q, h[k])
           L == Len(h)
<1>0. L \in Nat /\ k \in 1..L /\ q \in 1..L /\ DOMAIN h = 1..L /\ h[k] \in Figura
  OBVIOUS
<1>1. /\ r \in Seq(Figura) /\ Len(r) = L - 1
      /\ \A j \in 1..L - 1 : r[j] = IF j < k THEN h[j] ELSE h[j + 1]
  BY Quita
<1>2. /\ m \in Seq(Figura) /\ Len(m) = Len(r) + 1
      /\ \A j \in 1..Len(r) + 1 : m[j] = IF j < q THEN r[j] ELSE IF j = q THEN h[k] ELSE r[j - 1]
  <2>1. q \in 1..Len(r) + 1
    BY <1>0, <1>1
  <2> HIDE DEF r
  <2> QED BY <1>0, <1>1, <2>1, Inserta
<1> HIDE DEF r, m
<1>3. Len(r) + 1 = L /\ Len(m) = L
  BY <1>0, <1>1, <1>2
<1> DEFINE d(i) == IF i < q THEN (IF i < k THEN i ELSE i + 1)
                   ELSE IF i = q THEN k ELSE (IF i - 1 < k THEN i - 1 ELSE i)
<1>4. ASSUME NEW i \in 1..L PROVE d(i) \in 1..L /\ m[i] = h[d(i)]
  <2>1. CASE i < q
    <3>1. i \in 1..L - 1 /\ m[i] = r[i]
      BY <1>0, <1>2, <1>3, <2>1
    <3> QED BY <1>0, <1>1, <2>1, <3>1
  <2>2. CASE i = q
    BY <1>0, <1>2, <1>3, <2>2
  <2>3. CASE i > q
    <3>1. i - 1 \in 1..L - 1 /\ m[i] = r[i - 1] /\ (i - 1) + 1 = i
      BY <1>0, <1>2, <1>3, <2>3
    <3> QED BY <1>0, <1>1, <2>3, <3>1
  <2> QED BY <1>0, <2>1, <2>2, <2>3
<1>5. \A i, j \in 1..L : d(i) = d(j) => i = j
  BY <1>0
<1> HIDE DEF d, L
<1>6. DOMAIN m = 1..L
  BY <1>2, <1>3
<1>7. \A i, j \in DOMAIN m : m[i] = m[j] => i = j
  BY <1>0, <1>4, <1>5, <1>6 DEF SinRepetir
<1>8. \A i \in DOMAIN m : \E j \in DOMAIN h : m[i] = h[j]
  BY <1>0, <1>4, <1>6
<1>9. \A i \in 1..q - 1 : m[i] = r[i]
  BY <1>0, <1>2, <1>3
<1> QED BY <1>2, <1>3, <1>7, <1>8, <1>9 DEF m, r, L, SinRepetir

(* trash and tremove: the stack.                                            *)
LEMMA ApartaForma ==
  ASSUME NEW s \in Espacio, NEW f \in Figura, s.postack \in -2..Len(s.stack) - 1
  PROVE  LET q == Aparta(s, f)
             k == indexOf(s.stack, f) IN
         \/ q = s /\ \A j \in DOMAIN s.stack : s.stack[j] # f
         \/ /\ k \in 1..Len(s.stack) /\ s.stack[k] = f
            /\ q \in Espacio /\ q.punto = s.punto /\ q.linea = s.linea /\ q.postack = s.postack - 1
            /\ \E m \in 1..Len(s.stack) : /\ s.postack >= 0 => m = s.postack + 1
                                          /\ q.stack = InsertAt(RemoveAt(s.stack, k), m, f)
<1> DEFINE k == indexOf(s.stack, f)
           r == RemoveAt(s.stack, k)
           p == IF s.postack >= 0 THEN s.postack
                ELSE IF r = <<>> THEN 0 ELSE Len(r) - 1
           q == Aparta(s, f)
<1>1. s.stack \in Seq(Figura) /\ Len(s.stack) \in Nat
  BY DEF Espacio
<1>2. \/ k = 0 /\ \A j \in DOMAIN s.stack : s.stack[j] # f
      \/ k \in 1..Len(s.stack) /\ s.stack[k] = f
  BY <1>1, Busca
<1>3. q = IF k = 0 THEN s
          ELSE [s EXCEPT !.stack = InsertAt(r, p + 1, f), !.postack = @ - 1]
  BY DEF Aparta
<1> HIDE DEF k, q
<1>4. CASE k = 0
  <2>1. ~(k \in 1..Len(s.stack))
    BY <1>1, <1>4
  <2> QED BY <1>2, <1>3, <1>4, <2>1 DEF k, q
<1>5. CASE k # 0
  <2>1. k \in 1..Len(s.stack) /\ s.stack[k] = f
    BY <1>2, <1>5
  <2>2. r \in Seq(Figura) /\ Len(r) = Len(s.stack) - 1
    BY <1>1, <2>1, Quita
  <2>3. q = [s EXCEPT !.stack = InsertAt(r, p + 1, f), !.postack = @ - 1]
    BY <1>3, <1>5
  <2>4. p + 1 \in 1..Len(s.stack) /\ (s.postack >= 0 => p + 1 = s.postack + 1)
    <3> HIDE DEF r
    <3>1. CASE s.postack >= 0
      BY <1>1, <3>1
    <3>2. CASE ~(s.postack >= 0)
      <4>1. CASE r = <<>>
        <5>1. p = 0 /\ Len(r) = 0
          BY <3>2, <4>1
        <5> HIDE DEF p
        <5> QED BY <1>1, <2>1, <3>2, <5>1
      <4>2. CASE r # <<>>
        <5>1. p = Len(r) - 1
          BY <3>2, <4>2
        <5>2. Len(r) >= 1
          BY <2>2, <4>2
        <5> HIDE DEF p
        <5> QED BY <1>1, <2>2, <3>2, <5>1, <5>2
      <4> QED BY <4>1, <4>2
    <3> QED BY <3>1, <3>2
  <2> HIDE DEF r, p
  <2>5. InsertAt(r, p + 1, f) \in Seq(Figura)
    <3>1. p + 1 \in 1..Len(r) + 1
      BY <1>1, <2>2, <2>4
    <3> QED BY <2>2, <3>1, Inserta
  <2>6. q = [punto |-> s.punto, linea |-> s.linea, stack |-> InsertAt(r, p + 1, f),
             postack |-> s.postack - 1, type |-> s.type]
    BY <2>3 DEF Espacio
  <2>7. /\ s.punto \in Seq(Entrada) /\ s.linea \in Seq(Entrada)
        /\ s.postack - 1 \in Int /\ s.type \in {1, 2}
    BY EspacioCampos
  <2>8. q \in Espacio
    BY <2>5, <2>6, <2>7, EspacioArma
  <2>9. q.stack = InsertAt(RemoveAt(s.stack, k), p + 1, f)
    BY <2>6 DEF r
  <2> QED BY <2>1, <2>4, <2>6, <2>8, <2>9 DEF k, q
<1> QED BY <1>4, <1>5

(* trash and tremove: both, when the figure is in the list, or no removal    *)
(* had missed its figure before; this one may.                              *)
LEMMA BorraSana ==
  ASSUME NEW s \in Espacio, NEW n, NEW nub, NEW o \in BOOLEAN, Sana(s, n, nub, o), ~nub,
         NEW f \in Figura,
         (\E j \in DOMAIN Hechas(s) : Hechas(s)[j] = f) \/ ~o
  PROVE  /\ Borra(s, f) \in Espacio /\ Sana(Borra(s, f), n, nub, o \/ ~Acierta(s[f.tipo], f))
         /\ Hereda(Borra(s, f), s, {})
<1> DEFINE a == s[f.tipo]
           z == [s EXCEPT ![f.tipo] = Saca(@, f)]
           q == Borra(s, f)
           h == Hechas(s)
           k == indexOf(s.stack, f)
           x == o \/ ~Acierta(a, f)
<1>1. /\ s.postack \in -2..Len(s.stack) - 1 /\ s.stack \in Seq(Figura) /\ Len(s.stack) \in Nat
      /\ s.postack \in Int
  BY DEF Sana, Espacio
<1>2. s.punto \in Seq(Entrada) /\ s.linea \in Seq(Entrada) /\ s.type \in {1, 2}
  BY EspacioCampos
<1>3. f.tipo = "punto" \/ f.tipo = "linea"
  BY FiguraCampos
<1>4. /\ a \in Seq(Entrada)
      /\ f.tipo = "punto" => a = s.punto
      /\ f.tipo = "linea" => a = s.linea
  BY <1>2, <1>3
<1>5. /\ z \in Espacio /\ z.stack = s.stack /\ z.postack = s.postack
      /\ z.punto = IF f.tipo = "punto" THEN Saca(s.punto, f) ELSE s.punto
      /\ z.linea = IF f.tipo = "linea" THEN Saca(s.linea, f) ELSE s.linea
  <2>0. Saca(s.punto, f) \in Seq(Entrada) /\ Saca(s.linea, f) \in Seq(Entrada)
    BY <1>2, SacaDentro
  <2>1. CASE f.tipo = "punto"
    <3>1. z = [s EXCEPT !.punto = Saca(@, f)]
      BY <2>1
    <3> HIDE DEF z
    <3>2. z = [punto |-> Saca(s.punto, f), linea |-> s.linea, stack |-> s.stack,
               postack |-> s.postack, type |-> s.type]
      BY <3>1 DEF Espacio
    <3>3. z \in Espacio
      BY <1>1, <1>2, <2>0, <3>2, EspacioArma
    <3> QED BY <2>1, <3>2, <3>3
  <2>2. CASE f.tipo = "linea"
    <3>1. z = [s EXCEPT !.linea = Saca(@, f)]
      BY <2>2
    <3> HIDE DEF z
    <3>2. z = [punto |-> s.punto, linea |-> Saca(s.linea, f), stack |-> s.stack,
               postack |-> s.postack, type |-> s.type]
      BY <3>1 DEF Espacio
    <3>3. z \in Espacio
      BY <1>1, <1>2, <2>0, <3>2, EspacioArma
    <3> QED BY <2>2, <3>2, <3>3
  <2> QED BY <1>3, <2>1, <2>2
<1>6. q = Aparta(z, f)
  BY DEF Borra
<1>7. /\ h \in Seq(Figura) /\ Len(h) = (IF s.postack = -2 THEN 0 ELSE s.postack + 1)
      /\ \A j \in 1..s.postack + 1 : j \in DOMAIN s.stack /\ h[j] = s.stack[j]
  BY <1>1, HechasForma
<1> HIDE DEF z, q, h, k, a
<1>8. \/ q = z /\ \A j \in DOMAIN s.stack : s.stack[j] # f
      \/ /\ k \in 1..Len(s.stack) /\ s.stack[k] = f
         /\ q \in Espacio /\ q.punto = z.punto /\ q.linea = z.linea /\ q.postack = s.postack - 1
         /\ \E m \in 1..Len(s.stack) : /\ s.postack >= 0 => m = s.postack + 1
                                       /\ q.stack = InsertAt(RemoveAt(s.stack, k), m, f)
  <2>1. z.postack \in -2..Len(z.stack) - 1
    BY <1>1, <1>5
  <2>2. k = indexOf(z.stack, f)
    BY <1>5 DEF k
  <2> QED BY <1>5, <1>6, <2>1, <2>2, ApartaForma
<1>9. \A i \in DOMAIN h : i \in DOMAIN s.stack /\ h[i] = s.stack[i] /\ s.postack >= 0 /\ i \in 1..s.postack + 1
  BY <1>1, <1>7
<1>10. ~o => Refleja(s.punto, h, "punto") /\ Refleja(s.linea, h, "linea")
  BY DEF Sana, h
<1>11. ~o => Refleja(a, h, f.tipo)
  BY <1>3, <1>4, <1>10
(* A removal that finds its figure finds it in the list.                    *)
<1>12. ASSUME ~x
       PROVE  /\ Donde(a, f) \in 1..Len(a) /\ a[Donde(a, f)].ele = f /\ Saca(a, f) = RemoveAt(a, Donde(a, f))
              /\ \E i \in DOMAIN h : h[i] = f
  <2>1. a # <<>> /\ \A j \in DOMAIN a : a[j].ele = f <=> j = Donde(a, f)
    BY <1>12 DEF Acierta
  <2>2. Donde(a, f) \in DOMAIN a /\ Saca(a, f) = RemoveAt(a, Donde(a, f))
    BY <1>4, <2>1, SacaDentro
  <2>3. a[Donde(a, f)].ele = f
    BY <2>1, <2>2
  <2>4. \E i \in DOMAIN h : a[Donde(a, f)].ele = h[i]
    BY <1>11, <1>12, <2>2, ReflejaDentro
  <2> QED BY <1>4, <2>2, <2>3, <2>4
<1>13. ASSUME q = z, \A j \in DOMAIN s.stack : s.stack[j] # f
       PROVE  q \in Espacio /\ Sana(q, n, nub, x)
  <2>1. x
    BY <1>9, <1>12, <1>13
  <2>2. q.postack = -2 => x
    BY <2>1
  <2>3. Sana(q, n, nub, x)
    BY <1>5, <1>13, <2>1 DEF Sana
  <2> QED BY <1>5, <1>13, <2>3
<1>14. ASSUME k \in 1..Len(s.stack), s.stack[k] = f,
              q \in Espacio, q.punto = z.punto, q.linea = z.linea, q.postack = s.postack - 1,
              NEW m \in 1..Len(s.stack), s.postack >= 0 => m = s.postack + 1,
              q.stack = InsertAt(RemoveAt(s.stack, k), m, f)
       PROVE  Sana(q, n, nub, x)
  <2>1. \A i, j \in DOMAIN s.stack : s.stack[i] = s.stack[j] => i = j
    BY DEF Sana
  <2>2. /\ q.stack \in Seq(Figura) /\ Len(q.stack) = Len(s.stack)
        /\ \A i \in DOMAIN q.stack : \E j \in DOMAIN s.stack : q.stack[i] = s.stack[j]
        /\ \A i, j \in DOMAIN q.stack : q.stack[i] = q.stack[j] => i = j
        /\ \A i \in 1..m - 1 : q.stack[i] = RemoveAt(s.stack, k)[i]
    <3>1. q.stack = InsertAt(RemoveAt(s.stack, k), m, s.stack[k])
      BY <1>14
    <3>2. k \in 1..Len(s.stack) /\ m \in 1..Len(s.stack)
      BY <1>14
    <3> DEFINE c == s.stack
               m1 == q.stack
    <3>3. c \in Seq(Figura) /\ SinRepetir(c)
      BY <1>1, <2>1 DEF SinRepetir
    <3>4. k \in 1..Len(c) /\ m \in 1..Len(c) /\ m1 = InsertAt(RemoveAt(c, k), m, c[k])
      BY <3>1, <3>2
    <3> HIDE DEF c, m1
    <3>5. LET v == InsertAt(RemoveAt(c, k), m, c[k]) IN
          /\ v \in Seq(Figura) /\ Len(v) = Len(c)
          /\ \A i \in DOMAIN v : \E j \in DOMAIN c : v[i] = c[j]
          /\ SinRepetir(v)
          /\ \A i \in 1..m - 1 : v[i] = RemoveAt(c, k)[i]
      <4>1. k \in 1..Len(c) /\ m \in 1..Len(c)
        BY <3>4
      <4> QED BY <3>3, <4>1, Mueve
    <3> QED BY <3>4, <3>5 DEF c, m1, SinRepetir
  <2>3. (\E i \in DOMAIN h : h[i] = f) => s.postack >= 0
    BY <1>9
  (* Off the list only when none had been missed, and then this one is.     *)
  <2>4. s.postack < 0 => s.postack = -1 /\ x
    <3>1. SUFFICES ASSUME s.postack < 0 PROVE s.postack = -1 /\ x
      OBVIOUS
    <3>2. ~\E i \in DOMAIN h : h[i] = f
      BY <1>1, <2>3, <3>1
    <3>3. ~o
      BY <3>2 DEF h
    <3>4. s.postack # -2
      BY <3>3 DEF Sana
    <3>5. x
      BY <1>12, <3>2
    <3> QED BY <1>1, <3>1, <3>4, <3>5
  <2>5. q.postack \in -2..Len(q.stack) - 1 /\ (q.postack = -2 => x)
    BY <1>1, <1>14, <2>2, <2>4
  <2>6. \A i \in DOMAIN q.stack : q.stack[i].id <= n /\ (q.stack[i].de = "comuna" => nub)
    BY <2>2 DEF Sana
  <2>7. ASSUME ~x
        PROVE  Refleja(q.punto, Hechas(q), "punto") /\ Refleja(q.linea, Hechas(q), "linea")
    <3>1. PICK i \in DOMAIN h : h[i] = f
      BY <1>12, <2>7
    <3>2. /\ s.postack >= 0 /\ i \in 1..s.postack + 1 /\ i \in DOMAIN s.stack /\ s.stack[i] = f
          /\ m = s.postack + 1
      BY <1>9, <1>14, <3>1
    <3>3. i = k
      BY <1>1, <1>14, <2>1, <3>2
    <3>4. Len(h) = s.postack + 1 /\ k \in 1..Len(h) /\ h[k] = f
      BY <1>1, <1>7, <3>1, <3>2, <3>3
    <3>5. Hechas(q) = RemoveAt(h, k)
      <4>1. /\ Hechas(q) \in Seq(Figura) /\ Len(Hechas(q)) = s.postack
            /\ \A j \in 1..s.postack : Hechas(q)[j] = q.stack[j]
        <5>1. q.postack # -2 /\ q.postack + 1 = s.postack
          BY <1>1, <1>14, <3>2
        <5>2. /\ Hechas(q) \in Seq(Figura) /\ Len(Hechas(q)) = q.postack + 1
              /\ \A j \in 1..q.postack + 1 : Hechas(q)[j] = q.stack[j]
          BY <1>14, <2>5, <5>1, HechasForma
        <5> QED BY <5>1, <5>2
      <4>2. \A j \in 1..s.postack : Hechas(q)[j] = RemoveAt(s.stack, k)[j]
        <5>1. m - 1 = s.postack
          BY <1>1, <3>2
        <5> QED BY <2>2, <4>1, <5>1
      <4>3. /\ RemoveAt(h, k) \in Seq(Figura) /\ Len(RemoveAt(h, k)) = s.postack
            /\ \A j \in 1..s.postack : RemoveAt(h, k)[j] = IF j < k THEN h[j] ELSE h[j + 1]
        <5>1. Len(h) - 1 = s.postack
          BY <1>1, <3>4
        <5> QED BY <1>7, <3>4, <5>1, Quita
      <4>4. \A j \in 1..Len(s.stack) - 1 : RemoveAt(s.stack, k)[j] = IF j < k THEN s.stack[j] ELSE s.stack[j + 1]
        BY <1>1, <1>14, Quita
      <4>5. ASSUME NEW j \in 1..s.postack PROVE Hechas(q)[j] = RemoveAt(h, k)[j]
        <5>1. j \in 1..Len(s.stack) - 1 /\ j \in 1..s.postack + 1 /\ j + 1 \in 1..s.postack + 1
          BY <1>1
        <5>2. h[j] = s.stack[j] /\ h[j + 1] = s.stack[j + 1]
          BY <1>7, <5>1
        <5> QED BY <4>2, <4>3, <4>4, <5>1, <5>2
      <4> QED BY <4>1, <4>3, <4>5, SeqEqual
    <3>6. \A i1, j1 \in DOMAIN h : h[i1] = h[j1] => i1 = j1
      BY <1>9, <2>1
    <3>7. ~o
      BY <2>7
    <3>8. Refleja(Saca(a, f), Hechas(q), f.tipo)
      BY <1>4, <1>7, <1>11, <1>12, <2>7, <3>4, <3>5, <3>6, <3>7, ReflejaQuita
    <3>9. ASSUME NEW t, NEW b \in Seq(Entrada), t # f.tipo, Refleja(b, h, t)
          PROVE  Refleja(b, Hechas(q), t)
      BY <1>7, <3>4, <3>5, <3>9, ReflejaQuitaOtro
    <3>10. CASE f.tipo = "punto"
      BY <1>2, <1>4, <1>5, <1>10, <1>14, <3>7, <3>8, <3>9, <3>10
    <3>11. CASE f.tipo = "linea"
      BY <1>2, <1>4, <1>5, <1>10, <1>14, <3>7, <3>8, <3>9, <3>11
    <3> QED BY <1>3, <3>10, <3>11
  <2> QED BY <2>2, <2>5, <2>6, <2>7 DEF Sana
<1>15. Hereda(q, s, {})
  BY <1>2, <1>5, <1>8, HeredaSi, HeredaMenos DEF Hereda
<1> QED BY <1>8, <1>13, <1>14, <1>15 DEF q, x, a

(* remove_point takes the centroid of a comuna off the points only.         *)
LEMMA SacaSana ==
  ASSUME NEW s \in Espacio, NEW n, NEW nub, NEW o \in BOOLEAN, Sana(s, n, nub, o),
         NEW f \in Figura, f.de = "comuna"
  PROVE  LET q == [s EXCEPT !.punto = Saca(@, f)] IN
         /\ q \in Espacio /\ Sana(q, n, nub, o \/ (s.punto # <<>> /\ ~Acierta(s.punto, f)))
         /\ Hereda(q, s, {})
<1> DEFINE q == [s EXCEPT !.punto = Saca(@, f)]
           x == o \/ (s.punto # <<>> /\ ~Acierta(s.punto, f))
<1>1. /\ s.punto \in Seq(Entrada) /\ s.linea \in Seq(Entrada) /\ s.stack \in Seq(Figura)
      /\ s.postack \in Int /\ s.type \in {1, 2} /\ s.postack \in -2..Len(s.stack) - 1
  BY EspacioCampos DEF Sana
<1>2. Saca(s.punto, f) \in Seq(Entrada)
  BY <1>1, SacaDentro
<1>3. q = [punto |-> Saca(s.punto, f), linea |-> s.linea, stack |-> s.stack,
           postack |-> s.postack, type |-> s.type]
  BY DEF Espacio
<1> HIDE DEF q
<1>4. q \in Espacio
  BY <1>1, <1>2, <1>3, EspacioArma
<1>5. Hechas(q) = Hechas(s)
  BY <1>3 DEF Hechas
<1>6. ASSUME ~nub, ~x
      PROVE  Refleja(q.punto, Hechas(q), "punto") /\ Refleja(q.linea, Hechas(q), "linea")
  <2>1. Refleja(s.punto, Hechas(s), "punto") /\ Refleja(s.linea, Hechas(s), "linea")
    BY <1>6 DEF Sana
  <2>2. CASE s.punto = <<>>
    BY <1>3, <1>5, <2>1, <2>2 DEF Saca
  <2>3. CASE s.punto # <<>>
    <3>1. \A j \in DOMAIN s.punto : s.punto[j].ele = f <=> j = Donde(s.punto, f)
      BY <1>6, <2>3 DEF Acierta
    <3>2. Donde(s.punto, f) \in DOMAIN s.punto
      BY <1>1, <2>3, SacaDentro
    <3>3. s.punto[Donde(s.punto, f)].ele = f
      BY <3>1, <3>2
    <3>4. PICK i \in DOMAIN Hechas(s) : f = Hechas(s)[i]
      BY <2>1, <3>2, <3>3, ReflejaDentro
    <3>5. i \in DOMAIN s.stack /\ s.stack[i] = f
      <4>1. /\ Hechas(s) \in Seq(Figura) /\ Len(Hechas(s)) = (IF s.postack = -2 THEN 0 ELSE s.postack + 1)
            /\ \A j \in 1..s.postack + 1 : j \in DOMAIN s.stack /\ Hechas(s)[j] = s.stack[j]
        BY <1>1, HechasForma
      <4>2. i \in 1..s.postack + 1
        BY <1>1, <4>1
      <4> QED BY <3>4, <4>1, <4>2
    <3> QED BY <1>6, <3>5 DEF Sana
  <2> QED BY <2>2, <2>3
<1>7. Sana(q, n, nub, x)
  BY <1>3, <1>6 DEF Sana
<1>8. Hereda(q, s, {})
  BY <1>1, <1>3, HeredaSi, HeredaMenos DEF Hereda
<1> QED BY <1>4, <1>7, <1>8 DEF q

(* clear_check, and a SPATIAL nothing was drawn in.                         *)
LEMMA VaciaSana ==
  ASSUME NEW s \in Espacio, NEW n, NEW nub, NEW o
  PROVE  /\ clear_check(s) \in Espacio /\ Sana(clear_check(s), n, nub, o)
         /\ clear_check(s) = [punto |-> <<>>, linea |-> <<>>, stack |-> <<>>, postack |-> -1, type |-> s.type]
<1> DEFINE q == clear_check(s)
<1>1. q = [punto |-> <<>>, linea |-> <<>>, stack |-> <<>>, postack |-> -1, type |-> s.type]
  <2>1. s = [punto |-> s.punto, linea |-> s.linea, stack |-> s.stack, postack |-> s.postack, type |-> s.type]
    BY EspacioForma
  <2>2. q = [s EXCEPT !.punto = <<>>, !.linea = <<>>, !.stack = <<>>, !.postack = -1]
    BY DEF clear_check
  <2> HIDE DEF q
  <2> QED BY <2>1, <2>2
<1> HIDE DEF q
<1>2. <<>> \in Seq(Entrada) /\ <<>> \in Seq(Figura) /\ -1 \in Int /\ s.type \in {1, 2}
  BY EspacioCampos
<1>3. q \in Espacio
  BY <1>1, <1>2, EspacioArma
<1>4. DOMAIN <<>> = {} /\ Len(<<>>) = 0
  OBVIOUS
<1>5. Hechas(q) = <<>>
  <2>1. SubSeq(<<>>, 1, 0) = <<>>
    OBVIOUS
  <2> QED BY <1>1, <2>1 DEF Hechas
<1>6. Sana(q, n, nub, o)
  BY <1>1, <1>4, <1>5, ReflejaNada DEF Sana
<1> QED BY <1>1, <1>3, <1>6 DEF q

LEMMA TipoSana ==
  ASSUME NEW s \in Espacio, NEW n, NEW nub, NEW o, Sana(s, n, nub, o), NEW y \in {1, 2}
  PROVE  LET q == [s EXCEPT !.type = y] IN
         /\ q \in Espacio /\ Sana(q, n, nub, o)
         /\ q.punto = s.punto /\ q.linea = s.linea /\ q.stack = s.stack /\ q.postack = s.postack
<1> DEFINE q == [s EXCEPT !.type = y]
<1>1. q = [punto |-> s.punto, linea |-> s.linea, stack |-> s.stack, postack |-> s.postack, type |-> y]
  BY EspacioForma
<1> HIDE DEF q
<1>2. q \in Espacio
  BY <1>1, EspacioCampos, EspacioArma
<1>3. Hechas(q) = Hechas(s)
  BY <1>1 DEF Hechas
<1>4. Sana(q, n, nub, o)
  BY <1>1, <1>3 DEF Sana
<1> QED BY <1>1, <1>2, <1>4 DEF q

-------------------------------------------------------------------------------
(* Reading a file, placemark by placemark.                                  *)

Inicio == [spatial |-> spatial, ids |-> ids, lista |-> lista, fallo |-> FALSE]
Lectura(c, a, n) == c = [k \in 0..n |-> IF k = 0 THEN Inicio ELSE Placemark(c[k - 1], a[k])]

LEMMA LecturaHay ==
  ASSUME NEW a, NEW n \in Nat
  PROVE  \E c : Lectura(c, a, n)
<1> DEFINE T == {m \in Nat : \E c : Lectura(c, a, m)}
<1>1. 0 \in T
  <2> DEFINE c == [k \in 0..0 |-> Inicio]
  <2>1. c = [k \in 0..0 |-> IF k = 0 THEN Inicio ELSE Placemark(c[k - 1], a[k])]
    OBVIOUS
  <2> HIDE DEF c
  <2>2. Lectura(c, a, 0)
    BY <2>1 DEF Lectura
  <2> QED BY <2>2
<1>2. ASSUME NEW m \in Nat, m \in T PROVE m + 1 \in T
  <2>1. PICK f : Lectura(f, a, m)
    BY <1>2
  <2> DEFINE x == Placemark(f[m], a[m + 1])
             g == [k \in 0..m + 1 |-> IF k <= m THEN f[k] ELSE x]
             w == [k \in 0..m + 1 |-> IF k = 0 THEN Inicio ELSE Placemark(g[k - 1], a[k])]
  <2>2. \A k \in 0..m : f[k] = IF k = 0 THEN Inicio ELSE Placemark(f[k - 1], a[k])
    BY <2>1 DEF Lectura
  <2>3. ASSUME NEW k \in 0..m + 1 PROVE g[k] = w[k]
    <3>1. CASE k = 0
      BY <2>2, <3>1
    <3>2. CASE k # 0 /\ k <= m
      <4>1. k \in 0..m /\ k - 1 \in 0..m + 1 /\ k - 1 <= m
        BY <3>2
      <4>2. g[k] = f[k] /\ g[k - 1] = f[k - 1]
        BY <3>2, <4>1
      <4> HIDE DEF g
      <4> QED BY <2>2, <3>2, <4>1, <4>2
    <3>3. CASE ~(k <= m)
      <4>1. k = m + 1 /\ k # 0 /\ k - 1 = m /\ m \in 0..m + 1
        BY <3>3
      <4>2. g[k] = x /\ g[k - 1] = f[m]
        BY <3>3, <4>1
      <4> HIDE DEF g
      <4> QED BY <4>1, <4>2
    <3> QED BY <3>1, <3>2, <3>3
  <2>4. g = w
    BY <2>3
  <2>5. Lectura(g, a, m + 1)
    <3> HIDE DEF g
    <3> QED BY <2>4 DEF Lectura
  <2> QED BY <2>5
<1> HIDE DEF T
<1>3. n \in T
  BY <1>1, <1>2, Induccion
<1> QED BY <1>3 DEF T

LEMMA CargaLectura ==
  ASSUME NEW a, Len(a) \in Nat
  PROVE  \E c : Lectura(c, a, Len(a)) /\ Carga(a) = c[Len(a)]
<1> DEFINE c == CHOOSE c : c = [k \in 0..Len(a) |-> IF k = 0 THEN Inicio ELSE Placemark(c[k - 1], a[k])]
<1>1. \E d : d = [k \in 0..Len(a) |-> IF k = 0 THEN Inicio ELSE Placemark(d[k - 1], a[k])]
  BY LecturaHay DEF Lectura
<1>2. c = [k \in 0..Len(a) |-> IF k = 0 THEN Inicio ELSE Placemark(c[k - 1], a[k])]
  BY <1>1
<1>3. Carga(a) = c[Len(a)]
  BY DEF Carga, Inicio
<1> HIDE DEF c
<1> QED BY <1>2, <1>3 DEF Lectura

-------------------------------------------------------------------------------
(* The page. A removal can only miss its figure when the figure is not in    *)
(* the list, and only the array tells: so the types need the invariant.      *)

Sanas(S, n, nub, o) == \A l \in Lineas : Sana(S[l], n, nub, o[l])

InvSana == Sanas(spatial, ids, noubication, otra)
InvCaja == /\ noubication /\ popup # <<>> => BLOCK_SPATIAL
           /\ \A c \in comunas : c[2].de = "comuna"
TInv    == TypeOK /\ InvSana /\ InvCaja

(* The types without those of the SPATIALs and the count of figures.         *)
TipoPagina ==
  /\ actual \in Lineas /\ lista \in Lineas
  /\ ID_BUSY \in {-1, 1, 2, 3} /\ tool \in 1..3
  /\ noubication \in BOOLEAN /\ BLOCK_SPATIAL \in BOOLEAN
  /\ clic \in {"nada", "punto", "linea", "regla"} /\ trazo \in -1..1
  /\ cerca \in BOOLEAN /\ barra \in [tools : BOOLEAN, undo : BOOLEAN, redo : BOOLEAN]
  /\ kml \in 0..N /\ leyendo \in BOOLEAN
  /\ popup \in (Lineas \X Figura) \cup {<<>>}
  /\ comunas \subseteq Lineas \X Figura
  /\ ajena \in BOOLEAN
TipoLineas ==
  /\ spatial \in [Lineas -> Espacio] /\ ids \in 0..MaxFiguras
  /\ otra \in [Lineas -> BOOLEAN]

LEMMA TInvPartes == TInv <=> TipoPagina /\ TipoLineas /\ InvSana /\ InvCaja
<1>1. ASSUME TInv PROVE TipoPagina /\ TipoLineas /\ InvSana /\ InvCaja
  BY <1>1 DEF TInv, TypeOK, TipoPagina, TipoLineas, Espacio
<1>2. ASSUME TipoPagina, TipoLineas, InvSana, InvCaja PROVE TInv
  BY <1>2 DEF TInv, TypeOK, TipoPagina, TipoLineas, Espacio, InvSana, Sanas, Sana
<1> QED BY <1>1, <1>2

LEMMA TInvSigue == TipoPagina' /\ TipoLineas' /\ InvSana' /\ InvCaja' => TInv'
  BY DEF TInv, TypeOK, TipoPagina, TipoLineas, Espacio, InvSana, Sanas, Sana

LEMMA SanasCrece ==
  ASSUME NEW S \in [Lineas -> Espacio], NEW n \in Nat, NEW m \in Nat, n <= m, NEW nub, NEW o,
         Sanas(S, n, nub, o)
  PROVE  Sanas(S, m, nub, o)
  BY SanaCrece DEF Sanas

(* One line changes.                                                       *)
LEMMA UnaLinea ==
  ASSUME NEW S \in [Lineas -> Espacio], NEW n \in Nat, NEW m \in Nat, n <= m, NEW nub,
         NEW o, NEW o2 \in [Lineas -> BOOLEAN], Sanas(S, n, nub, o),
         NEW l \in Lineas, NEW s \in Espacio, Sana(s, m, nub, o2[l]),
         \A k \in Lineas \ {l} : o2[k] = o[k]
  PROVE  [S EXCEPT ![l] = s] \in [Lineas -> Espacio] /\ Sanas([S EXCEPT ![l] = s], m, nub, o2)
<1>1. Sanas(S, m, nub, o)
  BY SanasCrece
<1>2. ASSUME NEW k \in Lineas PROVE Sana([S EXCEPT ![l] = s][k], m, nub, o2[k])
  BY <1>1 DEF Sanas
<1> QED BY <1>2 DEF Sanas

LEMMA UnaLineaMas ==
  ASSUME NEW S \in [Lineas -> Espacio], NEW n \in Nat, NEW nub,
         NEW o \in [Lineas -> BOOLEAN], Sanas(S, n, nub, o),
         NEW l \in Lineas, NEW s \in Espacio, NEW m \in Nat, n <= m, Sana(s, m, nub, o[l])
  PROVE  [S EXCEPT ![l] = s] \in [Lineas -> Espacio] /\ Sanas([S EXCEPT ![l] = s], m, nub, o)
<1>1. \A k \in Lineas \ {l} : o[k] = o[k]
  OBVIOUS
<1> QED BY <1>1, UnaLinea

(* The line begun, if it is kept.                                           *)
LEMMA TrazoSana ==
  ASSUME TInv, stop_line
  PROVE  /\ ids' \in 0..MaxFiguras /\ ids <= ids' /\ ConTrazo \in [Lineas -> Espacio]
         /\ Sanas(ConTrazo, ids', noubication, otra)
         /\ ConTrazo = [spatial EXCEPT ![actual] = ConTrazo[actual]]
<1>1. /\ spatial \in [Lineas -> Espacio] /\ ids \in 0..MaxFiguras /\ actual \in Lineas
      /\ trazo \in -1..1 /\ Sanas(spatial, ids, noubication, otra) /\ otra \in [Lineas -> BOOLEAN]
      /\ MaxFiguras \in Nat
  BY TInvPartes, TrazadoAssumption DEF TipoPagina, TipoLineas, InvSana
<1>2. CASE trazo = 1
  <2> DEFINE f == Nueva("linea", "mano")
             s == Pone(spatial[actual], f)
  <2>1. ids' = ids + 1 /\ ids < MaxFiguras /\ ConTrazo = [spatial EXCEPT ![actual] = s]
    BY <1>2 DEF stop_line, ConTrazo
  <2>2. f \in Figura /\ f.id = ids + 1 /\ f.de = "mano"
    BY <1>1, <2>1 DEF Nueva, Figura, Tipos, Origen
  <2>3. spatial[actual] \in Espacio /\ Sana(spatial[actual], ids, noubication, otra[actual])
    BY <1>1 DEF Sanas
  <2> HIDE DEF f
  <2>4. s \in Espacio
    BY <2>2, <2>3, PoneForma DEF Sana
  <2>5. Sana(s, f.id, noubication, otra[actual])
    BY <1>1, <2>2, <2>3, PoneSana
  <2> HIDE DEF s
  <2>6. ids \in Nat /\ ids + 1 \in Nat /\ ids <= ids + 1
    BY <1>1
  <2>7. /\ ConTrazo \in [Lineas -> Espacio] /\ Sanas(ConTrazo, ids + 1, noubication, otra)
    <3>1. Sana(s, ids + 1, noubication, otra[actual])
      BY <2>2, <2>5
    <3>2. /\ [spatial EXCEPT ![actual] = s] \in [Lineas -> Espacio]
          /\ Sanas([spatial EXCEPT ![actual] = s], ids + 1, noubication, otra)
      BY <1>1, <2>4, <2>6, <3>1, UnaLineaMas
    <3> QED BY <2>1, <3>2
  <2>8. ConTrazo = [spatial EXCEPT ![actual] = ConTrazo[actual]]
    BY <1>1, <2>1
  <2> QED BY <1>1, <2>1, <2>7, <2>8
<1>3. CASE trazo # 1
  <2>1. ids' = ids /\ ConTrazo = spatial
    BY <1>1, <1>3 DEF stop_line, ConTrazo
  <2> QED BY <1>1, <2>1
<1> QED BY <1>2, <1>3

(* Every figure of a is the lock's b; of a line, and of every line.         *)
De(a, b)      == \A k \in DOMAIN a : b \in Duenio[a[k].ele.de]
DeLlave(s, b) == De(s.punto, b) /\ De(s.linea, b)
Llaves(S, b)  == \A l \in Lineas : DeLlave(S[l], b)

LEMMA HeredaLlave ==
  ASSUME NEW u, NEW s, NEW D, NEW b, Hereda(u, s, D), DeLlave(s, b), \A d \in D : b \in Duenio[d]
  PROVE  DeLlave(u, b)
<1>1. ASSUME NEW c, NEW a, HeredaDe(c, a, D), De(a, b) PROVE De(c, b)
  BY <1>1 DEF HeredaDe, De
<1> QED BY <1>1 DEF Hereda, DeLlave

LEMMA UnaLlave ==
  ASSUME NEW S \in [Lineas -> Espacio], NEW b, Llaves(S, b), NEW l \in Lineas, NEW s, DeLlave(s, b)
  PROVE  Llaves([S EXCEPT ![l] = s], b)
  BY DEF Llaves

(* What a file leaves after n placemarks.                                   *)
Leido(c, n) ==
  /\ c.spatial \in [Lineas -> Espacio] /\ c.ids \in Nat /\ ids <= c.ids /\ c.ids <= ids + n
  /\ c.lista \in Lineas /\ c.fallo \in BOOLEAN
  /\ Sanas(c.spatial, c.ids, noubication, otra)
  /\ Llaves(spatial, 2) => Llaves(c.spatial, 2)

LEMMA PlacemarkLee ==
  ASSUME TInv, NEW c, NEW n \in Nat, Leido(c, n), NEW l \in 0..N, ids + n + 1 <= MaxFiguras
  PROVE  Leido(Placemark(c, l), n + 1)
<1>0. /\ ids \in Nat /\ lista \in Lineas /\ N \in Nat /\ MaxFiguras \in Nat
      /\ otra \in [Lineas -> BOOLEAN] /\ Lineas = 1..N
  BY TInvPartes, TrazadoAssumption DEF TipoPagina, TipoLineas, Lineas
<1>1. CASE c.fallo \/ l = 0
  <2>1. Placemark(c, l) = [c EXCEPT !.fallo = TRUE]
    BY <1>1 DEF Placemark
  <2>2. /\ Placemark(c, l).spatial = c.spatial /\ Placemark(c, l).ids = c.ids
        /\ Placemark(c, l).lista = c.lista /\ Placemark(c, l).fallo \in BOOLEAN
    BY <2>1
  <2> QED BY <1>0, <2>2 DEF Leido
<1>2. CASE ~(c.fallo \/ l = 0)
  <2> DEFINE f == [id |-> c.ids + 1, tipo |-> "punto", de |-> "kml"]
             p == Pone(c.spatial[l], f)
             s == [p EXCEPT !.type = 2]
  <2>1. Placemark(c, l) = [spatial |-> [c.spatial EXCEPT ![l] = s], ids |-> f.id,
                           lista |-> IF noubication THEN lista ELSE l, fallo |-> Rota(s)]
    BY <1>2 DEF Placemark
  <2>2. l \in Lineas
    BY <1>0, <1>2
  <2>3. /\ c.ids \in Nat /\ c.ids <= ids + n /\ ids <= c.ids
        /\ c.spatial \in [Lineas -> Espacio] /\ Sanas(c.spatial, c.ids, noubication, otra)
    BY DEF Leido
  <2>4. c.ids + 1 \in 1..MaxFiguras
    BY <1>0, <2>3
  <2>5. f \in Figura /\ f.id = c.ids + 1 /\ f.de = "kml"
    BY <2>4 DEF Figura, Tipos, Origen
  <2>6. c.spatial[l] \in Espacio /\ Sana(c.spatial[l], c.ids, noubication, otra[l])
    BY <2>2, <2>3 DEF Sanas
  <2> HIDE DEF f
  <2>7. p \in Espacio
    BY <2>5, <2>6, PoneForma DEF Sana
  <2>8. Sana(p, f.id, noubication, otra[l])
    <3>1. f.id > c.ids
      BY <2>3, <2>5
    <3> QED BY <2>3, <2>5, <2>6, <3>1, PoneSana
  <2> HIDE DEF p
  <2>9. s \in Espacio /\ Sana(s, f.id, noubication, otra[l]) /\ s.punto = p.punto /\ s.linea = p.linea
    BY <2>7, <2>8, TipoSana
  <2> HIDE DEF s
  <2>12. ASSUME Llaves(spatial, 2) PROVE Llaves([c.spatial EXCEPT ![l] = s], 2)
    <3>1. Llaves(c.spatial, 2)
      BY <2>12 DEF Leido
    <3>2. DeLlave(c.spatial[l], 2)
      BY <2>2, <3>1 DEF Llaves
    <3>3. Hereda(p, c.spatial[l], {f.de})
      BY <2>5, <2>6, PoneHereda DEF Sana, p
    <3>4. \A d \in {f.de} : 2 \in Duenio[d]
      BY <2>5 DEF Duenio
    <3>5. DeLlave(p, 2)
      BY <3>2, <3>3, <3>4, HeredaLlave
    <3>6. DeLlave(s, 2)
      BY <2>9, <3>5 DEF DeLlave
    <3> QED BY <2>2, <2>3, <3>1, <3>6, UnaLlave
  <2>10. /\ [c.spatial EXCEPT ![l] = s] \in [Lineas -> Espacio]
         /\ Sanas([c.spatial EXCEPT ![l] = s], f.id, noubication, otra)
    <3>1. f.id \in Nat /\ c.ids <= f.id
      BY <2>3, <2>5
    <3> QED BY <1>0, <2>2, <2>3, <2>9, <3>1, UnaLinea
  <2>11. /\ f.id \in Nat /\ ids <= f.id /\ f.id <= ids + (n + 1)
         /\ (IF noubication THEN lista ELSE l) \in Lineas /\ Rota(s) \in BOOLEAN
    BY <1>0, <2>2, <2>3, <2>5 DEF Rota
  <2> QED BY <2>1, <2>10, <2>11, <2>12 DEF Leido
<1> QED BY <1>1, <1>2

LEMMA CargaLee ==
  ASSUME TInv, NEW a \in Archivos, ids + Len(a) <= MaxFiguras
  PROVE  Leido(Carga(a), Len(a))
<1>1. a \in Seq(0..N) /\ Len(a) \in Nat /\ MaxFiguras \in Nat
  BY TrazadoAssumption
<1>2. /\ ids \in Nat /\ lista \in Lineas /\ spatial \in [Lineas -> Espacio]
      /\ Sanas(spatial, ids, noubication, otra)
  BY TInvPartes, TrazadoAssumption DEF TipoPagina, TipoLineas, InvSana
<1>3. PICK c : Lectura(c, a, Len(a)) /\ Carga(a) = c[Len(a)]
  BY <1>1, CargaLectura
<1>4. \A k \in 0..Len(a) : c[k] = IF k = 0 THEN Inicio ELSE Placemark(c[k - 1], a[k])
  BY <1>3 DEF Lectura
<1> DEFINE T == {n \in Nat : n <= Len(a) => Leido(c[n], n)}
<1>5. 0 \in T
  <2>1. c[0] = Inicio
    BY <1>1, <1>4
  <2>2. Leido(Inicio, 0)
    BY <1>2 DEF Leido, Inicio
  <2> QED BY <2>1, <2>2
<1>6. ASSUME NEW n \in Nat, n \in T PROVE n + 1 \in T
  <2>1. SUFFICES ASSUME n + 1 <= Len(a) PROVE Leido(c[n + 1], n + 1)
    OBVIOUS
  <2>2. Leido(c[n], n)
    BY <1>1, <1>6, <2>1
  <2>3. c[n + 1] = Placemark(c[n], a[n + 1])
    <3>1. n + 1 \in 0..Len(a) /\ n + 1 # 0 /\ (n + 1) - 1 = n
      BY <1>1, <2>1
    <3> QED BY <1>4, <3>1
  <2>4. a[n + 1] \in 0..N
    <3>1. n + 1 \in 1..Len(a)
      BY <1>1, <2>1
    <3>2. \A S : \A x \in Seq(S) : \A i \in 1..Len(x) : x[i] \in S
      BY ElementOfSeq
    <3> QED BY <1>1, <3>1, <3>2
  <2>5. ids + n + 1 <= MaxFiguras
    BY <1>1, <1>2, <2>1
  <2> QED BY <2>2, <2>3, <2>4, <2>5, PlacemarkLee
<1> HIDE DEF T
<1>7. Len(a) \in T
  BY <1>1, <1>5, <1>6, Induccion
<1> QED BY <1>1, <1>3, <1>7 DEF T

(* The parts of the page that many actions share.                           *)
Barra == [tools : BOOLEAN, undo : BOOLEAN, redo : BOOLEAN]

LEMMA BarraTipos ==
  ASSUME NEW b \in Barra, NEW x \in BOOLEAN, NEW y \in BOOLEAN
  PROVE  /\ [b EXCEPT !.redo = x] \in Barra /\ [b EXCEPT !.undo = x, !.redo = y] \in Barra
         /\ Oculta \in Barra /\ verify_draw(b) \in Barra
  BY DEF Barra, Oculta, verify_draw

LEMMA Quieta ==
  ASSUME TInv, UNCHANGED <<spatial, ids, noubication, otra>>
  PROVE  TipoLineas' /\ InvSana'
<1>1. TipoLineas /\ InvSana
  BY TInvPartes
<1>2. TipoLineas'
  BY <1>1 DEF TipoLineas
<1>3. InvSana'
  BY <1>1 DEF InvSana
<1> QED BY <1>2, <1>3

LEMMA UnaQuieta ==
  ASSUME TInv, NEW S, NEW n, S \in [Lineas -> Espacio], n \in 0..MaxFiguras,
         Sanas(S, n, noubication, otra),
         spatial' = S, ids' = n, UNCHANGED <<noubication, otra>>
  PROVE  TipoLineas' /\ InvSana'
<1>1. TipoLineas
  BY TInvPartes
<1>2. TipoLineas'
  BY <1>1 DEF TipoLineas
<1>3. InvSana'
  BY DEF InvSana
<1> QED BY <1>2, <1>3

LEMMA Hay == Lineas = 1..N /\ N \in Nat /\ 1 \in Lineas /\ N \in Lineas /\ MaxFiguras \in Nat
  BY TrazadoAssumption DEF Lineas

LEMMA THerramienta ==
  ASSUME TInv, ajena' \in BOOLEAN, Herramienta
  PROVE  TInv'
<1>1. TipoPagina /\ TipoLineas /\ InvSana /\ InvCaja
  BY TInvPartes
<1>2. barra \in Barra
  BY <1>1 DEF TipoPagina, Barra
<1>3. CASE addMarker
  <2>1. stop_line /\ spatial' = ConTrazo /\ UNCHANGED <<noubication, otra>>
    BY <1>3 DEF addMarker, locales
  <2>2. TipoLineas' /\ InvSana'
    BY <2>1, TrazoSana, UnaQuieta
  <2>3. TipoPagina'
    BY <1>1, <1>3 DEF addMarker, TipoPagina, Toma, SYNC, SinTrazo, Lista, draw_list, locales
  <2>4. InvCaja'
    BY <1>1, <1>3 DEF addMarker, InvCaja, locales
  <2> QED BY <2>2, <2>3, <2>4, TInvSigue
<1>4. CASE addLinea
  <2>1. stop_line /\ spatial' = ConTrazo /\ UNCHANGED <<noubication, otra>>
    BY <1>4 DEF addLinea, locales
  <2>2. TipoLineas' /\ InvSana'
    BY <2>1, TrazoSana, UnaQuieta
  <2>3. barra' \in Barra
    BY <1>2, <1>4, BarraTipos DEF addLinea
  <2>4. TipoPagina'
    BY <1>1, <1>4, <2>3 DEF addLinea, TipoPagina, Barra, Toma, SYNC, SinTrazo, Lista, draw_list, locales
  <2>5. InvCaja'
    BY <1>1, <1>4 DEF addLinea, InvCaja, locales
  <2> QED BY <2>2, <2>4, <2>5, TInvSigue
<1>5. CASE regla
  <2>1. TipoLineas' /\ InvSana'
    BY <1>5, Quieta DEF regla, locales
  <2>2. TipoPagina'
    BY <1>1, <1>5 DEF regla, TipoPagina, Toma, SYNC, locales
  <2>3. InvCaja'
    BY <1>1, <1>5 DEF regla, InvCaja, locales
  <2> QED BY <2>1, <2>2, <2>3, TInvSigue
<1>6. CASE pan
  <2>1. TipoLineas' /\ InvSana'
    BY <1>6, Quieta DEF pan, locales
  <2>2. TipoPagina'
    BY <1>1, <1>6 DEF pan, TipoPagina, locales
  <2>3. InvCaja'
    BY <1>1, <1>6 DEF pan, InvCaja, locales
  <2> QED BY <2>1, <2>2, <2>3, TInvSigue
<1>7. CASE undoNodes \/ redoNodes
  <2> DEFINE s == IF undoNodes THEN undo(ConTrazo[actual]) ELSE forward(ConTrazo[actual])
  <2>1. /\ stop_line /\ UNCHANGED <<noubication, otra>>
        /\ spatial' = [spatial EXCEPT ![actual] = s] \/ spatial' = ConTrazo
    BY <1>7 DEF undoNodes, redoNodes, locales
  <2>2. /\ actual \in Lineas /\ spatial \in [Lineas -> Espacio]
        /\ ids \in 0..MaxFiguras /\ otra \in [Lineas -> BOOLEAN]
    BY <1>1 DEF TipoPagina, TipoLineas
  <2>3. /\ ids' \in 0..MaxFiguras /\ ids <= ids' /\ ConTrazo \in [Lineas -> Espacio]
        /\ Sanas(ConTrazo, ids', noubication, otra)
        /\ ConTrazo = [spatial EXCEPT ![actual] = ConTrazo[actual]]
    BY <2>1, TrazoSana
  <2>4. ConTrazo[actual] \in Espacio /\ Sana(ConTrazo[actual], ids', noubication, otra[actual])
    BY <2>2, <2>3 DEF Sanas
  <2>5. s \in Espacio /\ Sana(s, ids', noubication, otra[actual])
    BY <2>4, UndoSana, ForwardSana
  <2> HIDE DEF s
  <2>6. [spatial EXCEPT ![actual] = s] = [ConTrazo EXCEPT ![actual] = s]
    BY <2>2, <2>3
  <2>7. /\ [ConTrazo EXCEPT ![actual] = s] \in [Lineas -> Espacio]
        /\ Sanas([ConTrazo EXCEPT ![actual] = s], ids', noubication, otra)
    <3>1. ids' \in Nat /\ ids' <= ids'
      BY <2>3, Hay
    <3> QED BY <2>2, <2>3, <2>5, <3>1, UnaLineaMas
  <2>8. TipoLineas' /\ InvSana'
    <3>1. spatial' \in [Lineas -> Espacio] /\ Sanas(spatial', ids', noubication, otra)
      BY <2>1, <2>3, <2>6, <2>7
    <3> QED BY <2>1, <2>3, <3>1, UnaQuieta
  <2>9. TipoPagina'
    <3>1. ID_BUSY' \in {-1, 1, 2, 3} /\ lista' \in Lineas
      BY <1>1, <1>7 DEF undoNodes, redoNodes, TipoPagina, Libera, Toma, SYNC, Lista, draw_list
    <3>2. barra' \in [tools : BOOLEAN, undo : BOOLEAN, redo : BOOLEAN]
      <4>1. ASSUME NEW q PROVE Botones(q) \in Barra
        <5>1. more_undo(q) \in BOOLEAN /\ more_forward(q) \in BOOLEAN
          BY DEF more_undo, more_forward
        <5>2. [barra EXCEPT !.undo = more_undo(q), !.redo = more_forward(q)] \in Barra
          BY <1>2, <5>1, BarraTipos
        <5> QED BY <5>2 DEF Botones
      <4>2. \/ barra' = barra \/ barra' = Botones(undo(ConTrazo[actual]))
            \/ barra' = Botones(forward(ConTrazo[actual]))
        BY <1>7 DEF undoNodes, redoNodes
      <4> QED BY <1>2, <4>1, <4>2 DEF Barra
    <3>3. /\ clic' = SinTrazo /\ trazo' = -1
          /\ UNCHANGED <<actual, locales, cerca, popup>>
      BY <1>7 DEF undoNodes, redoNodes
    <3> QED BY <1>1, <3>1, <3>2, <3>3 DEF TipoPagina, SinTrazo, locales
  <2>10. InvCaja'
    <3>1. UNCHANGED <<noubication, popup, BLOCK_SPATIAL, comunas>>
      BY <1>7 DEF undoNodes, redoNodes, locales
    <3> QED BY <1>1, <3>1 DEF InvCaja
  <2> QED BY <2>8, <2>9, <2>10, TInvSigue
<1> QED BY <1>3, <1>4, <1>5, <1>6, <1>7 DEF Herramienta

LEMMA TMapa ==
  ASSUME TInv, ajena' \in BOOLEAN, Mapa
  PROVE  TInv'
<1>1. TipoPagina /\ TipoLineas /\ InvSana /\ InvCaja
  BY TInvPartes
<1>2. barra \in Barra
  BY <1>1 DEF TipoPagina, Barra
<1>3. CASE clicPunto
  <2> DEFINE f == Nueva("punto", "mano")
             p == Pone(spatial[actual], f)
             s == [p EXCEPT !.type = 1]
  <2>1. /\ ids < MaxFiguras /\ spatial' = [spatial EXCEPT ![actual] = s] /\ ids' = ids + 1
        /\ barra' = [barra EXCEPT !.undo = s.stack # <<>>, !.redo = FALSE]
        /\ UNCHANGED <<noubication, otra>>
    BY <1>3 DEF clicPunto, locales
  <2>2. /\ actual \in Lineas /\ spatial \in [Lineas -> Espacio] /\ ids \in 0..MaxFiguras
        /\ otra \in [Lineas -> BOOLEAN] /\ Sanas(spatial, ids, noubication, otra)
    BY <1>1 DEF TipoPagina, TipoLineas, InvSana
  <2>3. f \in Figura /\ f.id = ids + 1 /\ f.de = "mano"
    BY <2>1, <2>2, Hay DEF Nueva, Figura, Tipos, Origen
  <2>4. spatial[actual] \in Espacio /\ Sana(spatial[actual], ids, noubication, otra[actual])
    BY <2>2 DEF Sanas
  <2>5. ids \in Nat /\ ids + 1 \in Nat /\ ids <= ids + 1 /\ ids + 1 \in 0..MaxFiguras
    BY <2>1, <2>2, Hay
  <2> HIDE DEF f
  <2>6. p \in Espacio
    BY <2>3, <2>4, PoneForma DEF Sana
  <2>7. Sana(p, ids + 1, noubication, otra[actual])
    <3>1. f.id > ids /\ (f.de = "comuna" => noubication)
      BY <2>3, <2>5
    <3>2. Sana(p, f.id, noubication, otra[actual])
      BY <2>3, <2>4, <2>5, <3>1, PoneSana
    <3> QED BY <2>3, <3>2
  <2> HIDE DEF p
  <2>8. s \in Espacio /\ Sana(s, ids + 1, noubication, otra[actual])
    BY <2>6, <2>7, TipoSana
  <2> HIDE DEF s
  <2>9. /\ [spatial EXCEPT ![actual] = s] \in [Lineas -> Espacio]
        /\ Sanas([spatial EXCEPT ![actual] = s], ids + 1, noubication, otra)
    BY <2>2, <2>5, <2>8, UnaLineaMas
  <2>10. TipoLineas' /\ InvSana'
    BY <2>1, <2>5, <2>9, UnaQuieta
  <2>11. barra' \in Barra
    <3>1. (s.stack # <<>>) \in BOOLEAN
      OBVIOUS
    <3> QED BY <1>2, <2>1, <3>1, BarraTipos
  <2>12. TipoPagina'
    BY <1>1, <1>3, <2>11 DEF clicPunto, TipoPagina, Barra, draw_list, locales, mapa
  <2>13. InvCaja'
    BY <1>1, <1>3 DEF clicPunto, InvCaja, locales
  <2> QED BY <2>10, <2>12, <2>13, TInvSigue
<1>4. CASE clicLinea
  <2>1. TipoLineas' /\ InvSana'
    BY <1>4, Quieta DEF clicLinea, locales
  <2>2. TipoPagina'
    BY <1>1, <1>4 DEF clicLinea, TipoPagina, locales
  <2>3. InvCaja'
    BY <1>1, <1>4 DEF clicLinea, InvCaja, locales
  <2> QED BY <2>1, <2>2, <2>3, TInvSigue
<1>5. CASE dblclick
  <2>1. stop_line /\ spatial' = ConTrazo /\ UNCHANGED <<noubication, otra>>
    BY <1>5 DEF dblclick, locales
  <2>2. TipoLineas' /\ InvSana'
    BY <2>1, TrazoSana, UnaQuieta
  <2>3. TipoPagina'
    BY <1>1, <1>5 DEF dblclick, TipoPagina, draw_list, locales
  <2>4. InvCaja'
    BY <1>1, <1>5 DEF dblclick, InvCaja, locales
  <2> QED BY <2>2, <2>3, <2>4, TInvSigue
<1>6. ASSUME NEW c \in BOOLEAN, zoom_changed(c) PROVE TInv'
  <2>1. TipoLineas' /\ InvSana'
    BY <1>6, Quieta DEF zoom_changed, locales
  <2>2. barra' \in Barra
    BY <1>6 DEF zoom_changed, Barra
  <2>3. TipoPagina'
    BY <1>1, <1>6, <2>2 DEF zoom_changed, TipoPagina, locales, Barra
  <2>4. InvCaja'
    BY <1>1, <1>6 DEF zoom_changed, InvCaja, locales
  <2> QED BY <2>1, <2>3, <2>4, TInvSigue
<1> QED BY <1>3, <1>4, <1>5, <1>6 DEF Mapa

LEMMA TKml ==
  ASSUME TInv, ajena' \in BOOLEAN, Kml
  PROVE  TInv'
<1>1. TipoPagina /\ TipoLineas /\ InvSana /\ InvCaja
  BY TInvPartes
<1>2. barra \in Barra
  BY <1>1 DEF TipoPagina, Barra
<1>3. ASSUME NEW r \in {"cancela", "otro tipo", "lee"}, adjunta(r) PROVE TInv'
  <2>1. TipoLineas' /\ InvSana'
    BY <1>3, Quieta DEF adjunta
  <2>2. TipoPagina'
    BY <1>1, <1>3 DEF adjunta, TipoPagina, SYNC
  <2>3. InvCaja'
    BY <1>1, <1>3 DEF adjunta, InvCaja
  <2> QED BY <2>1, <2>2, <2>3, TInvSigue
<1>4. ASSUME NEW a \in Archivos, onload(a) PROVE TInv'
  <2>1. /\ ids + Len(a) <= MaxFiguras /\ spatial' = Carga(a).spatial /\ ids' = Carga(a).ids
        /\ UNCHANGED <<noubication, otra>>
    BY <1>4 DEF onload
  <2>2. Leido(Carga(a), Len(a))
    BY <2>1, CargaLee
  <2>3. a \in Seq(0..N) /\ a # <<>>
    BY TrazadoAssumption
  <2>4. /\ Carga(a).spatial \in [Lineas -> Espacio] /\ Carga(a).ids \in 0..MaxFiguras
        /\ Carga(a).lista \in Lineas /\ Carga(a).fallo \in BOOLEAN
        /\ Sanas(Carga(a).spatial, Carga(a).ids, noubication, otra)
    BY <1>1, <2>1, <2>2, <2>3, Hay DEF Leido, TipoLineas
  <2>5. TipoLineas' /\ InvSana'
    BY <2>1, <2>4, UnaQuieta
  <2>6. Last(a) \in 0..N
    <3>1. Len(a) \in 1..Len(a) /\ Last(a) = a[Len(a)]
      BY <2>3 DEF Last
    <3> QED BY <2>3, <3>1, ElementOfSeq
  <2>7. /\ actual' \in Lineas /\ lista' \in Lineas /\ ID_BUSY' \in {-1, 1, 2, 3} /\ kml' \in 0..N
        /\ BLOCK_SPATIAL' \in BOOLEAN /\ barra' \in Barra
    BY <1>1, <1>2, <1>4, <2>4, <2>6, Hay, BarraTipos
       DEF onload, TipoPagina, draw_list, Libera
  <2>8. TipoPagina'
    <3>1. tool' = 2 /\ leyendo' = FALSE /\ UNCHANGED <<noubication, mapa, popup, comunas>>
      BY <1>4 DEF onload
    <3>2. UNCHANGED <<clic, trazo, cerca>>
      BY <3>1 DEF mapa
    <3>3. tool' \in 1..3
      BY <3>1
    <3> QED BY <1>1, <2>7, <3>1, <3>2, <3>3 DEF TipoPagina, Barra
  <2>9. InvCaja'
    BY <1>1, <1>4 DEF onload, InvCaja
  <2> QED BY <2>5, <2>8, <2>9, TInvSigue
<1>5. CASE onloadOtro
  <2>1. TipoLineas' /\ InvSana'
    BY <1>5, Quieta DEF onloadOtro
  <2>2. TipoPagina'
    <3>1. /\ tool' = 1 /\ leyendo' = FALSE
          /\ UNCHANGED <<actual, lista, ID_BUSY, noubication, BLOCK_SPATIAL, mapa,
                         barra, kml, popup, comunas>>
      BY <1>5 DEF onloadOtro
    <3>2. UNCHANGED <<clic, trazo, cerca>>
      BY <3>1 DEF mapa
    <3>3. tool' \in 1..3
      BY <3>1
    <3> QED BY <1>1, <3>1, <3>2, <3>3 DEF TipoPagina
  <2>3. InvCaja'
    BY <1>1, <1>5 DEF onloadOtro, InvCaja
  <2> QED BY <2>1, <2>2, <2>3, TInvSigue
<1>6. CASE borraKml
  <2> DEFINE s == clear_check(spatial[kml])
             o == [otra EXCEPT ![kml] = FALSE]
  <2>1. /\ spatial' = [spatial EXCEPT ![kml] = s] /\ otra' = o /\ kml # 0
        /\ UNCHANGED <<ids, noubication>>
    BY <1>6 DEF borraKml
  <2>2. /\ kml \in Lineas /\ spatial \in [Lineas -> Espacio] /\ ids \in 0..MaxFiguras
        /\ otra \in [Lineas -> BOOLEAN] /\ Sanas(spatial, ids, noubication, otra)
    BY <1>1, <2>1, Hay DEF TipoPagina, TipoLineas, InvSana
  <2>3. o \in [Lineas -> BOOLEAN] /\ \A k \in Lineas \ {kml} : o[k] = otra[k]
    BY <2>2
  <2>4. spatial[kml] \in Espacio
    BY <2>2
  <2> HIDE DEF o
  <2>5. s \in Espacio /\ Sana(s, ids, noubication, o[kml])
    BY <2>4, VaciaSana
  <2> HIDE DEF s
  <2>6. /\ [spatial EXCEPT ![kml] = s] \in [Lineas -> Espacio]
        /\ Sanas([spatial EXCEPT ![kml] = s], ids, noubication, o)
    <3>1. ids \in Nat /\ ids <= ids
      BY <2>2, Hay
    <3> QED BY <2>2, <2>3, <2>5, <3>1, UnaLinea
  <2>7. TipoLineas'
    BY <2>1, <2>2, <2>3, <2>6 DEF TipoLineas
  <2>8. InvSana'
    BY <2>1, <2>6 DEF InvSana
  <2>9. barra' \in Barra
    BY <1>2, <1>6, BarraTipos DEF borraKml
  <2>10. TipoPagina'
    <3>1. /\ tool' = 1 /\ kml' = 0 /\ BLOCK_SPATIAL' = FALSE /\ ID_BUSY' = -1 /\ popup' = <<>>
          /\ UNCHANGED <<actual, noubication, mapa, leyendo, comunas>>
      BY <1>6 DEF borraKml
    <3>2. UNCHANGED <<clic, trazo, cerca>>
      BY <3>1 DEF mapa
    <3>3. tool' \in 1..3 /\ kml' \in 0..N
      BY <3>1, Hay
    <3>4. lista' \in Lineas
      BY <1>1, <1>6, <2>2 DEF borraKml, TipoPagina, draw_list
    <3> QED BY <1>1, <2>9, <3>1, <3>2, <3>3, <3>4 DEF TipoPagina, Barra
  <2>11. InvCaja'
    BY <1>1, <1>6 DEF borraKml, InvCaja
  <2> QED BY <2>7, <2>8, <2>10, <2>11, TInvSigue
<1> QED BY <1>3, <1>4, <1>5, <1>6 DEF Kml

(* A figure leaves its line by the list or by its box.                       *)
LEMMA BorraLinea ==
  ASSUME TInv, ~noubication, NEW l \in Lineas, NEW f \in Figura,
         Listada(l, f) \/ ~otra[l], Falla(l, f), UNCHANGED <<ids, noubication>>,
         spatial' = [spatial EXCEPT ![l] = Borra(spatial[l], f)]
  PROVE  TipoLineas' /\ InvSana'
<1> DEFINE s == Borra(spatial[l], f)
           x == otra[l] \/ ~Acierta(spatial[l][f.tipo], f)
           o == [otra EXCEPT ![l] = x]
<1>1. /\ spatial \in [Lineas -> Espacio] /\ ids \in 0..MaxFiguras /\ ids \in Nat
      /\ otra \in [Lineas -> BOOLEAN] /\ Sanas(spatial, ids, noubication, otra)
  BY TInvPartes, Hay DEF TipoLineas, InvSana
<1>2. spatial[l] \in Espacio /\ otra[l] \in BOOLEAN /\ Sana(spatial[l], ids, noubication, otra[l])
  BY <1>1 DEF Sanas
<1>3. (\E j \in DOMAIN Hechas(spatial[l]) : Hechas(spatial[l])[j] = f) \/ ~otra[l]
  BY DEF Listada
<1>4. s \in Espacio /\ Sana(s, ids, noubication, x)
  BY <1>2, <1>3, BorraSana
<1>5. otra' = o
  BY <1>1 DEF Falla
<1> HIDE DEF s
<1>6. x \in BOOLEAN
  OBVIOUS
<1> HIDE DEF x
<1>7. o \in [Lineas -> BOOLEAN] /\ o[l] = x /\ \A k \in Lineas \ {l} : o[k] = otra[k]
  BY <1>1, <1>6
<1> HIDE DEF o
<1>8. /\ [spatial EXCEPT ![l] = s] \in [Lineas -> Espacio]
      /\ Sanas([spatial EXCEPT ![l] = s], ids, noubication, o)
  <2>1. ids <= ids /\ Sana(s, ids, noubication, o[l])
    BY <1>1, <1>4, <1>7
  <2> QED BY <1>1, <1>4, <1>7, <2>1, UnaLinea
<1>9. spatial' = [spatial EXCEPT ![l] = s]
  BY DEF s
<1>10. TipoLineas'
  BY <1>1, <1>5, <1>7, <1>8, <1>9 DEF TipoLineas
<1>11. InvSana'
  BY <1>5, <1>8, <1>9 DEF InvSana
<1> QED BY <1>10, <1>11

(* All the lines are cleared.                                               *)
LEMMA VaciaTodas ==
  ASSUME TInv, NEW v \in BOOLEAN, set_spatial_null(v), UNCHANGED ids
  PROVE  TipoLineas' /\ InvSana'
<1>1. spatial \in [Lineas -> Espacio] /\ ids \in 0..MaxFiguras
  BY TInvPartes DEF TipoLineas
<1>2. \A l \in Lineas : clear_check(spatial[l]) \in Espacio /\ Sana(clear_check(spatial[l]), ids, v, FALSE)
  BY <1>1, VaciaSana
<1>3. /\ spatial' = [l \in Lineas |-> clear_check(spatial[l])]
      /\ otra' = [l \in Lineas |-> FALSE] /\ noubication' = v /\ ids' = ids
  BY DEF set_spatial_null
<1>4. TipoLineas'
  BY <1>1, <1>2, <1>3 DEF TipoLineas
<1>5. InvSana'
  BY <1>2, <1>3 DEF InvSana, Sanas
<1> QED BY <1>4, <1>5

LEMMA TPanel ==
  ASSUME TInv, ajena' \in BOOLEAN, Panel
  PROVE  TInv'
<1>1. TipoPagina /\ TipoLineas /\ InvSana /\ InvCaja
  BY TInvPartes
<1>2. barra \in Barra
  BY <1>1 DEF TipoPagina, Barra
<1>3. /\ spatial \in [Lineas -> Espacio] /\ ids \in 0..MaxFiguras /\ ids \in Nat
      /\ otra \in [Lineas -> BOOLEAN] /\ Sanas(spatial, ids, noubication, otra)
  BY <1>1, Hay DEF TipoLineas, InvSana
<1>4. ASSUME NEW l \in Lineas, actual_geom(l) PROVE TInv'
  <2>1. TipoLineas' /\ InvSana'
    BY <1>4, Quieta DEF actual_geom, locales
  <2>2. barra' \in Barra
    BY <1>2, <1>4, BarraTipos DEF actual_geom, verify_geom
  <2>3. ID_BUSY' \in {-1, 1, 2, 3} /\ lista' \in Lineas
    BY <1>1, <1>4 DEF actual_geom, verify_geom, Libera, draw_list, TipoPagina
  <2>4. /\ actual' = l /\ UNCHANGED <<locales, mapa, popup>>
    BY <1>4 DEF actual_geom
  <2>5. TipoPagina'
    BY <1>1, <2>2, <2>3, <2>4 DEF TipoPagina, Barra, locales, mapa
  <2>6. InvCaja'
    BY <1>1, <2>4 DEF InvCaja, locales
  <2> QED BY <2>1, <2>5, <2>6, TInvSigue
<1>5. ASSUME NEW l \in Lineas, add_comuna(l) PROVE TInv'
  <2> DEFINE f == Nueva("punto", "comuna")
             s == Pone(spatial[l], f)
  <2>1. /\ noubication /\ ids < MaxFiguras /\ spatial' = [spatial EXCEPT ![l] = s]
        /\ ids' = ids + 1 /\ comunas' = comunas \cup {<<l, f>>} /\ UNCHANGED <<noubication, otra>>
        /\ UNCHANGED <<actual, lista, ID_BUSY, tool, noubication, BLOCK_SPATIAL, mapa, barra,
                       kml, leyendo, popup>>
    BY <1>5 DEF add_comuna
  <2>2. f \in Figura /\ f.id = ids + 1 /\ f.de = "comuna"
    BY <1>3, <2>1, Hay DEF Nueva, Figura, Tipos, Origen
  <2>3. spatial[l] \in Espacio /\ Sana(spatial[l], ids, noubication, otra[l])
    BY <1>3 DEF Sanas
  <2>4. ids + 1 \in Nat /\ ids <= ids + 1 /\ ids + 1 \in 0..MaxFiguras
    BY <1>3, <2>1, Hay
  <2> HIDE DEF f
  <2>5. s \in Espacio
    BY <2>2, <2>3, PoneForma DEF Sana
  <2>6. Sana(s, ids + 1, noubication, otra[l])
    <3>1. f.id > ids /\ (f.de = "comuna" => noubication)
      BY <1>3, <2>1, <2>2
    <3>2. Sana(s, f.id, noubication, otra[l])
      BY <1>3, <2>2, <2>3, <3>1, PoneSana
    <3> QED BY <2>2, <3>2
  <2> HIDE DEF s
  <2>7. /\ [spatial EXCEPT ![l] = s] \in [Lineas -> Espacio]
        /\ Sanas([spatial EXCEPT ![l] = s], ids + 1, noubication, otra)
    BY <1>3, <2>4, <2>5, <2>6, UnaLineaMas
  <2>8. TipoLineas' /\ InvSana'
    BY <2>1, <2>4, <2>7, UnaQuieta
  <2>9. TipoPagina'
    BY <1>1, <2>1, <2>2 DEF TipoPagina, mapa
  <2>10. InvCaja'
    BY <1>1, <2>1, <2>2 DEF InvCaja
  <2> QED BY <2>8, <2>9, <2>10, TInvSigue
<1>6. ASSUME NEW f \in Listadas, trash(f) PROVE TInv'
  <2>1. lista \in Lineas
    BY <1>1 DEF TipoPagina
  <2>2. f \in Figura
    <3>1. spatial[lista] \in Espacio /\ Sana(spatial[lista], ids, noubication, otra[lista])
      BY <1>3, <2>1 DEF Sanas
    <3>2. Hechas(spatial[lista]) \in Seq(Figura)
      BY <3>1, HechasForma DEF Sana
    <3> QED BY <1>6, <3>2 DEF Listadas
  <2>3. /\ Listada(lista, f) /\ ~noubication
        /\ spatial' = [spatial EXCEPT ![lista] = Borra(spatial[lista], f)]
        /\ Falla(lista, f) /\ UNCHANGED <<ids, noubication>>
    BY <1>6 DEF trash, locales
  <2>4. TipoLineas' /\ InvSana'
    BY <2>1, <2>2, <2>3, BorraLinea
  <2>5. barra' \in Barra
    BY <1>2, <1>6, BarraTipos DEF trash
  <2>6. ID_BUSY' \in {-1, 1, 2, 3}
    BY <1>1, <1>6 DEF trash, Libera, TipoPagina
  <2>7. popup' = <<>> /\ UNCHANGED <<actual, lista, locales, mapa>>
    BY <1>6 DEF trash
  <2>8. TipoPagina'
    BY <1>1, <2>5, <2>6, <2>7 DEF TipoPagina, Barra, locales, mapa
  <2>9. InvCaja'
    BY <1>1, <2>7 DEF InvCaja, locales
  <2> QED BY <2>4, <2>8, <2>9, TInvSigue
<1>7. ASSUME NEW f \in Listadas, abre(f) PROVE TInv'
  <2>1. TipoLineas' /\ InvSana'
    BY <1>7, Quieta DEF abre, locales
  <2>2. lista \in Lineas
    BY <1>1 DEF TipoPagina
  <2>3. f \in Figura
    <3>1. spatial[lista] \in Espacio /\ Sana(spatial[lista], ids, noubication, otra[lista])
      BY <1>3, <2>2 DEF Sanas
    <3>2. Hechas(spatial[lista]) \in Seq(Figura)
      BY <3>1, HechasForma DEF Sana
    <3> QED BY <1>7, <3>2 DEF Listadas
  <2>4. TipoPagina'
    BY <1>1, <1>7, <2>2, <2>3 DEF abre, TipoPagina, locales, mapa
  <2>5. InvCaja'
    BY <1>1, <1>7 DEF abre, InvCaja, locales
  <2> QED BY <2>1, <2>4, <2>5, TInvSigue
<1>8. CASE tremove
  <2> DEFINE l == popup[1]
             f == popup[2]
  <2>1. l \in Lineas /\ f \in Figura
    BY <1>1, <1>8 DEF tremove, TipoPagina
  <2>2. ~noubication
    BY <1>1, <1>8 DEF tremove, InvCaja
  <2>3. /\ Listada(l, f) \/ ~otra[l]
        /\ spatial' = [spatial EXCEPT ![l] = Borra(spatial[l], f)]
        /\ Falla(l, f) /\ UNCHANGED <<ids, noubication>>
    BY <1>8 DEF tremove, locales
  <2>4. lista' \in Lineas
    BY <1>1, <1>8, <2>1 DEF tremove, draw_list, TipoPagina
  <2> HIDE DEF l, f
  <2>5. TipoLineas' /\ InvSana'
    BY <2>1, <2>2, <2>3, BorraLinea
  <2>6. barra' \in Barra
    BY <1>2, <1>8, BarraTipos DEF tremove
  <2>7. popup' = <<>> /\ UNCHANGED <<actual, ID_BUSY, locales, mapa>>
    BY <1>8 DEF tremove
  <2>8. TipoPagina'
    BY <1>1, <2>4, <2>6, <2>7 DEF TipoPagina, Barra, locales, mapa
  <2>9. InvCaja'
    BY <1>1, <2>7 DEF InvCaja, locales
  <2> QED BY <2>5, <2>8, <2>9, TInvSigue
<1>9. CASE activa
  <2>1. TipoLineas' /\ InvSana'
    BY <1>9, VaciaTodas DEF activa
  <2>2. /\ ID_BUSY' = 1 /\ noubication' = TRUE /\ BLOCK_SPATIAL' = TRUE /\ tool' = 3 /\ barra' = Oculta
        /\ UNCHANGED <<actual, lista, mapa, kml, leyendo, popup, comunas>>
    BY <1>9 DEF activa, Toma, set_spatial_null
  <2>3. tool' \in 1..3 /\ barra' \in Barra
    <3>1. tool' \in 1..3
      BY <2>2
    <3>2. Oculta \in Barra
      BY DEF Oculta, Barra
    <3> QED BY <2>2, <3>1, <3>2
  <2>4. TipoPagina'
    BY <1>1, <2>2, <2>3 DEF TipoPagina, Barra, mapa
  <2>5. InvCaja'
    BY <1>1, <2>2 DEF InvCaja
  <2> QED BY <2>1, <2>4, <2>5, TInvSigue
<1>10. CASE desactiva
  <2>1. TipoLineas' /\ InvSana'
    BY <1>10, VaciaTodas DEF desactiva
  <2>2. /\ ID_BUSY' = -1 /\ noubication' = FALSE /\ BLOCK_SPATIAL' = FALSE /\ tool' = 1
        /\ barra' = verify_draw(barra) /\ lista' = N
        /\ UNCHANGED <<actual, mapa, kml, leyendo, popup, comunas>>
    BY <1>10 DEF desactiva, set_spatial_null
  <2>3. tool' \in 1..3 /\ barra' \in Barra /\ lista' \in Lineas
    <3>1. tool' \in 1..3
      BY <2>2
    <3>2. verify_draw(barra) \in Barra
      BY <1>2, BarraTipos
    <3> QED BY <2>2, <3>1, <3>2, Hay
  <2>4. TipoPagina'
    BY <1>1, <2>2, <2>3 DEF TipoPagina, Barra, mapa
  <2>5. InvCaja'
    BY <1>1, <2>2 DEF InvCaja
  <2> QED BY <2>1, <2>4, <2>5, TInvSigue
<1>11. CASE verify_all_info
  <2>1. TipoLineas' /\ InvSana'
    BY <1>11, Quieta DEF verify_all_info, locales
  <2>2. barra' \in Barra
    BY <1>2, <1>11, BarraTipos DEF verify_all_info
  <2>3. TipoPagina'
    BY <1>1, <1>11, <2>2 DEF verify_all_info, TipoPagina, Barra, locales, mapa
  <2>4. InvCaja'
    BY <1>1, <1>11 DEF verify_all_info, InvCaja, locales
  <2> QED BY <2>1, <2>3, <2>4, TInvSigue
<1>12. ASSUME NEW c \in comunas, remove_point(c[1], c[2]) PROVE TInv'
  <2> DEFINE l == c[1]
             f == c[2]
             q == [spatial[l] EXCEPT !.punto = Saca(@, f)]
             x == otra[l] \/ (spatial[l].punto # <<>> /\ ~Acierta(spatial[l].punto, f))
             o == [otra EXCEPT ![l] = x]
  <2>1. l \in Lineas /\ f \in Figura /\ f.de = "comuna"
    BY <1>1 DEF TipoPagina, InvCaja
  <2>2. /\ spatial' = [spatial EXCEPT ![l] = q] /\ otra' = o
        /\ comunas' = comunas \ {<<l, f>>} /\ verify_geom(q) /\ draw_list(l)
        /\ UNCHANGED <<actual, tool, noubication, BLOCK_SPATIAL, mapa, kml, leyendo, popup, ids>>
    BY <1>3, <1>12, <2>1 DEF remove_point
  <2>3. spatial[l] \in Espacio /\ otra[l] \in BOOLEAN /\ Sana(spatial[l], ids, noubication, otra[l])
    BY <1>3, <2>1 DEF Sanas
  <2>4. x \in BOOLEAN
    OBVIOUS
  <2> HIDE DEF l, f
  <2>5. q \in Espacio /\ Sana(q, ids, noubication, x)
    BY <2>1, <2>3, SacaSana
  <2> HIDE DEF q, x
  <2>6. o \in [Lineas -> BOOLEAN] /\ o[l] = x /\ \A k \in Lineas \ {l} : o[k] = otra[k]
    BY <1>3, <2>1, <2>4
  <2> HIDE DEF o
  <2>7. /\ [spatial EXCEPT ![l] = q] \in [Lineas -> Espacio]
        /\ Sanas([spatial EXCEPT ![l] = q], ids, noubication, o)
    <3>1. ids <= ids /\ Sana(q, ids, noubication, o[l])
      BY <1>3, <2>5, <2>6
    <3> QED BY <1>3, <2>1, <2>5, <2>6, <3>1, UnaLinea
  <2>8. TipoLineas'
    BY <1>3, <2>2, <2>6, <2>7 DEF TipoLineas
  <2>9. InvSana'
    BY <2>2, <2>7 DEF InvSana
  <2>10. barra' \in Barra
    BY <1>2, <2>2, BarraTipos DEF verify_geom
  <2>11. ID_BUSY' \in {-1, 1, 2, 3} /\ lista' \in Lineas
    BY <1>1, <2>1, <2>2 DEF verify_geom, Libera, draw_list, TipoPagina
  <2>12. TipoPagina'
    BY <1>1, <2>2, <2>10, <2>11 DEF TipoPagina, Barra, mapa
  <2>13. InvCaja'
    BY <1>1, <2>2 DEF InvCaja
  <2> QED BY <2>8, <2>9, <2>12, <2>13, TInvSigue
<1> QED BY <1>4, <1>5, <1>6, <1>7, <1>8, <1>9, <1>10, <1>11, <1>12 DEF Panel

LEMMA TInicio == Init => TInv
<1> SUFFICES ASSUME Init PROVE TInv
  OBVIOUS
<1>1. PICK antes \in BOOLEAN : (antes => N <= MaxFiguras) /\ load_data(antes)
  BY DEF Init
<1>2. Vacia \in Espacio /\ Sana(Vacia, 0, FALSE, FALSE)
  <2>1. Vacia \in Espacio
    <3>1. \A S : <<>> \in Seq(S)
      OBVIOUS
    <3> QED BY <3>1 DEF Vacia, Espacio
  <2>2. clear_check(Vacia) = Vacia
    <3>1. clear_check(Vacia) = [punto |-> <<>>, linea |-> <<>>, stack |-> <<>>, postack |-> -1,
                                type |-> Vacia.type]
      BY <2>1, VaciaSana
    <3>2. Vacia.type = 1
      BY DEF Vacia
    <3> QED BY <3>1, <3>2 DEF Vacia
  <2> QED BY <2>1, <2>2, VaciaSana
<1>5. InvCaja /\ (ID_BUSY \in {-1, 1, 2, 3} => TipoPagina)
  <2>1. InvCaja
    BY DEF Init, InvCaja
  <2>2. tool \in 1..3 /\ trazo \in -1..1 /\ kml \in 0..N /\ actual \in Lineas /\ lista \in Lineas
    BY Hay DEF Init
  <2>3. barra \in [tools : BOOLEAN, undo : BOOLEAN, redo : BOOLEAN]
    BY DEF Init, Oculta
  <2>4. /\ noubication \in BOOLEAN /\ BLOCK_SPATIAL \in BOOLEAN /\ cerca \in BOOLEAN
        /\ leyendo \in BOOLEAN /\ ajena \in BOOLEAN /\ popup = <<>> /\ comunas = {} /\ clic = "nada"
    BY DEF Init
  <2> QED BY <2>1, <2>2, <2>3, <2>4 DEF TipoPagina
<1>3. CASE antes
  <2>1. /\ spatial = [l \in Lineas |-> Pone(Vacia, Previa(l))] /\ ids = N /\ N <= MaxFiguras
    BY <1>1, <1>3 DEF load_data
  <2>2. ASSUME NEW l \in Lineas
        PROVE  Pone(Vacia, Previa(l)) \in Espacio /\ Sana(Pone(Vacia, Previa(l)), N, FALSE, FALSE)
    <3> DEFINE f == Previa(l)
    <3>1. l \in 1..N /\ l \in 1..MaxFiguras
      BY <2>1, Hay
    <3>2. f \in Figura /\ f.id = l /\ f.de = "previa"
      BY <3>1 DEF Previa, Figura, Tipos, Origen
    <3> HIDE DEF f
    <3>3. f.id > 0 /\ l \in Nat /\ l <= N
      BY <3>1, <3>2, Hay
    <3>4. Sana(Pone(Vacia, f), f.id, FALSE, FALSE)
      BY <1>2, <3>2, <3>3, PoneSana
    <3>5. Pone(Vacia, f) \in Espacio
      BY <1>2, <3>2, PoneForma DEF Sana
    <3>6. Sana(Pone(Vacia, f), N, FALSE, FALSE)
      BY <3>2, <3>3, <3>4, <3>5, SanaCrece, Hay
    <3> QED BY <3>5, <3>6 DEF f
  <2>3. otra = [l \in Lineas |-> FALSE] /\ noubication = FALSE
    BY DEF Init
  <2>4. TipoLineas
    <3>1. ids \in 0..MaxFiguras
      BY <2>1, Hay
    <3>2. spatial \in [Lineas -> Espacio]
      BY <2>1, <2>2
    <3> QED BY <2>3, <3>1, <3>2 DEF TipoLineas
  <2>5. InvSana
    BY <2>1, <2>2, <2>3 DEF InvSana, Sanas
  <2>6. ID_BUSY = 3
    BY <1>1, <1>3 DEF load_data
  <2> QED BY <1>5, <2>4, <2>5, <2>6, TInvPartes
<1>4. CASE ~antes
  <2>1. spatial = [l \in Lineas |-> Vacia] /\ ids = 0
    BY <1>1, <1>4 DEF load_data
  <2>2. otra = [l \in Lineas |-> FALSE] /\ noubication = FALSE
    BY DEF Init
  <2>3. TipoLineas
    BY <1>2, <2>1, <2>2, Hay DEF TipoLineas
  <2>4. InvSana
    BY <1>2, <2>1, <2>2 DEF InvSana, Sanas
  <2>5. ID_BUSY = -1
    BY <1>1, <1>4 DEF load_data
  <2> QED BY <1>5, <2>3, <2>4, <2>5, TInvPartes
<1> QED BY <1>3, <1>4

LEMMA TPaso == TInv /\ [Next]_vars => TInv'
<1> SUFFICES ASSUME TInv, [Next]_vars PROVE TInv'
  OBVIOUS
<1>1. CASE Next
  <2>1. ajena' \in BOOLEAN
    <3>1. ajena \in BOOLEAN
      BY DEF TInv, TypeOK
    <3>2. ajena' = (ajena \/ (ID_BUSY # -1 /\ ID_BUSY' = -1 /\ EnUso'))
      BY <1>1 DEF Next
    <3> QED BY <3>1, <3>2
  <2> QED BY <1>1, <2>1, THerramienta, TMapa, TPanel, TKml DEF Next
<1>2. CASE UNCHANGED vars
  <2>1. TipoLineas' /\ InvSana'
    BY <1>2, Quieta DEF vars
  <2>2. TipoPagina' /\ InvCaja'
    <3>1. TipoPagina /\ InvCaja
      BY TInvPartes
    <3> QED BY <1>2, <3>1 DEF vars, mapa, TipoPagina, InvCaja
  <2> QED BY <2>1, <2>2, TInvSigue
<1> QED BY <1>1, <1>2

(* The state of the page keeps its types: no index of an array or of a stack *)
(* ever leaves it, through drawing, undo, redo, removals, files and comunas. *)
THEOREM TrazadoTipos == Spec => []TypeOK
<1>1. TInv => TypeOK
  BY DEF TInv
<1> QED BY <1>1, TInicio, TPaso, PTL DEF Spec

(* What a line sends is what its list shows, but for Sin Ubicacion and for a *)
(* removal that missed its figure: for any tender and any figures.           *)
THEOREM EnviaLoListadoSiempre == Spec => []EnviaLoListado
<1>1. TInv => EnviaLoListado
  BY DEF TInv, InvSana, Sanas, Sana, EnviaLoListado, Tipos
<1> QED BY <1>1, TInicio, TPaso, PTL DEF Spec

-------------------------------------------------------------------------------
(* The lock. Until somebody frees it in use, who holds it is who put what    *)
(* there is: the tool, the click and the line begun on the map, the file,    *)
(* Sin Ubicacion, and every figure of every line. A free lock has no figure. *)

Cuerpo ==
  /\ noubication <=> ID_BUSY = 1
  /\ noubication => tool = 3
  /\ clic \in {"punto", "linea"} \/ trazo # -1 => ID_BUSY = 3
  /\ leyendo \/ kml # 0 => ID_BUSY = 2
  /\ Llaves(spatial, ID_BUSY)
InvLlave == ~ajena => Cuerpo

(* Nobody's lock guards nothing, so whoever may take it finds it his.        *)
LEMMA LlaveNadie ==
  ASSUME TInv, NEW s \in Espacio, DeLlave(s, -1), NEW b
  PROVE  DeLlave(s, b)
<1>1. ASSUME NEW a \in Seq(Entrada), De(a, -1) PROVE De(a, b)
  <2>1. ASSUME NEW k \in DOMAIN a PROVE FALSE
    <3>1. a[k].ele.de \in Origen
      <4>1. k \in 1..Len(a)
        BY <1>1, <2>1
      <4>2. a[k] \in Entrada
        BY <1>1, <4>1, ElementOfSeq
      <4> QED BY <4>2 DEF Entrada, Figura
    <3>2. -1 \in Duenio[a[k].ele.de]
      BY <1>1, <2>1 DEF De
    <3> QED BY <3>1, <3>2 DEF Origen, Duenio
  <2> QED BY <2>1 DEF De
<1> QED BY <1>1, EspacioCampos DEF DeLlave

LEMMA Pasa ==
  ASSUME TInv, Cuerpo, NEW b \in {1, 2, 3}, SYNC(b)
  PROVE  Llaves(spatial, b)
<1>1. spatial \in [Lineas -> Espacio]
  BY TInvPartes DEF TipoLineas
<1>2. Llaves(spatial, ID_BUSY)
  BY DEF Cuerpo
<1>3. CASE ID_BUSY = b
  BY <1>2, <1>3
<1>4. CASE ID_BUSY = -1
  BY <1>1, <1>2, <1>4, LlaveNadie DEF Llaves
<1> QED BY <1>3, <1>4 DEF SYNC

(* An empty page is nobody's.                                               *)
LEMMA Libre ==
  ASSUME ~EnUso', ID_BUSY' # 1
  PROVE  Cuerpo'
<1>1. ASSUME NEW l \in Lineas PROVE DeLlave(spatial'[l], ID_BUSY')
  <2>1. ~ConGeom(spatial'[l])
    BY DEF EnUso
  <2>2. DOMAIN <<>> = {}
    OBVIOUS
  <2> QED BY <2>1, <2>2 DEF ConGeom, DeLlave, De
<1>2. Llaves(spatial, ID_BUSY)'
  BY <1>1 DEF Llaves
<1> QED BY <1>2 DEF EnUso, Cuerpo

(* The line begun is the drawing's.                                         *)
LEMMA TrazoLlave ==
  ASSUME TInv, stop_line, NEW b, Llaves(spatial, b), trazo # -1 => b = 3
  PROVE  Llaves(ConTrazo, b)
<1>1. /\ spatial \in [Lineas -> Espacio] /\ ids \in 0..MaxFiguras /\ actual \in Lineas
      /\ trazo \in -1..1 /\ Sanas(spatial, ids, noubication, otra)
      /\ MaxFiguras \in Nat
  BY TInvPartes, Hay DEF TipoPagina, TipoLineas, InvSana
<1>2. CASE trazo = 1
  <2> DEFINE f == Nueva("linea", "mano")
             s == Pone(spatial[actual], f)
  <2>1. ids < MaxFiguras /\ ConTrazo = [spatial EXCEPT ![actual] = s]
    BY <1>2 DEF stop_line, ConTrazo
  <2>2. f \in Figura /\ f.de = "mano"
    BY <1>1, <2>1 DEF Nueva, Figura, Tipos, Origen
  <2>3. spatial[actual] \in Espacio /\ spatial[actual].postack \in -2..Len(spatial[actual].stack) - 1
    BY <1>1 DEF Sanas, Sana
  <2> HIDE DEF f
  <2>4. Hereda(s, spatial[actual], {f.de})
    BY <2>2, <2>3, PoneHereda
  <2>5. \A d \in {f.de} : b \in Duenio[d]
    BY <1>2, <2>2 DEF Duenio
  <2>6. DeLlave(spatial[actual], b)
    BY <1>1 DEF Llaves
  <2> HIDE DEF s
  <2>7. DeLlave(s, b)
    BY <2>4, <2>5, <2>6, HeredaLlave
  <2> QED BY <1>1, <2>1, <2>7, UnaLlave
<1>3. CASE trazo # 1
  BY <1>1, <1>3 DEF ConTrazo
<1> QED BY <1>2, <1>3

(* A step, unless it frees the lock in use: then nothing is left to prove,   *)
(* and if it frees it with nothing in use, the page is nobody's (Libre).     *)
LEMMA LHerramienta ==
  ASSUME TInv, Cuerpo, ID_BUSY = -1 \/ ID_BUSY' # -1, Herramienta
  PROVE  Cuerpo'
<1>1. /\ noubication <=> ID_BUSY = 1
      /\ noubication => tool = 3
      /\ clic \in {"punto", "linea"} \/ trazo # -1 => ID_BUSY = 3
      /\ leyendo \/ kml # 0 => ID_BUSY = 2
      /\ Llaves(spatial, ID_BUSY)
  BY DEF Cuerpo
<1>2. CASE addMarker \/ addLinea
  <2>1. /\ SYNC(3) /\ ID_BUSY' = 3 /\ stop_line /\ spatial' = ConTrazo
        /\ UNCHANGED <<noubication, tool, leyendo, kml>>
    BY <1>2 DEF addMarker, addLinea, Toma, locales
  <2>2. Llaves(ConTrazo, 3)
    <3>1. Llaves(spatial, 3)
      BY <2>1, Pasa
    <3> QED BY <2>1, <3>1, TrazoLlave
  <2> QED BY <1>1, <2>1, <2>2 DEF Cuerpo, SYNC
<1>3. CASE regla
  <2>1. SYNC(3) /\ ID_BUSY' = 3 /\ UNCHANGED <<spatial, noubication, tool, leyendo, kml>>
    BY <1>3 DEF regla, Toma, locales
  <2>2. Llaves(spatial, 3)
    BY <2>1, Pasa
  <2> QED BY <1>1, <2>1, <2>2 DEF Cuerpo, SYNC
<1>4. CASE pan
  BY <1>1, <1>4 DEF pan, Cuerpo, locales
<1>5. CASE undoNodes
  <2> DEFINE s == undo(ConTrazo[actual])
  <2>1. /\ SYNC(3) /\ stop_line /\ UNCHANGED <<noubication, tool, leyendo, kml>>
        /\ trazo' = -1 /\ clic' = SinTrazo /\ ID_BUSY' \in {-1, 3}
        /\ spatial' = [spatial EXCEPT ![actual] = s] \/ spatial' = ConTrazo
    BY <1>5 DEF undoNodes, Libera, locales
  <2>2. actual \in Lineas /\ spatial \in [Lineas -> Espacio]
    BY TInvPartes DEF TipoPagina, TipoLineas
  <2>3. /\ ConTrazo \in [Lineas -> Espacio] /\ Sanas(ConTrazo, ids', noubication, otra)
        /\ ConTrazo = [spatial EXCEPT ![actual] = ConTrazo[actual]]
    BY <2>1, TrazoSana
  <2>4. Hereda(s, ConTrazo[actual], {})
    <3>1. ConTrazo[actual] \in Espacio /\ Sana(ConTrazo[actual], ids', noubication, otra[actual])
      BY <2>2, <2>3 DEF Sanas
    <3> QED BY <3>1, UndoSana
  <2> HIDE DEF s
  <2>5. [spatial EXCEPT ![actual] = s] = [ConTrazo EXCEPT ![actual] = s]
    BY <2>2, <2>3
  <2>6. ASSUME NEW b, Llaves(spatial, b), trazo # -1 => b = 3
        PROVE  Llaves(spatial', b)
    <3>1. Llaves(ConTrazo, b)
      BY <2>1, <2>6, TrazoLlave
    <3>2. DeLlave(ConTrazo[actual], b)
      BY <2>2, <3>1 DEF Llaves
    <3>3. DeLlave(s, b)
      BY <2>4, <3>2, HeredaLlave
    <3>4. Llaves([ConTrazo EXCEPT ![actual] = s], b)
      BY <2>2, <2>3, <3>1, <3>3, UnaLlave
    <3> QED BY <2>1, <2>5, <3>1, <3>4
  <2>7. Llaves(spatial', ID_BUSY')
    <3>1. CASE ID_BUSY' = 3
      <4>1. Llaves(spatial, 3)
        BY <2>1, Pasa
      <4> QED BY <2>6, <3>1, <4>1
    <3>2. CASE ID_BUSY' = -1
      BY <1>1, <2>6, <3>2
    <3> QED BY <2>1, <3>1, <3>2
  <2>8. ID_BUSY' = -1 => ID_BUSY = -1
    OBVIOUS
  <2>9. clic' \in {"punto", "linea"} => clic \in {"punto", "linea"}
    BY <2>1 DEF SinTrazo
  <2> QED BY <1>1, <2>1, <2>7, <2>8, <2>9 DEF Cuerpo, SYNC
<1>6. CASE redoNodes
  <2> DEFINE s == forward(ConTrazo[actual])
  <2>1. /\ SYNC(3) /\ ID_BUSY' = 3 /\ stop_line /\ UNCHANGED <<noubication, tool, leyendo, kml>>
        /\ trazo' = -1 /\ clic' = SinTrazo
        /\ spatial' = [spatial EXCEPT ![actual] = s] \/ spatial' = ConTrazo
    BY <1>6 DEF redoNodes, Toma, locales
  <2>2. actual \in Lineas /\ spatial \in [Lineas -> Espacio]
    BY TInvPartes DEF TipoPagina, TipoLineas
  <2>3. /\ ConTrazo \in [Lineas -> Espacio] /\ Sanas(ConTrazo, ids', noubication, otra)
        /\ ConTrazo = [spatial EXCEPT ![actual] = ConTrazo[actual]]
    BY <2>1, TrazoSana
  <2>4. ~noubication
    BY <1>1, <2>1 DEF SYNC
  <2>5. Hereda(s, ConTrazo[actual], Origen \ {"comuna"})
    <3>1. ConTrazo[actual] \in Espacio /\ Sana(ConTrazo[actual], ids', noubication, otra[actual])
      BY <2>2, <2>3 DEF Sanas
    <3> QED BY <2>4, <3>1, ForwardSana
  <2>6. \A d \in Origen \ {"comuna"} : 3 \in Duenio[d]
    BY DEF Origen, Duenio
  <2> HIDE DEF s
  <2>7. [spatial EXCEPT ![actual] = s] = [ConTrazo EXCEPT ![actual] = s]
    BY <2>2, <2>3
  <2>8. Llaves(spatial', 3)
    <3>1. Llaves(ConTrazo, 3)
      <4>1. Llaves(spatial, 3)
        BY <2>1, Pasa
      <4> QED BY <2>1, <4>1, TrazoLlave
    <3>2. DeLlave(ConTrazo[actual], 3)
      BY <2>2, <3>1 DEF Llaves
    <3>3. DeLlave(s, 3)
      BY <2>5, <2>6, <3>2, HeredaLlave
    <3>4. Llaves([ConTrazo EXCEPT ![actual] = s], 3)
      BY <2>2, <2>3, <3>1, <3>3, UnaLlave
    <3> QED BY <2>1, <2>7, <3>1, <3>4
  <2> QED BY <1>1, <2>1, <2>8 DEF Cuerpo, SYNC
<1> QED BY <1>2, <1>3, <1>4, <1>5, <1>6 DEF Herramienta

LEMMA LMapa ==
  ASSUME TInv, Cuerpo, Mapa
  PROVE  Cuerpo'
<1>1. /\ noubication <=> ID_BUSY = 1
      /\ noubication => tool = 3
      /\ clic \in {"punto", "linea"} \/ trazo # -1 => ID_BUSY = 3
      /\ leyendo \/ kml # 0 => ID_BUSY = 2
      /\ Llaves(spatial, ID_BUSY)
  BY DEF Cuerpo
<1>2. CASE clicPunto
  <2> DEFINE f == Nueva("punto", "mano")
             p == Pone(spatial[actual], f)
             s == [p EXCEPT !.type = 1]
  <2>1. /\ ids < MaxFiguras /\ spatial' = [spatial EXCEPT ![actual] = s] /\ clic = "punto"
        /\ UNCHANGED <<ID_BUSY, noubication, tool, leyendo, kml, mapa>>
    BY <1>2 DEF clicPunto, locales
  <2>2. /\ actual \in Lineas /\ spatial \in [Lineas -> Espacio] /\ ids \in 0..MaxFiguras
        /\ Sanas(spatial, ids, noubication, otra)
    BY TInvPartes DEF TipoPagina, TipoLineas, InvSana
  <2>3. f \in Figura /\ f.de = "mano"
    BY <2>1, <2>2, Hay DEF Nueva, Figura, Tipos, Origen
  <2>4. spatial[actual] \in Espacio /\ spatial[actual].postack \in -2..Len(spatial[actual].stack) - 1
    BY <2>2 DEF Sanas, Sana
  <2>5. ID_BUSY = 3
    BY <1>1, <2>1
  <2> HIDE DEF f
  <2>6. p \in Espacio /\ Hereda(p, spatial[actual], {f.de})
    BY <2>3, <2>4, PoneForma, PoneHereda
  <2>7. DeLlave(p, 3)
    <3>1. DeLlave(spatial[actual], 3)
      BY <1>1, <2>2, <2>5 DEF Llaves
    <3>2. \A d \in {f.de} : 3 \in Duenio[d]
      BY <2>3 DEF Duenio
    <3> HIDE DEF p
    <3> QED BY <2>6, <3>1, <3>2, HeredaLlave
  <2> HIDE DEF p
  <2>8. s.punto = p.punto /\ s.linea = p.linea
    BY <2>6 DEF Espacio
  <2> HIDE DEF s
  <2>9. DeLlave(s, 3)
    BY <2>7, <2>8 DEF DeLlave
  <2>10. Llaves(spatial', 3)
    BY <1>1, <2>1, <2>2, <2>5, <2>9, UnaLlave
  <2> QED BY <1>1, <2>1, <2>5, <2>10 DEF Cuerpo, mapa
<1>3. CASE clicLinea
  BY <1>1, <1>3 DEF clicLinea, Cuerpo, locales
<1>4. CASE dblclick
  <2>1. /\ trazo = 1 /\ stop_line /\ spatial' = ConTrazo /\ trazo' = -1 /\ clic' = "nada"
        /\ UNCHANGED <<ID_BUSY, noubication, tool, leyendo, kml>>
    BY <1>4 DEF dblclick, locales
  <2>2. Llaves(ConTrazo, 3)
    BY <1>1, <2>1, TrazoLlave
  <2> QED BY <1>1, <2>1, <2>2 DEF Cuerpo
<1>5. ASSUME NEW c \in BOOLEAN, zoom_changed(c) PROVE Cuerpo'
  BY <1>1, <1>5 DEF zoom_changed, Cuerpo, locales
<1> QED BY <1>2, <1>3, <1>4, <1>5 DEF Mapa

LEMMA LKml ==
  ASSUME TInv, Cuerpo, ID_BUSY = -1 \/ ID_BUSY' # -1, Kml
  PROVE  Cuerpo'
<1>1. /\ noubication <=> ID_BUSY = 1
      /\ noubication => tool = 3
      /\ clic \in {"punto", "linea"} \/ trazo # -1 => ID_BUSY = 3
      /\ leyendo \/ kml # 0 => ID_BUSY = 2
      /\ Llaves(spatial, ID_BUSY)
  BY DEF Cuerpo
<1>2. ASSUME NEW r, adjunta(r) PROVE Cuerpo'
  <2>1. /\ kml = 0 /\ SYNC(2) /\ clic' = "nada"
        /\ ID_BUSY' = IF r = "cancela" THEN ID_BUSY ELSE 2
        /\ UNCHANGED <<spatial, tool, noubication, trazo, kml>>
    BY <1>2 DEF adjunta
  <2>2. Llaves(spatial, 2)
    BY <2>1, Pasa
  <2>3. ~noubication /\ clic' = "nada" /\ trazo' = -1
    <3>1. ID_BUSY # 1 /\ ID_BUSY # 3
      BY <2>1 DEF SYNC
    <3> QED BY <1>1, <2>1, <3>1
  <2>4. CASE r = "cancela"
    <3>1. ID_BUSY' = ID_BUSY /\ leyendo' = FALSE
      BY <1>2, <2>4 DEF adjunta
    <3> QED BY <1>1, <2>1, <2>3, <3>1 DEF Cuerpo
  <2>5. CASE r # "cancela"
    <3>1. ID_BUSY' = 2 /\ ID_BUSY' # 1
      BY <2>1, <2>5
    <3>2. Llaves(spatial', ID_BUSY')
      BY <2>1, <2>2, <3>1
    <3> QED BY <2>1, <2>3, <3>1, <3>2 DEF Cuerpo
  <2> QED BY <2>4, <2>5
<1>3. ASSUME NEW a \in Archivos, onload(a) PROVE Cuerpo'
  <2>1. /\ leyendo /\ ids + Len(a) <= MaxFiguras /\ spatial' = Carga(a).spatial
        /\ leyendo' = FALSE /\ ID_BUSY' \in {ID_BUSY, -1}
        /\ UNCHANGED <<noubication, mapa>>
    BY <1>3 DEF onload, Libera
  <2>2. ID_BUSY = 2 /\ ID_BUSY' = 2
    BY <1>1, <2>1
  <2>3. Llaves(spatial', 2)
    BY <1>1, <2>1, <2>2, CargaLee DEF Leido
  <2> QED BY <1>1, <2>1, <2>2, <2>3 DEF Cuerpo, mapa
<1>4. CASE onloadOtro
  BY <1>1, <1>4 DEF onloadOtro, Cuerpo, mapa
<1>5. CASE borraKml
  BY <1>1, <1>5 DEF borraKml
<1> QED BY <1>2, <1>3, <1>4, <1>5 DEF Kml

LEMMA BorraLlave ==
  ASSUME TInv, Cuerpo, ~noubication, NEW l \in Lineas, NEW f \in Figura,
         Listada(l, f) \/ ~otra[l]
  PROVE  Llaves([spatial EXCEPT ![l] = Borra(spatial[l], f)], ID_BUSY)
<1>1. /\ spatial \in [Lineas -> Espacio] /\ otra \in [Lineas -> BOOLEAN]
      /\ Sanas(spatial, ids, noubication, otra) /\ Llaves(spatial, ID_BUSY)
  BY TInvPartes DEF TipoLineas, InvSana, Cuerpo
<1>2. spatial[l] \in Espacio /\ otra[l] \in BOOLEAN /\ Sana(spatial[l], ids, noubication, otra[l])
  BY <1>1 DEF Sanas
<1>3. (\E j \in DOMAIN Hechas(spatial[l]) : Hechas(spatial[l])[j] = f) \/ ~otra[l]
  BY DEF Listada
<1>4. Hereda(Borra(spatial[l], f), spatial[l], {})
  BY <1>2, <1>3, BorraSana
<1>5. DeLlave(spatial[l], ID_BUSY)
  BY <1>1 DEF Llaves
<1>6. DeLlave(Borra(spatial[l], f), ID_BUSY)
  BY <1>4, <1>5, HeredaLlave
<1> QED BY <1>1, <1>6, UnaLlave

LEMMA LPanel ==
  ASSUME TInv, Cuerpo, ID_BUSY = -1 \/ ID_BUSY' # -1, Panel
  PROVE  Cuerpo'
<1>1. /\ noubication <=> ID_BUSY = 1
      /\ noubication => tool = 3
      /\ clic \in {"punto", "linea"} \/ trazo # -1 => ID_BUSY = 3
      /\ leyendo \/ kml # 0 => ID_BUSY = 2
      /\ Llaves(spatial, ID_BUSY)
  BY DEF Cuerpo
<1>2. /\ spatial \in [Lineas -> Espacio] /\ ids \in 0..MaxFiguras /\ lista \in Lineas
      /\ otra \in [Lineas -> BOOLEAN] /\ Sanas(spatial, ids, noubication, otra)
      /\ popup \in (Lineas \X Figura) \cup {<<>>} /\ comunas \subseteq Lineas \X Figura /\ InvCaja
  BY TInvPartes DEF TipoPagina, TipoLineas, InvSana
<1>3. ASSUME NEW l \in Lineas, actual_geom(l) PROVE Cuerpo'
  <2>1. ID_BUSY' \in {ID_BUSY, -1} /\ UNCHANGED <<spatial, locales, mapa>>
    BY <1>3 DEF actual_geom, verify_geom, Libera
  <2>2. ID_BUSY' = ID_BUSY
    BY <2>1
  <2> QED BY <1>1, <2>1, <2>2 DEF Cuerpo, locales, mapa
<1>4. ASSUME NEW l \in Lineas, add_comuna(l) PROVE Cuerpo'
  <2> DEFINE f == Nueva("punto", "comuna")
             s == Pone(spatial[l], f)
  <2>1. /\ noubication /\ ids < MaxFiguras /\ spatial' = [spatial EXCEPT ![l] = s]
        /\ UNCHANGED <<ID_BUSY, tool, noubication, mapa, kml, leyendo>>
    BY <1>4 DEF add_comuna
  <2>2. f \in Figura /\ f.de = "comuna"
    BY <1>2, <2>1, Hay DEF Nueva, Figura, Tipos, Origen
  <2>3. spatial[l] \in Espacio /\ spatial[l].postack \in -2..Len(spatial[l].stack) - 1
    BY <1>2 DEF Sanas, Sana
  <2> HIDE DEF f
  <2>4. ID_BUSY = 1
    BY <1>1, <2>1
  <2>5. Hereda(s, spatial[l], {f.de})
    BY <2>2, <2>3, PoneHereda
  <2>6. DeLlave(spatial[l], 1) /\ \A d \in {f.de} : 1 \in Duenio[d]
    <3>1. \A d \in {f.de} : 1 \in Duenio[d]
      BY <2>2 DEF Duenio
    <3> QED BY <1>1, <2>4, <3>1 DEF Llaves
  <2> HIDE DEF s
  <2>7. DeLlave(s, 1)
    BY <2>5, <2>6, HeredaLlave
  <2>8. Llaves(spatial', 1)
    BY <1>1, <1>2, <2>1, <2>4, <2>7, UnaLlave
  <2> QED BY <1>1, <2>1, <2>4, <2>8 DEF Cuerpo, mapa
<1>5. ASSUME NEW f \in Listadas, trash(f) PROVE Cuerpo'
  <2>1. f \in Figura
    <3>1. spatial[lista] \in Espacio /\ Sana(spatial[lista], ids, noubication, otra[lista])
      BY <1>2 DEF Sanas
    <3>2. Hechas(spatial[lista]) \in Seq(Figura)
      BY <3>1, HechasForma DEF Sana
    <3> QED BY <1>5, <3>2 DEF Listadas
  <2>2. /\ Listada(lista, f) /\ ~noubication
        /\ spatial' = [spatial EXCEPT ![lista] = Borra(spatial[lista], f)]
        /\ ID_BUSY' \in {ID_BUSY, -1} /\ UNCHANGED <<locales, mapa>>
    BY <1>5 DEF trash, Libera
  <2>3. ID_BUSY' = ID_BUSY
    BY <2>2
  <2>4. Llaves(spatial', ID_BUSY)
    BY <1>2, <2>1, <2>2, BorraLlave
  <2> QED BY <1>1, <2>2, <2>3, <2>4 DEF Cuerpo, locales, mapa
<1>6. ASSUME NEW f \in Listadas, abre(f) PROVE Cuerpo'
  BY <1>1, <1>6 DEF abre, Cuerpo, locales, mapa
<1>7. CASE tremove
  <2> DEFINE l == popup[1]
             f == popup[2]
  <2>1. l \in Lineas /\ f \in Figura
    BY <1>2, <1>7 DEF tremove
  <2>2. ~noubication
    BY <1>2, <1>7 DEF tremove, InvCaja
  <2>3. /\ Listada(l, f) \/ ~otra[l]
        /\ spatial' = [spatial EXCEPT ![l] = Borra(spatial[l], f)]
        /\ UNCHANGED <<ID_BUSY, locales, mapa>>
    BY <1>7 DEF tremove
  <2> HIDE DEF l, f
  <2>4. Llaves(spatial', ID_BUSY)
    BY <2>1, <2>2, <2>3, BorraLlave
  <2> QED BY <1>1, <2>3, <2>4 DEF Cuerpo, locales, mapa
<1>8. CASE activa
  <2>1. /\ ~noubication /\ SYNC(1) /\ ID_BUSY' = 1 /\ noubication' = TRUE /\ tool' = 3
        /\ spatial' = [k \in Lineas |-> clear_check(spatial[k])]
        /\ UNCHANGED <<mapa, kml, leyendo>>
    BY <1>8 DEF activa, Toma, set_spatial_null
  <2>2. ID_BUSY = -1
    BY <1>1, <2>1 DEF SYNC
  <2>3. ASSUME NEW k \in Lineas PROVE DeLlave(spatial'[k], 1)
    <3>1. spatial'[k].punto = <<>> /\ spatial'[k].linea = <<>>
      <4>1. spatial[k] \in Espacio
        BY <1>2
      <4> QED BY <2>1, <4>1, VaciaSana
    <3>2. DOMAIN <<>> = {}
      OBVIOUS
    <3> QED BY <3>1, <3>2 DEF DeLlave, De
  <2> QED BY <1>1, <2>1, <2>2, <2>3 DEF Cuerpo, Llaves, mapa
<1>9. CASE desactiva
  BY <1>1, <1>9 DEF desactiva
<1>10. CASE verify_all_info
  <2>1. ID_BUSY' = (IF ID_BUSY = 1 THEN 1 ELSE -1) /\ UNCHANGED <<spatial, locales, mapa>>
    BY <1>10 DEF verify_all_info
  <2>2. ID_BUSY' = ID_BUSY
    BY <2>1
  <2> QED BY <1>1, <2>1, <2>2 DEF Cuerpo, locales, mapa
<1>11. ASSUME NEW c \in comunas, remove_point(c[1], c[2]) PROVE Cuerpo'
  <2> DEFINE l == c[1]
             f == c[2]
             q == [spatial[l] EXCEPT !.punto = Saca(@, f)]
  <2>1. l \in Lineas /\ f \in Figura /\ f.de = "comuna"
    BY <1>2 DEF InvCaja
  <2>2. /\ spatial' = [spatial EXCEPT ![l] = q] /\ ID_BUSY' \in {ID_BUSY, -1}
        /\ UNCHANGED <<tool, noubication, mapa, kml, leyendo>>
    BY <1>11 DEF remove_point, verify_geom, Libera
  <2>3. spatial[l] \in Espacio /\ otra[l] \in BOOLEAN /\ Sana(spatial[l], ids, noubication, otra[l])
    BY <1>2, <2>1 DEF Sanas
  <2> HIDE DEF l, f
  <2>4. Hereda(q, spatial[l], {})
    BY <2>1, <2>3, SacaSana
  <2> HIDE DEF q
  <2>5. DeLlave(spatial[l], ID_BUSY)
    BY <1>1, <2>1 DEF Llaves
  <2>6. DeLlave(q, ID_BUSY)
    BY <2>4, <2>5, HeredaLlave
  <2>7. Llaves(spatial', ID_BUSY)
    BY <1>1, <1>2, <2>1, <2>2, <2>6, UnaLlave
  <2>8. ID_BUSY' = ID_BUSY
    BY <2>2
  <2> QED BY <1>1, <2>2, <2>7, <2>8 DEF Cuerpo, mapa
<1> QED BY <1>3, <1>4, <1>5, <1>6, <1>7, <1>8, <1>9, <1>10, <1>11 DEF Panel

LEMMA LInicio == Init => InvLlave
<1> SUFFICES ASSUME Init PROVE Cuerpo
  BY DEF InvLlave
<1>1. PICK antes \in BOOLEAN : (antes => N <= MaxFiguras) /\ load_data(antes)
  BY DEF Init
<1>2. /\ noubication = FALSE /\ clic = "nada" /\ trazo = -1 /\ leyendo = FALSE /\ kml = 0
  BY DEF Init
<1>3. Vacia.punto = <<>> /\ Vacia.linea = <<>> /\ Vacia \in Espacio /\ Vacia.postack \in -2..Len(Vacia.stack) - 1
  <2>1. \A S : <<>> \in Seq(S)
    OBVIOUS
  <2>2. Len(<<>>) = 0
    OBVIOUS
  <2> QED BY <2>1, <2>2 DEF Vacia, Espacio
<1>4. ASSUME NEW b PROVE DeLlave(Vacia, b)
  <2>1. DOMAIN <<>> = {}
    OBVIOUS
  <2> QED BY <1>3, <2>1 DEF DeLlave, De
<1>5. CASE antes
  <2>1. spatial = [l \in Lineas |-> Pone(Vacia, Previa(l))] /\ ID_BUSY = 3 /\ N <= MaxFiguras
    BY <1>1, <1>5 DEF load_data
  <2>2. ASSUME NEW l \in Lineas PROVE DeLlave(Pone(Vacia, Previa(l)), 3)
    <3>1. l \in 1..MaxFiguras
      BY <2>1, Hay
    <3>2. Previa(l) \in Figura /\ Previa(l).de = "previa"
      BY <3>1 DEF Previa, Figura, Tipos, Origen
    <3>3. Hereda(Pone(Vacia, Previa(l)), Vacia, {Previa(l).de})
      BY <1>3, <3>2, PoneHereda
    <3>4. \A d \in {Previa(l).de} : 3 \in Duenio[d]
      BY <3>2 DEF Duenio
    <3> QED BY <1>4, <3>3, <3>4, HeredaLlave
  <2> QED BY <1>2, <2>1, <2>2 DEF Cuerpo, Llaves
<1>6. CASE ~antes
  <2>1. spatial = [l \in Lineas |-> Vacia] /\ ID_BUSY = -1
    BY <1>1, <1>6 DEF load_data
  <2> QED BY <1>2, <1>4, <2>1 DEF Cuerpo, Llaves
<1> QED BY <1>5, <1>6

LEMMA LPaso == TInv /\ InvLlave /\ [Next]_vars => InvLlave'
<1> SUFFICES ASSUME TInv, InvLlave, [Next]_vars, ~ajena' PROVE Cuerpo'
  BY DEF InvLlave
<1>1. CASE Next
  <2>1. ajena' = (ajena \/ (ID_BUSY # -1 /\ ID_BUSY' = -1 /\ EnUso'))
    BY <1>1 DEF Next
  <2>2. Cuerpo
    BY <2>1 DEF InvLlave
  <2>3. CASE ID_BUSY # -1 /\ ID_BUSY' = -1
    <3>1. ~EnUso'
      BY <2>1, <2>3
    <3>2. ID_BUSY' # 1
      BY <2>3
    <3> QED BY <3>1, <3>2, Libre
  <2>4. CASE ID_BUSY = -1 \/ ID_BUSY' # -1
    BY <1>1, <2>2, <2>4, LHerramienta, LMapa, LPanel, LKml DEF Next
  <2> QED BY <2>3, <2>4
<1>2. CASE UNCHANGED vars
  BY <1>2 DEF vars, mapa, InvLlave, Cuerpo
<1> QED BY <1>1, <1>2

(* Until the lock is freed in use, it keeps the three ways of locating       *)
(* apart: on every line and at once, what there is is its holder's.          *)
THEOREM ExclusionSiempre == Spec => []Exclusion
<1>1. InvLlave => Exclusion
  BY DEF InvLlave, Cuerpo, Llaves, DeLlave, De, Exclusion, Tipos
<1> QED BY <1>1, TInicio, TPaso, LInicio, LPaso, PTL DEF Spec
===============================================================================
