------------------------------ MODULE FilesProofs ------------------------------
(* The kernel's open files and their locks, proved for any processes, files  *)
(* and workloads.                                                            *)
EXTENDS Files, QueueLemmas, FiniteSetTheorems, TLAPS

------------------------------------------------------------------------------
(* Counting openings in tables of open files.                                *)

Apertura == [archivo : File, modo : Modo, puntero : Nat]
Tablas == [Process -> Seq(Apertura)]

\* The openings of f in a mode, in the tables t of the processes of V.
Aperturas(t, V, f, modo) ==
  {a \in V \X Nat : /\ a[2] \in 1..Len(t[a[1]])
                    /\ t[a[1]][a[2]].archivo = f /\ t[a[1]][a[2]].modo = modo}

LEMMA SameSize ==
  ASSUME NEW S, NEW T, IsFiniteSet(S), NEW g \in [S -> T],
         \A x, y \in S : g[x] = g[y] => x = y,
         \A y \in T : \E x \in S : g[x] = y
  PROVE  IsFiniteSet(T) /\ Cardinality(T) = Cardinality(S)
<1>1. g \in Bijection(S, T)
  BY DEF Bijection, Injection, Surjection, IsInjective
<1> QED  BY <1>1, FS_Bijection DEF ExistsBijection

LEMMA FiniteProduct ==
  ASSUME NEW S, NEW T, IsFiniteSet(S), IsFiniteSet(T)
  PROVE  IsFiniteSet(S \X T)
<1> DEFINE Bad == {n \in Nat : \E U : /\ IsFiniteSet(U) /\ Cardinality(U) = n
                                      /\ ~IsFiniteSet(U \X T)}
<1>1. SUFFICES ASSUME ~IsFiniteSet(S \X T) PROVE FALSE
  OBVIOUS
<1>2. Cardinality(S) \in Bad
  BY <1>1, FS_CardinalityType
<1>3. PICK n \in Bad : \A m \in Bad : n <= m
  BY <1>2, LeastNumber
<1>4. PICK U : IsFiniteSet(U) /\ Cardinality(U) = n /\ ~IsFiniteSet(U \X T)
  BY <1>3
<1>5. CASE U = {}
  <2>1. U \X T = {}
    BY <1>5
  <2> QED  BY <1>4, <2>1, FS_EmptySet
<1>6. CASE U # {}
  <2>1. PICK x \in U : TRUE
    BY <1>6
  <2> DEFINE V == U \ {x}
  <2>2. IsFiniteSet(V) /\ Cardinality(V) = n - 1
    BY <1>4, <2>1, FS_RemoveElement
  <2>7. Cardinality(V) \in Nat
    BY <2>2, FS_CardinalityType
  <2>3. IsFiniteSet(V \X T)
    <3>1. n - 1 \in Nat /\ ~(n <= n - 1)
      BY <1>3, <2>2, <2>7
    <3>2. n - 1 \notin Bad
      BY <1>3, <3>1
    <3> QED  BY <2>2, <3>1, <3>2
  <2>4. IsFiniteSet({x} \X T)
    <3> DEFINE g == [t \in T |-> <<x, t>>]
    <3>1. /\ g \in [T -> {x} \X T]
          /\ \A t, u \in T : g[t] = g[u] => t = u
          /\ \A y \in {x} \X T : \E t \in T : g[t] = y
      OBVIOUS
    <3> HIDE DEF g
    <3> QED  BY <3>1, SameSize
  <2>5. U \X T = (V \X T) \cup ({x} \X T)
    BY <2>1
  <2>6. IsFiniteSet((V \X T) \cup ({x} \X T))
    BY <2>3, <2>4, FS_Union
  <2> QED  BY <1>4, <2>5, <2>6
<1> QED  BY <1>5, <1>6

LEMMA FiniteOpenings ==
  ASSUME NEW t \in Tablas, NEW V \in SUBSET Process, NEW f, NEW modo, NEW n \in Nat,
         \A p \in Process : Len(t[p]) <= n
  PROVE  IsFiniteSet(Aperturas(t, V, f, modo))
<1>1. IsFiniteSet(V)
  BY FileLocksAssumption, FS_Subset
<1>2. IsFiniteSet(1..n)
  BY FS_Interval
<1>3. IsFiniteSet(V \X (1..n))
  BY <1>1, <1>2, FiniteProduct
<1>4. Aperturas(t, V, f, modo) \subseteq V \X (1..n)
  <2> SUFFICES ASSUME NEW a \in Aperturas(t, V, f, modo)
               PROVE  a \in V \X (1..n)
    OBVIOUS
  <2>1. a[1] \in V /\ a[2] \in 1..Len(t[a[1]]) /\ a = <<a[1], a[2]>>
    BY DEF Aperturas
  <2>2. Len(t[a[1]]) <= n /\ Len(t[a[1]]) \in Nat
    BY <2>1, LenProperties DEF Tablas
  <2>3. a[2] \in 1..n
    BY <2>1, <2>2
  <2> QED  BY <2>1, <2>3
<1> QED  BY <1>3, <1>4, FS_Subset

\* The tables t without entry k of p.
SinApertura(t, p, k) == [t EXCEPT ![p] = RemoveAt(@, k)]

\* An entry that leaves a table is one opening less; those after it move up.
LEMMA OneOpeningLess ==
  ASSUME NEW t \in Tablas, NEW V \in SUBSET Process, NEW f, NEW modo,
         NEW p \in V, NEW k \in 1..Len(t[p]), NEW s,
         s = SinApertura(t, p, k),
         IsFiniteSet(Aperturas(t, V, f, modo))
  PROVE  /\ s \in Tablas
         /\ IsFiniteSet(Aperturas(s, V, f, modo))
         /\ Cardinality(Aperturas(s, V, f, modo)) =
              IF t[p][k].archivo = f /\ t[p][k].modo = modo
              THEN Cardinality(Aperturas(t, V, f, modo)) - 1
              ELSE Cardinality(Aperturas(t, V, f, modo))
<1> USE DEF SinApertura
<1> DEFINE A == Aperturas(t, V, f, modo) \ {<<p, k>>}
           B == Aperturas(s, V, f, modo)
           to(a) == IF a[1] = p /\ a[2] > k THEN <<p, a[2] - 1>> ELSE a
           from(b) == IF b[1] = p /\ b[2] >= k THEN <<p, b[2] + 1>> ELSE b
           g == [a \in A |-> to(a)]
<1>0. p \in Process /\ t[p] \in Seq(Apertura) /\ \A q \in V : Len(t[q]) \in Nat
  BY LenProperties DEF Tablas
<1>1. /\ s[p] \in Seq(Apertura) /\ Len(s[p]) = Len(t[p]) - 1
      /\ \A j \in 1..(Len(t[p]) - 1) : s[p][j] = IF j < k THEN t[p][j] ELSE t[p][j + 1]
      /\ \A q \in Process : q # p => s[q] = t[q]
  <2>1. s[p] = RemoveAt(t[p], k) /\ \A q \in Process : q # p => s[q] = t[q]
    BY <1>0 DEF Tablas
  <2>2. /\ RemoveAt(t[p], k) \in Seq(Apertura) /\ Len(RemoveAt(t[p], k)) = Len(t[p]) - 1
        /\ \A j \in 1..(Len(t[p]) - 1) :
             RemoveAt(t[p], k)[j] = IF j < k THEN t[p][j] ELSE t[p][j + 1]
    BY <1>0, RemoveAtShifts
  <2> QED  BY <2>1, <2>2
<1>2. s \in Tablas
  BY <1>0, <1>1 DEF Tablas
<1>3. \A a \in A : to(a) \in B
  <2> TAKE a \in A
  <2>1. /\ a[1] \in V /\ a[2] \in Nat /\ a = <<a[1], a[2]>> /\ a[2] \in 1..Len(t[a[1]])
        /\ t[a[1]][a[2]].archivo = f /\ t[a[1]][a[2]].modo = modo /\ ~(a[1] = p /\ a[2] = k)
    BY DEF Aperturas
  <2>2. CASE a[1] = p /\ a[2] > k
    <3>0. PICK n \in Nat : n = a[2]
      BY <2>1
    <3>1. a[2] - 1 \in 1..Len(s[p]) /\ s[p][a[2] - 1] = t[p][a[2]] /\ a[2] - 1 \in Nat
      <4>1. n - 1 \in 1..(Len(t[p]) - 1) /\ ~(n - 1 < k) /\ (n - 1) + 1 = n
        BY <1>0, <2>1, <2>2, <3>0
      <4> QED  BY <1>0, <1>1, <2>1, <2>2, <3>0, <4>1
    <3> QED  BY <2>1, <2>2, <3>1 DEF Aperturas
  <2>3. CASE a[1] = p /\ a[2] < k
    <3>1. a[2] \in 1..Len(s[p]) /\ s[p][a[2]] = t[p][a[2]] /\ to(a) = a
      BY <1>0, <1>1, <2>1, <2>3
    <3> QED  BY <2>1, <2>3, <3>1 DEF Aperturas
  <2>4. CASE a[1] # p
    <3>1. s[a[1]] = t[a[1]] /\ to(a) = a
      BY <1>1, <2>1, <2>4
    <3> QED  BY <2>1, <3>1 DEF Aperturas
  <2> QED  BY <2>1, <2>2, <2>3, <2>4
<1>4. \A b \in B : from(b) \in A /\ to(from(b)) = b
  <2> TAKE b \in B
  <2>1. /\ b[1] \in V /\ b[2] \in Nat /\ b = <<b[1], b[2]>> /\ b[2] \in 1..Len(s[b[1]])
        /\ s[b[1]][b[2]].archivo = f /\ s[b[1]][b[2]].modo = modo
    BY DEF Aperturas
  <2>2. CASE b[1] = p /\ b[2] >= k
    <3>1. /\ b[2] + 1 \in 1..Len(t[p]) /\ s[p][b[2]] = t[p][b[2] + 1] /\ b[2] + 1 \in Nat
          /\ b[2] + 1 > k /\ from(b) = <<p, b[2] + 1>> /\ (b[2] + 1) - 1 = b[2]
      BY <1>0, <1>1, <2>1, <2>2
    <3>2. from(b) \in A
      BY <2>1, <2>2, <3>1 DEF Aperturas
    <3>3. to(from(b)) = b
      BY <2>1, <2>2, <3>1
    <3> QED  BY <3>2, <3>3
  <2>3. CASE b[1] = p /\ b[2] < k
    <3>1. b[2] \in 1..Len(t[p]) /\ s[p][b[2]] = t[p][b[2]] /\ from(b) = b /\ to(b) = b
      BY <1>0, <1>1, <2>1, <2>3
    <3> QED  BY <2>1, <2>3, <3>1 DEF Aperturas
  <2>4. CASE b[1] # p
    <3>1. s[b[1]] = t[b[1]] /\ from(b) = b /\ to(b) = b
      BY <1>1, <2>1, <2>4
    <3> QED  BY <2>1, <2>4, <3>1 DEF Aperturas
  <2> QED  BY <2>1, <2>2, <2>3, <2>4
<1>5. \A a, c \in A : to(a) = to(c) => a = c
  <2> TAKE a, c \in A
  <2>1. /\ a[2] \in Nat /\ a = <<a[1], a[2]>> /\ ~(a[1] = p /\ a[2] = k)
        /\ c[2] \in Nat /\ c = <<c[1], c[2]>> /\ ~(c[1] = p /\ c[2] = k)
    BY DEF Aperturas
  <2>2. /\ to(a)[1] = a[1] /\ to(a)[2] = IF a[1] = p /\ a[2] > k THEN a[2] - 1 ELSE a[2]
        /\ to(c)[1] = c[1] /\ to(c)[2] = IF c[1] = p /\ c[2] > k THEN c[2] - 1 ELSE c[2]
    BY <2>1
  <2> HIDE DEF to
  <2>3. to(a) = to(c) => a[1] = c[1] /\ a[2] = c[2]
    BY <1>0, <2>1, <2>2
  <2> QED  BY <2>1, <2>3
<1>6. /\ g \in [A -> B] /\ \A a, c \in A : g[a] = g[c] => a = c
      /\ \A b \in B : \E a \in A : g[a] = b
  <2> HIDE DEF to, from, A, B
  <2> QED  BY <1>3, <1>4, <1>5
<1>7. IsFiniteSet(A) /\ Cardinality(A) = IF <<p, k>> \in Aperturas(t, V, f, modo)
                                         THEN Cardinality(Aperturas(t, V, f, modo)) - 1
                                         ELSE Cardinality(Aperturas(t, V, f, modo))
  BY FS_RemoveElement
<1>8. <<p, k>> \in Aperturas(t, V, f, modo) <=> t[p][k].archivo = f /\ t[p][k].modo = modo
  BY <1>0 DEF Aperturas
<1> HIDE DEF g, A, B
<1>9. IsFiniteSet(B) /\ Cardinality(B) = Cardinality(A)
  BY <1>6, <1>7, SameSize
<1> QED  BY <1>2, <1>7, <1>8, <1>9 DEF B

\* The tables t with an entry more at the end of those of G, and how many of
\* the new ones open f in a mode.
ConAperturas(t, G, r) == [q \in Process |-> IF q \in G THEN Append(t[q], r[q]) ELSE t[q]]
Nuevas(G, r, f, modo) == {q \in G : r[q].archivo = f /\ r[q].modo = modo}

\* Entries at the end of some tables are as many openings more.
LEMMA OpeningsMore ==
  ASSUME NEW t \in Tablas, NEW V \in SUBSET Process, NEW f, NEW modo,
         NEW G \in SUBSET V, NEW r \in [G -> Apertura], NEW s,
         s = ConAperturas(t, G, r),
         IsFiniteSet(Aperturas(t, V, f, modo))
  PROVE  /\ s \in Tablas
         /\ IsFiniteSet(Aperturas(s, V, f, modo))
         /\ IsFiniteSet(Nuevas(G, r, f, modo))
         /\ Cardinality(Aperturas(s, V, f, modo)) = Cardinality(Aperturas(t, V, f, modo))
              + Cardinality(Nuevas(G, r, f, modo))
<1> USE DEF ConAperturas, Nuevas
<1> DEFINE A == Aperturas(t, V, f, modo)
           H == Nuevas(G, r, f, modo)
           N == {<<q, Len(t[q]) + 1>> : q \in H}
           g == [q \in H |-> <<q, Len(t[q]) + 1>>]
<1>0. \A q \in Process : t[q] \in Seq(Apertura) /\ Len(t[q]) \in Nat
  BY LenProperties DEF Tablas
<1>1. \A q \in G : /\ q \in Process /\ s[q] = Append(t[q], r[q]) /\ s[q] \in Seq(Apertura)
                   /\ Len(s[q]) = Len(t[q]) + 1 /\ s[q][Len(t[q]) + 1] = r[q]
                   /\ \A j \in 1..Len(t[q]) : s[q][j] = t[q][j]
  <2> TAKE q \in G
  <2>1. q \in Process /\ s[q] = Append(t[q], r[q]) /\ t[q] \in Seq(Apertura) /\ r[q] \in Apertura
    BY <1>0
  <2>2. /\ Append(t[q], r[q]) \in Seq(Apertura)
        /\ Len(Append(t[q], r[q])) = Len(t[q]) + 1
        /\ Append(t[q], r[q])[Len(t[q]) + 1] = r[q]
        /\ \A j \in 1..Len(t[q]) : Append(t[q], r[q])[j] = t[q][j]
    BY <2>1, AppendProperties
  <2> QED  BY <2>1, <2>2
<1>2. \A q \in Process : q \notin G => s[q] = t[q]
  OBVIOUS
<1>3. s \in Tablas
  <2>1. s = [q \in Process |-> s[q]]
    OBVIOUS
  <2>2. \A q \in Process : s[q] \in Seq(Apertura)
    BY <1>0, <1>1, <1>2
  <2> HIDE DEF Apertura
  <2> QED  BY <2>1, <2>2 DEF Tablas
<1>4. \A a \in V \X Nat : a \in Aperturas(s, V, f, modo) <=> a \in A \/ a \in N
  <2> TAKE a \in V \X Nat
  <2>1. PICK q \in V, i \in Nat : a = <<q, i>>
    OBVIOUS
  <2>2. q \in Process /\ Len(t[q]) \in Nat
    BY <1>0, <2>1
  <2>3. /\ a \in A <=> i \in 1..Len(t[q]) /\ t[q][i].archivo = f /\ t[q][i].modo = modo
        /\ a \in Aperturas(s, V, f, modo)
             <=> i \in 1..Len(s[q]) /\ s[q][i].archivo = f /\ s[q][i].modo = modo
    BY <2>1 DEF Aperturas
  <2>4. a \in N <=> q \in H /\ i = Len(t[q]) + 1
    BY <2>1
  <2>5. CASE q \in G
    <3>1. /\ Len(s[q]) = Len(t[q]) + 1 /\ s[q][Len(t[q]) + 1] = r[q]
          /\ \A j \in 1..Len(t[q]) : s[q][j] = t[q][j]
      BY <1>1, <2>5
    <3>2. q \in H <=> r[q].archivo = f /\ r[q].modo = modo
      BY <2>5
    <3>3. CASE i = Len(t[q]) + 1
      BY <2>2, <2>3, <2>4, <3>1, <3>2, <3>3
    <3>4. CASE i # Len(t[q]) + 1
      <4>1. i \in 1..Len(s[q]) <=> i \in 1..Len(t[q])
        BY <2>1, <2>2, <3>1, <3>4
      <4> QED  BY <2>3, <2>4, <3>1, <3>4, <4>1
    <3> QED  BY <3>3, <3>4
  <2>6. CASE q \notin G
    <3>1. q \notin H /\ s[q] = t[q]
      BY <1>2, <2>2, <2>6
    <3> QED  BY <2>3, <2>4, <3>1
  <2> QED  BY <2>5, <2>6
<1>5. N \subseteq V \X Nat /\ A \subseteq V \X Nat /\ Aperturas(s, V, f, modo) \subseteq V \X Nat
  <2>1. \A q \in H : <<q, Len(t[q]) + 1>> \in V \X Nat
    BY <1>0
  <2> QED  BY <2>1 DEF Aperturas
<1>6. A \cap N = {}
  <2> SUFFICES ASSUME NEW q \in H, <<q, Len(t[q]) + 1>> \in A PROVE FALSE
    OBVIOUS
  <2>1. Len(t[q]) \in Nat /\ Len(t[q]) + 1 \in 1..Len(t[q])
    BY <1>0 DEF Aperturas
  <2> QED  BY <2>1
<1>7. IsFiniteSet(H)
  BY FileLocksAssumption, FS_Subset
<1>8. g \in [H -> N] /\ \A x, y \in H : g[x] = g[y] => x = y
  OBVIOUS
<1>9. \A y \in N : \E x \in H : g[x] = y
  OBVIOUS
<1> HIDE DEF A, H, N, g, Nuevas, ConAperturas
<1>10. IsFiniteSet(N) /\ Cardinality(N) = Cardinality(H)
  BY <1>7, <1>8, <1>9, SameSize
<1>11. Aperturas(s, V, f, modo) = A \cup N
  BY <1>4, <1>5
<1>12. IsFiniteSet(A)
  BY DEF A
<1>13. /\ IsFiniteSet(A \cup N)
       /\ Cardinality(A \cup N) = Cardinality(A) + Cardinality(N) - Cardinality(A \cap N)
  BY <1>10, <1>12, FS_Union
<1>14. Cardinality(A \cap N) = 0 /\ Cardinality(A) \in Nat /\ Cardinality(N) \in Nat
  BY <1>6, <1>10, <1>12, FS_EmptySet, FS_CardinalityType
<1> QED  BY <1>3, <1>7, <1>10, <1>11, <1>13, <1>14 DEF A, H

------------------------------------------------------------------------------
(* What is true of the locks.                                                *)

Pedido == [pid : Process, modo : Modo]
Libro == [hay : BOOLEAN, escritura : BOOLEAN, lectura : Int, cola : Seq(Pedido)]

LockTyping ==
  /\ open_files \in [File -> Libro]
  /\ archivos \in Tablas /\ \A p \in Process : Len(archivos[p]) <= MaxOpen
  /\ pending_file \in [Process -> {SinPendiente} \cup (File \X Modo)]
  /\ estado \in [Process -> {"listo", "block", "fin"}]
  /\ llamada # SinLlamada => llamada.archivo \in File
  /\ kernel \in {"up", "down"}
  /\ incidentes \subseteq {"mixed", "dropped", "abandoned", "waiter"}
  /\ carga \in Cargas /\ caidas \in 0 .. MaxCaidas

\* A file nobody has asked for has no locks.
Absent == \A f \in File : ~open_files[f].hay => open_files[f] = SinEntrada

\* A process waits in the queue of the file it is pending on, in one place;
\* nobody else is there, but for those that ended while they waited.
Queued ==
  kernel = "up" =>
    /\ \A f \in File : \A i \in 1..Len(open_files[f].cola) :
         pending_file[open_files[f].cola[i].pid] = <<f, open_files[f].cola[i].modo>>
    /\ \A f \in File : \A i, j \in 1..Len(open_files[f].cola) :
         open_files[f].cola[i].pid = open_files[f].cola[j].pid => i = j
    /\ \A p \in Process : pending_file[p] # SinPendiente =>
         \/ estado[p] = "block"
         \/ estado[p] = "fin" /\ "waiter" \in incidentes
    /\ \A p \in Process : estado[p] = "block" =>
         /\ pending_file[p] # SinPendiente
         /\ Len(archivos[p]) < MaxOpen
         /\ \E i \in 1..Len(open_files[pending_file[p][1]].cola) :
              open_files[pending_file[p][1]].cola[i].pid = p

\* An opening for writing is the only one, until one is made beside readers.
Exclusive(f) ==
  "mixed" \notin incidentes /\ Cuenta(f, "W") > 0 => Cuenta(f, "W") = 1 /\ Cuenta(f, "R") = 0

\* Whoever writes holds the lock, nobody reads under it, and behind a queue
\* every reader is counted.
Locked(f) ==
  kernel = "up" /\ "mixed" \notin incidentes =>
    /\ Cuenta(f, "W") > 0 => open_files[f].escritura
    /\ open_files[f].escritura => Cuenta(f, "R") = 0
    /\ open_files[f].lectura >= 0
    /\ open_files[f].cola # <<>> => open_files[f].lectura >= Cuenta(f, "R")

\* While nobody has ended with a file open, a lock has an owner alive, and a
\* file with a queue is held.
Owned(f) ==
  kernel = "up" /\ "mixed" \notin incidentes /\ "abandoned" \notin incidentes =>
    /\ open_files[f].escritura => Cuenta(f, "W") = 1
    /\ open_files[f].lectura <= Cuenta(f, "R")
    /\ open_files[f].cola # <<>> => open_files[f].escritura \/ open_files[f].lectura > 0

\* The read count is that of the readers, until the entry is dropped.
Counted(f) ==
  /\ kernel = "up"
  /\ "mixed" \notin incidentes /\ "dropped" \notin incidentes /\ "abandoned" \notin incidentes
  => open_files[f].lectura = Cuenta(f, "R")

Held(f) == Exclusive(f) /\ Locked(f) /\ Owned(f) /\ Counted(f)

------------------------------------------------------------------------------
LEMMA Counts ==
  ASSUME LockTyping, NEW f \in File, NEW modo \in Modo
  PROVE  /\ Vivos \in SUBSET Process
         /\ {a \in Abiertos(f) : ModoDe(a) = modo} = Aperturas(archivos, Vivos, f, modo)
         /\ IsFiniteSet(Aperturas(archivos, Vivos, f, modo))
         /\ Cuenta(f, modo) = Cardinality(Aperturas(archivos, Vivos, f, modo))
         /\ Cuenta(f, modo) \in Nat
<1>1. Vivos \in SUBSET Process
  BY DEF Vivos
<1>2. \A p \in Process : archivos[p] \in Seq(Apertura) /\ DOMAIN archivos[p] = 1..Len(archivos[p])
                         /\ Len(archivos[p]) \in Nat
  BY LenProperties DEF LockTyping, Tablas
<1>3. \A a : a \in {b \in Abiertos(f) : ModoDe(b) = modo} <=> a \in Aperturas(archivos, Vivos, f, modo)
  <2> TAKE a
  <2>1. a \in Abiertos(f) <=> \E p \in Vivos : a \in {p} \X Posiciones(p, f)
    BY DEF Abiertos
  <2>2. a \in Abiertos(f) => /\ a = <<a[1], a[2]>> /\ a[1] \in Vivos /\ a[2] \in 1..Len(archivos[a[1]])
                             /\ archivos[a[1]][a[2]].archivo = f
    BY <1>1, <1>2, <2>1 DEF Posiciones
  <2>3. a \in Aperturas(archivos, Vivos, f, modo) => a \in Abiertos(f)
    <3> HAVE a \in Aperturas(archivos, Vivos, f, modo)
    <3>1. /\ a \in Vivos \X Nat /\ a[2] \in 1..Len(archivos[a[1]])
          /\ archivos[a[1]][a[2]].archivo = f
      BY DEF Aperturas
    <3>2. a[1] \in Vivos /\ a = <<a[1], a[2]>> /\ a[1] \in Process
      BY <1>1, <3>1
    <3>3. a[2] \in Posiciones(a[1], f)
      BY <1>2, <3>1, <3>2 DEF Posiciones
    <3> QED  BY <2>1, <3>2, <3>3
  <2>4. a \in Abiertos(f) => (a \in Aperturas(archivos, Vivos, f, modo) <=> ModoDe(a) = modo)
    <3> HAVE a \in Abiertos(f)
    <3>1. a[2] \in Nat
      BY <1>1, <1>2, <2>2
    <3> QED  BY <2>2, <3>1 DEF Aperturas, ModoDe
  <2>5. a \in Aperturas(archivos, Vivos, f, modo) => ModoDe(a) = modo
    BY DEF Aperturas, ModoDe
  <2> QED  BY <2>3, <2>4, <2>5
<1>4. {a \in Abiertos(f) : ModoDe(a) = modo} = Aperturas(archivos, Vivos, f, modo)
  BY <1>3
<1>5. IsFiniteSet(Aperturas(archivos, Vivos, f, modo))
  <2>1. MaxOpen \in Nat
    BY FileLocksAssumption
  <2> QED  BY <1>1, <2>1, FiniteOpenings DEF LockTyping
<1>6. Cuenta(f, modo) = Cardinality(Aperturas(archivos, Vivos, f, modo))
  BY <1>4 DEF Cuenta
<1> QED  BY <1>1, <1>4, <1>5, <1>6, FS_CardinalityType

\* The counts change with the tables and with who is alive.
LEMMA SameCounts ==
  ASSUME archivos' = archivos, Vivos' = Vivos, NEW f, NEW modo
  PROVE  Cuenta(f, modo)' = Cuenta(f, modo) /\ Abiertos(f)' = Abiertos(f)
<1>1. \A p : Posiciones(p, f)' = Posiciones(p, f)
  BY DEF Posiciones
<1>2. Abiertos(f)' = Abiertos(f)
  BY <1>1 DEF Abiertos
<1>3. {a \in Abiertos(f)' : archivos'[a[1]][a[2]].modo = modo}
        = {a \in Abiertos(f) : ModoDe(a) = modo}
  BY <1>2 DEF ModoDe
<1> QED  BY <1>2, <1>3 DEF Cuenta, ModoDe

LEMMA OpensNothing ==
  ASSUME LockTyping, NEW f \in File
  PROVE  Abiertos(f) # {} <=> Cuenta(f, "R") + Cuenta(f, "W") > 0
<1>1. "R" \in Modo /\ "W" \in Modo
  BY DEF Modo
<1>2. \A a \in Abiertos(f) : ModoDe(a) \in Modo
  <2> SUFFICES ASSUME NEW a \in Abiertos(f) PROVE ModoDe(a) \in Modo
    OBVIOUS
  <2>1. PICK p \in Vivos : a \in {p} \X Posiciones(p, f)
    BY DEF Abiertos
  <2>2. p \in Process /\ a[1] = p /\ a[2] \in DOMAIN archivos[p]
    BY <2>1 DEF Vivos, Posiciones
  <2>3. archivos[p][a[2]] \in Apertura
    BY <2>2, LenProperties DEF LockTyping, Tablas
  <2> QED  BY <2>2, <2>3 DEF ModoDe, Apertura
<1>3. \A m \in Modo : /\ IsFiniteSet({a \in Abiertos(f) : ModoDe(a) = m})
                      /\ Cuenta(f, m) = Cardinality({a \in Abiertos(f) : ModoDe(a) = m})
                      /\ Cuenta(f, m) \in Nat
  BY Counts DEF Cuenta
<1>4. \A m \in Modo : Cuenta(f, m) = 0 <=> {a \in Abiertos(f) : ModoDe(a) = m} = {}
  BY <1>3, FS_EmptySet
<1>5. Abiertos(f) = {} <=> \A m \in Modo : {a \in Abiertos(f) : ModoDe(a) = m} = {}
  BY <1>1, <1>2
<1>6. Abiertos(f) = {} <=> Cuenta(f, "R") = 0 /\ Cuenta(f, "W") = 0
  BY <1>4, <1>5 DEF Modo
<1>7. PICK r \in Nat, w \in Nat : r = Cuenta(f, "R") /\ w = Cuenta(f, "W")
  BY <1>1, <1>3
<1>8. r + w > 0 <=> ~(r = 0 /\ w = 0)
  OBVIOUS
<1> QED  BY <1>6, <1>7, <1>8

LEMMA CountsNow ==
  LockTyping => \A f \in File, modo \in Modo :
    /\ Vivos \in SUBSET Process
    /\ IsFiniteSet(Aperturas(archivos, Vivos, f, modo))
    /\ Cuenta(f, modo) = Cardinality(Aperturas(archivos, Vivos, f, modo))
    /\ Cuenta(f, modo) \in Nat
BY Counts

LEMMA CountsNext ==
  LockTyping' => (\A f \in File, modo \in Modo :
    /\ Vivos \in SUBSET Process
    /\ IsFiniteSet(Aperturas(archivos, Vivos, f, modo))
    /\ Cuenta(f, modo) = Cardinality(Aperturas(archivos, Vivos, f, modo))
    /\ Cuenta(f, modo) \in Nat)'
BY CountsNow, PTL

LEMMA CountsAfter ==
  ASSUME LockTyping', NEW f \in File, NEW modo \in Modo
  PROVE  /\ Cuenta(f, modo)' = Cardinality(Aperturas(archivos', Vivos', f, modo))
         /\ Cuenta(f, modo)' \in Nat
<1>1. Aperturas(archivos, Vivos, f, modo)' = Aperturas(archivos', Vivos', f, modo)
  BY DEF Aperturas
<1> QED  BY CountsNext, <1>1

------------------------------------------------------------------------------
(* What a step does to the locks.                                            *)

\* A call, or its answer, that moves no lock.
Callado ==
  /\ \/ open_files' = open_files
     \/ \E f \in File : open_files' = [open_files EXCEPT ![f] = GetFile(f)]
  /\ llamada' # SinLlamada => llamada'.archivo \in File
  /\ UNCHANGED <<archivos, pending_file, estado, kernel, incidentes>>

Cierre(p, f) == Atiende(p) /\ Tiene(p, f) /\ CloseOpen(p, f) /\ UNCHANGED llamada

LockStep ==
  \/ \E p \in Process, f \in File, modo \in Modo : FOpen(p, f, modo)
  \/ \E p \in Process, f \in File : Cierre(p, f)
  \/ \E p \in Process, f \in File, n \in Nat : FSeek(p, f, n)
  \/ Callado
  \/ \E p \in Process : Exit(p)

LEMMA CallSteps ==
  ASSUME LockTyping, NEW p \in carga.procesos, NEW f \in carga.archivos, Call(p, f)
  PROVE  LockStep
<1>0. /\ p \in Process /\ f \in File /\ carga.modos \subseteq Modo
      /\ carga.punteros \subseteq Nat /\ carga.tamanios \subseteq Nat
  BY FilesAssumption DEF LockTyping
<1>1. ASSUME NEW modo \in carga.modos, Open(p, f, modo)
      PROVE  LockStep
  BY <1>0, <1>1 DEF Open, LockStep
<1>2. CASE Close(p, f)
  <2>1. FClose(p, f)
    BY <1>2 DEF Close
  <2>2. CASE Tiene(p, f)
    BY <1>0, <2>1, <2>2 DEF FClose, Cierre, LockStep
  <2>3. CASE ~Tiene(p, f)
    <3>1. Callado
      BY <1>0, <2>1, <2>3 DEF FClose, Callado, Atiende
    <3> QED  BY <3>1 DEF LockStep
  <2> QED  BY <2>2, <2>3
<1>3. CASE Read(p, f) \/ Write(p, f)
  <2>1. llamada'.archivo = f /\ UNCHANGED <<tableVars, estado, kernel, incidentes>>
    BY <1>3 DEF Read, Write, FRead, FWrite, Pedir
  <2>2. Callado
    BY <1>0, <2>1 DEF Callado, tableVars
  <2> QED  BY <2>2 DEF LockStep
<1>4. ASSUME NEW n \in carga.punteros, Seek(p, f, n)
      PROVE  LockStep
  BY <1>0, <1>4 DEF Seek, LockStep
<1>5. ASSUME NEW n \in carga.tamanios, Truncate(p, f, n)
      PROVE  LockStep
  <2>1. /\ llamada'.archivo = f /\ open_files' = [open_files EXCEPT ![f] = GetFile(f)]
        /\ UNCHANGED <<archivos, pending_file, estado, kernel, incidentes>>
    BY <1>5 DEF Truncate, FTruncate, Pedir
  <2>2. Callado
    BY <1>0, <2>1 DEF Callado
  <2> QED  BY <2>2 DEF LockStep
<1> QED  BY <1>1, <1>2, <1>3, <1>4, <1>5 DEF Call

LEMMA Steps ==
  ASSUME LockTyping, [Next]_vars
  PROVE  \/ Restart
         \/ LockStep /\ UNCHANGED <<carga, caidas>>
<1>1. ASSUME LockTyping, UNCHANGED lockVars
      PROVE  LockStep
  <2>1. Callado
    BY <1>1 DEF Callado, lockVars, tableVars, LockTyping
  <2> QED  BY <2>1 DEF LockStep
<1>2. ASSUME Respuesta
      PROVE  LockStep
  <2>1. Callado
    BY <1>2 DEF Respuesta, Callado, LockTyping
  <2> QED  BY <2>1 DEF LockStep
<1>3. CASE Step /\ UNCHANGED <<carga, caidas>>
  <2>1. ASSUME NEW p \in carga.procesos, NEW f \in carga.archivos, Call(p, f)
        PROVE  LockStep
    BY <2>1, CallSteps
  <2>2. ASSUME NEW p \in carga.procesos, End(p)
        PROVE  LockStep
    <3>1. p \in Process /\ Exit(p)
      BY <2>2, FilesAssumption DEF LockTyping, End
    <3> QED  BY <3>1 DEF LockStep
  <2>3. CASE ServeTruncate
    BY <1>1, <1>2, <1>3, <2>3 DEF ServeTruncate
  <2>4. CASE ServeRead
    BY <1>2, <1>3, <2>4 DEF ServeRead
  <2>5. CASE ServeWrite
    BY <1>2, <1>3, <2>5 DEF ServeWrite
  <2> QED  BY <1>3, <2>1, <2>2, <2>3, <2>4, <2>5 DEF Step
<1>4. CASE UNCHANGED vars
  BY <1>1, <1>4 DEF vars
<1> QED  BY <1>3, <1>4 DEF Next

------------------------------------------------------------------------------
(* A file handed on.                                                         *)

LEMMA EmptyLock == SinEntrada \in Libro /\ EntradaNueva \in Libro
<1>1. <<>> \in Seq(Pedido)
  BY EmptySeq
<1>2. SinEntrada \in Libro
  BY <1>1 DEF SinEntrada, Libro
<1>3. EntradaNueva \in Libro
  BY <1>2 DEF EntradaNueva, Libro
<1> QED  BY <1>2, <1>3

LEMMA FileLock ==
  ASSUME LockTyping, Absent, NEW f \in File
  PROVE  /\ open_files[f] \in Libro /\ GetFile(f) \in Libro /\ GetFile(f).hay
         /\ GetFile(f).escritura = open_files[f].escritura
         /\ GetFile(f).lectura = open_files[f].lectura
         /\ GetFile(f).cola = open_files[f].cola
<1>1. open_files[f] \in Libro
  BY DEF LockTyping
<1>2. CASE open_files[f].hay
  BY <1>1, <1>2 DEF GetFile
<1>3. CASE ~open_files[f].hay
  <2>1. open_files[f] = SinEntrada /\ GetFile(f) = EntradaNueva
    BY <1>3 DEF Absent, GetFile
  <2> QED  BY <1>1, <2>1, EmptyLock DEF SinEntrada, EntradaNueva
<1> QED  BY <1>2, <1>3

\* The first n of a queue are the next ones: one writer, or readers.
Tanda(cola, n) ==
  /\ n \in 0..Len(cola) /\ (cola # <<>> => n > 0)
  /\ (n = 1 /\ cola[1].modo = "W") \/ \A i \in 1..n : cola[i].modo = "R"

LEMMA GreatestNumber ==
  ASSUME NEW S, NEW n \in Nat, S \subseteq 0..n, S # {}
  PROVE  LET x == CHOOSE k \in S : \A j \in S : j <= k
         IN  x \in S /\ \A j \in S : j <= x
<1> DEFINE D == {n - k : k \in S}
<1>1. D \subseteq Nat /\ D # {}
  <2>1. \A k \in S : n - k \in Nat
    OBVIOUS
  <2> QED  BY <2>1
<1>2. Min(D) \in D /\ \A y \in D : Min(D) <= y
  BY <1>1, LeastNumber
<1>3. PICK k \in S : Min(D) = n - k
  BY <1>2
<1>4. \A j \in S : j <= k
  <2> TAKE j \in S
  <2>1. n - k <= n - j
    BY <1>2, <1>3
  <2> QED  BY <2>1
<1> QED  BY <1>4

LEMMA NextInLine ==
  ASSUME NEW cola \in Seq(Pedido)
  PROVE  \E n \in Nat : /\ Tanda(cola, n) /\ Siguientes(cola) \in Seq(Pedido)
                        /\ Len(Siguientes(cola)) = n
                        /\ \A i \in 1..n : Siguientes(cola)[i] = cola[i]
<1> DEFINE lectores == {k \in 0..Len(cola) : \A i \in 1..k : cola[i].modo = "R"}
           k == CHOOSE x \in lectores : \A j \in lectores : j <= x
           n == IF k = 0 /\ cola # <<>> THEN 1 ELSE k
<1>0. Len(cola) \in Nat /\ \A i \in 1..Len(cola) : cola[i] \in Pedido
  BY LenProperties
<1>1. 0 \in lectores /\ lectores \subseteq 0..Len(cola)
  BY <1>0
<1>2. k \in lectores /\ \A j \in lectores : j <= k
  BY <1>0, <1>1, GreatestNumber
<1>3. Siguientes(cola) = SubSeq(cola, 1, n)
  BY DEF Siguientes
<1>4. cola # <<>> => Len(cola) > 0
  BY <1>0, EmptySeq
<1> HIDE DEF k
<1>5. k \in 0..Len(cola) /\ \A i \in 1..k : cola[i].modo = "R"
  BY <1>2
<1>6. n \in 0..Len(cola) /\ (cola # <<>> => n > 0)
  <2>1. k \in Nat
    BY <1>0, <1>5
  <2> QED  BY <1>0, <1>4, <1>5, <2>1
<1>7. (n = 1 /\ cola[1].modo = "W") \/ \A i \in 1..n : cola[i].modo = "R"
  <2>1. CASE k = 0 /\ cola # <<>>
    <3>1. 1 \notin lectores
      BY <1>2, <2>1
    <3>2. cola[1].modo # "R" /\ cola[1] \in Pedido
      <4>1. 1 \in 0..Len(cola) /\ 1 \in 1..Len(cola) /\ \A i \in 1..1 : i = 1
        BY <1>0, <1>4, <2>1
      <4> QED  BY <1>0, <3>1, <4>1
    <3> QED  BY <2>1, <3>2 DEF Pedido, Modo
  <2>2. CASE ~(k = 0 /\ cola # <<>>)
    BY <1>5, <2>2
  <2> QED  BY <2>1, <2>2
<1> HIDE DEF n
<1>8. /\ SubSeq(cola, 1, n) \in Seq(Pedido) /\ Len(SubSeq(cola, 1, n)) = n
      /\ \A i \in 1..n : SubSeq(cola, 1, n)[i] = cola[i]
  <2>1. n \in Nat /\ \A i \in 1..n : cola[i] \in Pedido
    BY <1>0, <1>6
  <2>2. /\ SubSeq(cola, 1, n) \in Seq(Pedido)
        /\ Len(SubSeq(cola, 1, n)) = IF 1 <= n THEN n - 1 + 1 ELSE 0
        /\ \A i \in 1..(n - 1 + 1) : SubSeq(cola, 1, n)[i] = cola[1 + i - 1]
    BY <1>0, <2>1, SubSeqProperties
  <2> QED  BY <2>1, <2>2
<1>9. n \in Nat /\ Tanda(cola, n)
  BY <1>0, <1>6, <1>7 DEF Tanda
<1> QED  BY <1>3, <1>8, <1>9

LEMMA HandOn ==
  ASSUME NEW e \in Libro
  PROVE  \E n \in Nat : LET sig == Siguientes(e.cola)
                            d == Desencolar(e)
                            W == n = 1 /\ e.cola[1].modo = "W"
         IN /\ Tanda(e.cola, n) /\ sig \in Seq(Pedido) /\ Len(sig) = n
            /\ \A i \in 1..n : sig[i] = e.cola[i]
            /\ d \in Libro /\ d.hay = e.hay /\ d.escritura = (e.escritura \/ W)
            /\ d.lectura = e.lectura + (IF W THEN 0 ELSE n)
            /\ Len(d.cola) = Len(e.cola) - n
            /\ \A i \in 1..(Len(e.cola) - n) : d.cola[i] = e.cola[n + i]
<1> DEFINE sig == Siguientes(e.cola)
           L == {i \in DOMAIN sig : sig[i].modo = "R"}
           c == SubSeq(e.cola, Len(sig) + 1, Len(e.cola))
<1>0. /\ e.cola \in Seq(Pedido) /\ Len(e.cola) \in Nat /\ e.lectura \in Int
      /\ \A i \in 1..Len(e.cola) : e.cola[i] \in Pedido
      /\ e.hay \in BOOLEAN /\ e.escritura \in BOOLEAN
  BY LenProperties DEF Libro
<1>1. PICK n \in Nat : /\ Tanda(e.cola, n) /\ sig \in Seq(Pedido) /\ Len(sig) = n
                       /\ \A i \in 1..n : sig[i] = e.cola[i]
  BY <1>0, NextInLine
<1> DEFINE W == n = 1 /\ e.cola[1].modo = "W"
<1>2. DOMAIN sig = 1..n
  BY <1>1, LenProperties
<1>3. Cardinality(L) = IF W THEN 0 ELSE n
  <2>1. CASE W
    <3>1. L = {}
      BY <1>1, <1>2, <2>1
    <3> QED  BY <2>1, <3>1, FS_EmptySet
  <2>2. CASE ~W
    <3>1. L = 1..n
      BY <1>1, <1>2, <2>2 DEF Tanda
    <3>2. Cardinality(1..n) = n
      BY <1>1, FS_Interval
    <3> QED  BY <2>2, <3>1, <3>2
  <2> QED  BY <2>1, <2>2
<1>4. (Len(sig) > Cardinality(L)) <=> W
  BY <1>1, <1>3
<1>5. /\ c \in Seq(Pedido) /\ Len(c) = Len(e.cola) - n
      /\ \A i \in 1..(Len(e.cola) - n) : c[i] = e.cola[n + i]
  <2>1. n + 1 \in 1..(Len(e.cola) + 1) /\ \A i \in (n + 1)..Len(e.cola) : e.cola[i] \in Pedido
    BY <1>0, <1>1 DEF Tanda
  <2>2. /\ c \in Seq(Pedido)
        /\ Len(c) = IF n + 1 <= Len(e.cola) THEN Len(e.cola) - (n + 1) + 1 ELSE 0
        /\ \A i \in 1..(Len(e.cola) - (n + 1) + 1) : c[i] = e.cola[(n + 1) + i - 1]
    BY <1>0, <1>1, <2>1, SubSeqProperties
  <2>3. PICK m \in Nat : m = Len(e.cola) /\ n <= m
    BY <1>0, <1>1 DEF Tanda
  <2>4. Len(c) = m - n
    <3>1. Len(c) = IF n + 1 <= m THEN m - (n + 1) + 1 ELSE 0
      BY <2>2, <2>3
    <3>2. m - (n + 1) + 1 = m - n /\ (~(n + 1 <= m) => m - n = 0)
      BY <2>3
    <3> HIDE DEF c
    <3> QED  BY <3>1, <3>2
  <2>5. \A i \in 1..(m - n) : c[i] = e.cola[n + i]
    <3> TAKE i \in 1..(m - n)
    <3>1. i \in 1..(m - (n + 1) + 1) /\ (n + 1) + i - 1 = n + i
      BY <2>3
    <3> QED  BY <2>2, <2>3, <3>1
  <2> QED  BY <2>2, <2>3, <2>4, <2>5
<1>6. Desencolar(e) = [e EXCEPT !.cola = c, !.lectura = @ + Cardinality(L),
                                !.escritura = @ \/ Len(sig) > Cardinality(L)]
  BY DEF Desencolar
<1> HIDE DEF c, L, sig
<1>7. PICK m \in Int : m = e.lectura + Cardinality(L) /\ m = e.lectura + IF W THEN 0 ELSE n
  BY <1>0, <1>3
<1>8. PICK b \in BOOLEAN : b = (e.escritura \/ Len(sig) > Cardinality(L)) /\ b = (e.escritura \/ W)
  BY <1>0, <1>4, Zenon
<1>9. Desencolar(e) = [hay |-> e.hay, escritura |-> b, lectura |-> m, cola |-> c]
  BY <1>6, <1>7, <1>8 DEF Libro
<1>10. Desencolar(e) \in Libro
  BY <1>0, <1>5, <1>9 DEF Libro
<1> QED  BY <1>1, <1>5, <1>7, <1>8, <1>9, <1>10 DEF sig

------------------------------------------------------------------------------
(* What a close does, when p leaves f, which is entry k of its table, and    *)
(* the first n of the queue are handed the file.                             *)

SinEntradaK(p, k) == [archivos EXCEPT ![p] = RemoveAt(@, k)]
Primeros(f, n) == {open_files[f].cola[i].pid : i \in 1..n}
Escritor(f, n) == n = 1 /\ open_files[f].cola[1].modo = "W"

\* The entry of the file.
Devuelto(p, f, k, n) ==
  /\ k \in 1..Len(archivos[p]) /\ archivos[p][k].archivo = f
  /\ n \in 0..Len(open_files[f].cola)
  /\ Escritor(f, n) \/ \A i \in 1..n : open_files[f].cola[i].modo = "R"
  /\ open_files[f].cola # <<>> =>
       (n > 0 <=> archivos[p][k].modo = "W" \/ open_files[f].lectura <= 1)
  /\ open_files' = [open_files EXCEPT ![f] = open_files'[f]] /\ open_files'[f] \in Libro
  /\ open_files[f].cola = <<>> => open_files'[f] = SinEntrada
  /\ open_files[f].cola # <<>> =>
       /\ open_files'[f].hay
       /\ open_files'[f].escritura
            = ((open_files[f].escritura /\ archivos[p][k].modo # "W") \/ Escritor(f, n))
       /\ open_files'[f].lectura = open_files[f].lectura
            - (IF archivos[p][k].modo = "W" THEN 0 ELSE 1) + (IF Escritor(f, n) THEN 0 ELSE n)
       /\ Len(open_files'[f].cola) = Len(open_files[f].cola) - n
       /\ \A i \in 1..(Len(open_files[f].cola) - n) :
            open_files'[f].cola[i] = open_files[f].cola[n + i]
  /\ incidentes \subseteq incidentes' /\ incidentes' \subseteq incidentes \cup {"dropped"}
  /\ open_files[f].cola = <<>> /\ "dropped" \notin incidentes' => Abiertos(f) \subseteq {<<p, k>>}

\* The processes.
Entregado(p, f, k, n) ==
  \/ /\ Primeros(f, n) \subseteq Vivos
     /\ archivos' = [q \in Process |->
          IF q \in Primeros(f, n)
          THEN Append(SinEntradaK(p, k)[q], [archivo |-> f, modo |-> pending_file[q][2], puntero |-> 0])
          ELSE SinEntradaK(p, k)[q]]
     /\ pending_file' = [q \in Process |-> IF q \in Primeros(f, n) THEN SinPendiente ELSE pending_file[q]]
     /\ estado' = [q \in Process |-> IF q \in Primeros(f, n) THEN "listo" ELSE estado[q]]
     /\ kernel' = kernel
  \/ /\ ~(Primeros(f, n) \subseteq Vivos)
     /\ archivos' = SinEntradaK(p, k) /\ kernel' = "down"
     /\ UNCHANGED <<pending_file, estado>>

LEMMA QueueTypes ==
  ASSUME LockTyping, NEW f \in File
  PROVE  /\ Len(open_files[f].cola) \in Nat /\ DOMAIN open_files[f].cola = 1..Len(open_files[f].cola)
         /\ \A i \in 1..Len(open_files[f].cola) :
              /\ open_files[f].cola[i] \in Pedido
              /\ open_files[f].cola[i].pid \in Process /\ open_files[f].cola[i].modo \in Modo
<1>1. open_files[f].cola \in Seq(Pedido)
  BY DEF LockTyping, Libro
<1>2. /\ Len(open_files[f].cola) \in Nat
      /\ DOMAIN open_files[f].cola = 1..Len(open_files[f].cola)
      /\ \A i \in 1..Len(open_files[f].cola) : open_files[f].cola[i] \in Pedido
  BY <1>1, LenProperties
<1>3. \A x \in Pedido : x.pid \in Process /\ x.modo \in Modo
  BY DEF Pedido
<1> QED  BY <1>2, <1>3

LEMMA FirstPlace ==
  ASSUME LockTyping, NEW p \in Process, NEW f \in File, Tiene(p, f)
  PROVE  Primera(p, f) \in 1..Len(archivos[p]) /\ archivos[p][Primera(p, f)].archivo = f
<1>1. archivos[p] \in Seq(Apertura)
  BY DEF LockTyping, Tablas
<1>2. DOMAIN archivos[p] = 1..Len(archivos[p]) /\ Len(archivos[p]) \in Nat
  BY <1>1, LenProperties
<1>3. Posiciones(p, f) \subseteq Nat /\ Posiciones(p, f) # {}
  BY <1>2 DEF Posiciones, Tiene
<1>4. Primera(p, f) = Min(Posiciones(p, f))
  BY DEF Primera, Min
<1>5. Primera(p, f) \in Posiciones(p, f)
  BY <1>3, <1>4, LeastNumber
<1> QED  BY <1>2, <1>5 DEF Posiciones

\* In the queue everybody has a request pending.
LEMMA EverybodyIsPending ==
  ASSUME LockTyping, Queued, kernel = "up", NEW f \in File, NEW n \in 0..Len(open_files[f].cola)
  PROVE  /\ Primeros(f, n) \subseteq Process
         /\ \A q \in Primeros(f, n) : /\ pending_file[q] # SinPendiente
                                      /\ pending_file[q][2] \in Modo
                                      /\ pending_file[q][1] = f
                                      /\ estado[q] = "fin" => "waiter" \in incidentes
                                      /\ estado[q] # "listo"
<1>1. \A i \in 1..n : i \in 1..Len(open_files[f].cola)
  BY QueueTypes
<1>2. Primeros(f, n) \subseteq Process
  BY <1>1, QueueTypes DEF Primeros
<1>3. ASSUME NEW q \in Primeros(f, n)
      PROVE  /\ pending_file[q] # SinPendiente /\ pending_file[q][2] \in Modo /\ pending_file[q][1] = f
  <2>1. PICK i \in 1..Len(open_files[f].cola) : q = open_files[f].cola[i].pid
    BY <1>1 DEF Primeros
  <2>2. pending_file[q] = <<f, open_files[f].cola[i].modo>> /\ open_files[f].cola[i].modo \in Modo
    BY <2>1, QueueTypes DEF Queued
  <2>3. pending_file[q][1] = f /\ pending_file[q][2] = open_files[f].cola[i].modo
    BY <2>2
  <2>4. pending_file[q] # SinPendiente
    <3>1. Len(pending_file[q]) = 2
      BY <2>2
    <3>2. Len(SinPendiente) = 0
      BY EmptySeq DEF SinPendiente
    <3> QED  BY <3>1, <3>2
  <2> QED  BY <2>2, <2>3, <2>4
<1>4. \A q \in Primeros(f, n) : estado[q] = "block" \/ (estado[q] = "fin" /\ "waiter" \in incidentes)
  BY <1>2, <1>3 DEF Queued
<1> QED  BY <1>2, <1>3, <1>4

LEMMA CloseEntry ==
  ASSUME LockTyping, Absent, NEW p \in Process, NEW f \in File, Cierre(p, f)
  PROVE  \E n \in Nat :
           /\ Devuelto(p, f, Primera(p, f), n)
           /\ LET e == Soltar(GetFile(f), archivos[p][Primera(p, f)].modo)
                  sig == IF DaLugar(e, archivos[p][Primera(p, f)].modo) THEN Siguientes(e.cola) ELSE <<>>
              IN DOMAIN sig = 1..n /\ \A i \in 1..n : sig[i] = open_files[f].cola[i]
<1> DEFINE k == Primera(p, f)
           modo == archivos[p][k].modo
           l == open_files[f]
           e == Soltar(GetFile(f), modo)
           sig == IF DaLugar(e, modo) THEN Siguientes(e.cola) ELSE <<>>
           d == IF DaLugar(e, modo) THEN Desencolar(e) ELSE e
<1>1. k \in 1..Len(archivos[p]) /\ archivos[p][k].archivo = f /\ modo \in Modo
  <2>1. k \in 1..Len(archivos[p]) /\ archivos[p][k].archivo = f
    BY FirstPlace DEF Cierre
  <2>2. archivos[p][k] \in Apertura
    BY <2>1, LenProperties DEF LockTyping, Tablas
  <2> QED  BY <2>1, <2>2 DEF Apertura
<1>2. /\ l \in Libro /\ GetFile(f) \in Libro /\ GetFile(f).hay
      /\ GetFile(f).escritura = l.escritura /\ GetFile(f).lectura = l.lectura
      /\ GetFile(f).cola = l.cola
  BY FileLock
<1>3. /\ e \in Libro /\ e.hay /\ e.escritura = (l.escritura /\ modo # "W") /\ e.cola = l.cola
      /\ e.lectura = l.lectura - (IF modo = "W" THEN 0 ELSE 1)
      /\ DaLugar(e, modo) <=> modo = "W" \/ l.lectura <= 1
  <2>1. CASE modo = "W"
    <3>1. e = [GetFile(f) EXCEPT !.escritura = FALSE]
      BY <2>1 DEF Soltar
    <3>2. /\ e \in Libro /\ e.hay /\ e.escritura = FALSE /\ e.cola = l.cola
          /\ e.lectura = l.lectura
      BY <1>2, <3>1 DEF Libro
    <3>3. l.lectura \in Int /\ DaLugar(e, modo)
      BY <1>2, <2>1, <3>2 DEF Libro, DaLugar
    <3>4. e.escritura = (l.escritura /\ modo # "W")
      BY <2>1, <3>2
    <3>5. e.lectura = l.lectura - (IF modo = "W" THEN 0 ELSE 1)
      BY <2>1, <3>2, <3>3
    <3> QED  BY <2>1, <3>2, <3>3, <3>4, <3>5
  <2>2. CASE modo # "W"
    <3>1. e = [GetFile(f) EXCEPT !.lectura = @ - 1]
      BY <2>2 DEF Soltar
    <3>2. /\ e \in Libro /\ e.hay /\ e.escritura = l.escritura /\ e.cola = l.cola
          /\ e.lectura = l.lectura - 1
      BY <1>2, <3>1 DEF Libro
    <3>3. l.lectura \in Int /\ l.escritura \in BOOLEAN
      BY <1>2 DEF Libro
    <3> QED  BY <2>2, <3>2, <3>3 DEF DaLugar
  <2> QED  BY <2>1, <2>2
<1>4. /\ open_files' = [open_files EXCEPT ![f] = IF sig = <<>> /\ d.cola = <<>> THEN SinEntrada ELSE d]
      /\ incidentes' = incidentes
          \cup (IF sig = <<>> /\ d.cola = <<>> /\ Abiertos(f) \ {<<p, k>>} # {} THEN {"dropped"} ELSE {})
  BY DEF Cierre, CloseOpen
<1>5. /\ l.cola \in Seq(Pedido) /\ Len(l.cola) \in Nat /\ (l.cola = <<>> <=> Len(l.cola) = 0)
      /\ l.lectura \in Int
  BY <1>2, LenProperties, EmptySeq DEF Libro
<1> HIDE DEF e, l, modo, k
<1>6. CASE DaLugar(e, modo)
  <2>1. PICK n \in Nat :
           /\ Tanda(e.cola, n) /\ sig \in Seq(Pedido) /\ Len(sig) = n
           /\ \A i \in 1..n : sig[i] = e.cola[i]
           /\ d \in Libro /\ d.hay = e.hay /\ d.escritura = (e.escritura \/ (n = 1 /\ e.cola[1].modo = "W"))
           /\ d.lectura = e.lectura + (IF n = 1 /\ e.cola[1].modo = "W" THEN 0 ELSE n)
           /\ Len(d.cola) = Len(e.cola) - n
           /\ \A i \in 1..(Len(e.cola) - n) : d.cola[i] = e.cola[n + i]
    <3>1. sig = Siguientes(e.cola) /\ d = Desencolar(e)
      BY <1>6
    <3>2. e \in Libro
      BY <1>3
    <3> HIDE DEF sig, d
    <3>3. PICK n \in Nat : LET s == Siguientes(e.cola)
                               h == Desencolar(e)
                               W == n = 1 /\ e.cola[1].modo = "W"
         IN /\ Tanda(e.cola, n) /\ s \in Seq(Pedido) /\ Len(s) = n
            /\ \A i \in 1..n : s[i] = e.cola[i]
            /\ h \in Libro /\ h.hay = e.hay /\ h.escritura = (e.escritura \/ W)
            /\ h.lectura = e.lectura + (IF W THEN 0 ELSE n)
            /\ Len(h.cola) = Len(e.cola) - n
            /\ \A i \in 1..(Len(e.cola) - n) : h.cola[i] = e.cola[n + i]
      BY <3>2, HandOn
    <3> QED  BY <3>1, <3>3
  <2>2. DOMAIN sig = 1..n /\ (sig = <<>> <=> n = 0)
    BY <2>1, LenProperties, EmptySeq
  <2>3. /\ n \in 0..Len(l.cola)
        /\ (n = 1 /\ l.cola[1].modo = "W") \/ \A i \in 1..n : l.cola[i].modo = "R"
        /\ l.cola # <<>> => n > 0
    BY <1>3, <2>1 DEF Tanda
  <2>4. sig = <<>> /\ d.cola = <<>> <=> l.cola = <<>>
    <3>1. l.cola = <<>> => n = 0 /\ Len(d.cola) = 0
      BY <1>3, <1>5, <2>1, <2>3
    <3>2. d.cola = <<>> <=> Len(d.cola) = 0
      BY <2>1, EmptySeq DEF Libro
    <3> QED  BY <2>2, <2>3, <3>1, <3>2
  <2> HIDE DEF sig, d
  <2>5. CASE l.cola = <<>>
    <3>1. open_files' = [open_files EXCEPT ![f] = SinEntrada]
      BY <1>4, <2>4, <2>5
    <3>2. open_files'[f] = SinEntrada /\ SinEntrada \in Libro
      BY <3>1, EmptyLock DEF LockTyping
    <3>3. "dropped" \notin incidentes' => Abiertos(f) \subseteq {<<p, k>>}
      BY <1>4, <2>4, <2>5
    <3>4. incidentes \subseteq incidentes' /\ incidentes' \subseteq incidentes \cup {"dropped"}
      BY <1>4
    <3>5. Devuelto(p, f, k, n)
      BY <1>1, <2>3, <2>5, <3>1, <3>2, <3>3, <3>4 DEF Devuelto, Escritor, l
    <3> QED  BY <2>1, <2>2, <3>5, <1>3 DEF sig, e, modo, k, l
  <2>6. CASE l.cola # <<>>
    <3>1. open_files' = [open_files EXCEPT ![f] = d]
      BY <1>4, <2>4, <2>6
    <3>2. open_files'[f] = d
      BY <3>1 DEF LockTyping
    <3>3. incidentes' = incidentes
      BY <1>4, <2>4, <2>6
    <3>4. Devuelto(p, f, k, n)
      <4>1. /\ open_files' = [open_files EXCEPT ![f] = open_files'[f]] /\ open_files'[f] \in Libro
            /\ n > 0 <=> modo = "W" \/ l.lectura <= 1
        BY <1>3, <1>6, <2>1, <2>3, <2>6, <3>1, <3>2
      <4>2. /\ d.hay /\ d.escritura = ((l.escritura /\ modo # "W") \/ (n = 1 /\ l.cola[1].modo = "W"))
            /\ d.lectura = l.lectura - (IF modo = "W" THEN 0 ELSE 1)
                             + (IF n = 1 /\ l.cola[1].modo = "W" THEN 0 ELSE n)
            /\ Len(d.cola) = Len(l.cola) - n
            /\ \A i \in 1..(Len(l.cola) - n) : d.cola[i] = l.cola[n + i]
        BY <1>3, <2>1
      <4> QED  BY <1>1, <2>3, <2>6, <3>2, <3>3, <4>1, <4>2 DEF Devuelto, Escritor, l, modo
    <3> QED  BY <2>1, <2>2, <3>4, <1>3 DEF sig, e, modo, k, l
  <2> QED  BY <2>5, <2>6
<1>7. CASE ~DaLugar(e, modo)
  <2>1. sig = <<>> /\ d = e /\ DOMAIN sig = 1..0
    <3>1. DOMAIN <<>> = 1..0
      BY EmptySeq, LenProperties
    <3> QED  BY <1>7, <3>1
  <2> HIDE DEF sig, d
  <2>2. CASE l.cola = <<>>
    <3>1. open_files' = [open_files EXCEPT ![f] = SinEntrada]
      BY <1>3, <1>4, <2>1, <2>2
    <3>2. open_files'[f] = SinEntrada /\ SinEntrada \in Libro
      BY <3>1, EmptyLock DEF LockTyping
    <3>3. /\ "dropped" \notin incidentes' => Abiertos(f) \subseteq {<<p, k>>}
          /\ incidentes \subseteq incidentes' /\ incidentes' \subseteq incidentes \cup {"dropped"}
      BY <1>3, <1>4, <2>1, <2>2
    <3>4. 0 \in 0..Len(l.cola) /\ \A i \in 1..0 : l.cola[i].modo = "R"
      BY <1>5
    <3>5. Devuelto(p, f, k, 0)
      BY <1>1, <2>2, <3>1, <3>2, <3>3, <3>4 DEF Devuelto, l
    <3> QED  BY <2>1, <3>5 DEF sig, e, modo, k, l
  <2>3. CASE l.cola # <<>>
    <3>1. open_files' = [open_files EXCEPT ![f] = e]
      BY <1>3, <1>4, <2>1, <2>3
    <3>2. open_files'[f] = e
      BY <3>1 DEF LockTyping
    <3>3. incidentes' = incidentes
      BY <1>3, <1>4, <2>1, <2>3
    <3>4. Devuelto(p, f, k, 0)
      <4>1. open_files' = [open_files EXCEPT ![f] = open_files'[f]] /\ open_files'[f] \in Libro
        BY <1>3, <3>1, <3>2
      <4>2. ~(modo = "W" \/ l.lectura <= 1) /\ e.lectura = e.lectura + 0
        BY <1>3, <1>5, <1>7
      <4>3. /\ Len(e.cola) = Len(l.cola) - 0
            /\ \A i \in 1..(Len(l.cola) - 0) : e.cola[i] = l.cola[0 + i]
        BY <1>3, <1>5
      <4>4. e.lectura = l.lectura - (IF modo = "W" THEN 0 ELSE 1) + 0
        BY <1>3, <1>5
      <4> QED  BY <1>1, <1>3, <1>5, <2>3, <3>2, <3>3, <4>1, <4>2, <4>3, <4>4 DEF Devuelto, Escritor, l, modo
    <3> QED  BY <2>1, <3>4 DEF sig, e, modo, k, l
  <2> QED  BY <2>2, <2>3
<1> QED  BY <1>6, <1>7

LEMMA CloseProcesses ==
  ASSUME LockTyping, Queued, NEW p \in Process, NEW f \in File, Cierre(p, f),
         NEW n \in 0..Len(open_files[f].cola), NEW sig,
         sig = IF DaLugar(Soltar(GetFile(f), archivos[p][Primera(p, f)].modo),
                          archivos[p][Primera(p, f)].modo)
               THEN Siguientes(Soltar(GetFile(f), archivos[p][Primera(p, f)].modo).cola)
               ELSE <<>>,
         DOMAIN sig = 1..n, \A i \in 1..n : sig[i] = open_files[f].cola[i]
  PROVE  Entregado(p, f, Primera(p, f), n)
<1> DEFINE pids == {sig[i].pid : i \in DOMAIN sig}
           pendientes == {q \in pids : pending_file[q] # SinPendiente}
           T == SinArchivo(p, f)
<1>1. pids = Primeros(f, n)
  BY DEF Primeros
<1>2. kernel = "up"
  BY DEF Cierre, Atiende
<1>3. pids \subseteq Process /\ pendientes = pids
  <2>1. Primeros(f, n) \subseteq Process /\ \A q \in Primeros(f, n) : pending_file[q] # SinPendiente
    BY <1>2, EverybodyIsPending
  <2> HIDE DEF pids
  <2> QED  BY <1>1, <2>1
<1>4. T = SinEntradaK(p, Primera(p, f)) /\ DOMAIN T = Process
  BY DEF SinArchivo, SinEntradaK, LockTyping, Tablas
<1>0. CloseOpen(p, f)
  BY DEF Cierre
<1>5. IF pids \subseteq Vivos
      THEN /\ archivos' = [q \in Process |->
                IF q \in pendientes THEN ConArchivo(T, q, f, pending_file[q][2])[q] ELSE T[q]]
           /\ pending_file' = [q \in Process |-> IF q \in pendientes THEN SinPendiente ELSE pending_file[q]]
           /\ estado' = [q \in Process |-> IF q \in pendientes THEN "listo" ELSE estado[q]]
           /\ UNCHANGED kernel
      ELSE /\ kernel' = "down"
           /\ archivos' = T
           /\ UNCHANGED <<pending_file, estado>>
  <2> DEFINE X == IF DaLugar(Soltar(GetFile(f), archivos[p][Primera(p, f)].modo),
                             archivos[p][Primera(p, f)].modo)
                  THEN Siguientes(Soltar(GetFile(f), archivos[p][Primera(p, f)].modo).cola)
                  ELSE <<>>
             pidsX == {X[i].pid : i \in DOMAIN X}
             pendientesX == {q \in pidsX : pending_file[q] # SinPendiente}
  <2>1. X = sig
    OBVIOUS
  <2>2. IF pidsX \subseteq Vivos
        THEN /\ archivos' = [q \in Process |->
                  IF q \in pendientesX THEN ConArchivo(T, q, f, pending_file[q][2])[q] ELSE T[q]]
             /\ pending_file' = [q \in Process |-> IF q \in pendientesX THEN SinPendiente ELSE pending_file[q]]
             /\ estado' = [q \in Process |-> IF q \in pendientesX THEN "listo" ELSE estado[q]]
             /\ UNCHANGED kernel
        ELSE /\ kernel' = "down"
             /\ archivos' = T
             /\ UNCHANGED <<pending_file, estado>>
    BY <1>0 DEF CloseOpen
  <2> HIDE DEF X
  <2>3. pidsX = pids
    BY <2>1
  <2>4. pendientesX = pendientes
    BY <2>3
  <2> QED  BY <2>2, <2>3, <2>4
<1> HIDE DEF T, pids, pendientes
<1>6. \A q \in Process : ConArchivo(T, q, f, pending_file[q][2])[q]
        = Append(T[q], [archivo |-> f, modo |-> pending_file[q][2], puntero |-> 0])
  BY <1>4 DEF ConArchivo
<1>7. CASE pids \subseteq Vivos
  <2>1. archivos' = [q \in Process |->
          IF q \in pids THEN Append(T[q], [archivo |-> f, modo |-> pending_file[q][2], puntero |-> 0])
          ELSE T[q]]
    BY <1>3, <1>5, <1>6, <1>7
  <2> QED  BY <1>1, <1>3, <1>4, <1>5, <1>7, <2>1 DEF Entregado
<1>8. CASE ~(pids \subseteq Vivos)
  BY <1>1, <1>4, <1>5, <1>8 DEF Entregado
<1> QED  BY <1>7, <1>8

LEMMA CloseCases ==
  ASSUME LockTyping, Absent, Queued, NEW p \in Process, NEW f \in File, Cierre(p, f)
  PROVE  /\ kernel = "up" /\ estado[p] = "listo" /\ llamada' = llamada
         /\ \E k, n \in Nat : Devuelto(p, f, k, n) /\ Entregado(p, f, k, n)
<1> DEFINE k == Primera(p, f)
           e == Soltar(GetFile(f), archivos[p][k].modo)
           sig == IF DaLugar(e, archivos[p][k].modo) THEN Siguientes(e.cola) ELSE <<>>
<1>1. PICK n \in Nat : /\ Devuelto(p, f, k, n)
                       /\ DOMAIN sig = 1..n /\ \A i \in 1..n : sig[i] = open_files[f].cola[i]
  BY CloseEntry
<1>2. n \in 0..Len(open_files[f].cola)
  BY <1>1 DEF Devuelto
<1>3. Entregado(p, f, k, n)
  BY <1>1, <1>2, CloseProcesses
<1>4. k \in Nat
  <2>1. k \in 1..Len(archivos[p])
    BY FirstPlace DEF Cierre
  <2> QED  BY <2>1
<1>5. kernel = "up" /\ estado[p] = "listo" /\ llamada' = llamada
  BY DEF Cierre, Atiende
<1> QED  BY <1>1, <1>3, <1>4, <1>5

\* The tables after a close are tables, and no process ends by it.
LEMMA CloseTables ==
  ASSUME LockTyping, Queued, NEW p \in Process, NEW f \in File, NEW k \in Nat,
         NEW n \in Nat, kernel = "up", estado[p] = "listo",
         Devuelto(p, f, k, n), Entregado(p, f, k, n)
  PROVE  /\ p \notin Primeros(f, n) /\ Primeros(f, n) \subseteq Process
         /\ SinEntradaK(p, k) \in Tablas
         /\ Len(SinEntradaK(p, k)[p]) = Len(archivos[p]) - 1
         /\ \A q \in Process : q # p => SinEntradaK(p, k)[q] = archivos[q]
         /\ archivos' \in Tablas /\ \A q \in Process : Len(archivos'[q]) <= MaxOpen
         /\ Vivos' = Vivos
<1> DEFINE T == SinEntradaK(p, k)
           G == Primeros(f, n)
           r(q) == [archivo |-> f, modo |-> pending_file[q][2], puntero |-> 0]
<1>1. /\ n \in 0..Len(open_files[f].cola) /\ k \in 1..Len(archivos[p])
  BY DEF Devuelto
<1>2. /\ G \subseteq Process /\ p \notin G
      /\ \A q \in G : pending_file[q][2] \in Modo
  BY <1>1, EverybodyIsPending
<1>3. archivos \in Tablas /\ archivos[p] \in Seq(Apertura)
  BY DEF LockTyping, Tablas
<1>4. RemoveAt(archivos[p], k) \in Seq(Apertura) /\ Len(RemoveAt(archivos[p], k)) = Len(archivos[p]) - 1
  BY <1>1, <1>3, RemoveAtShifts
<1>5. /\ T \in Tablas /\ T[p] = RemoveAt(archivos[p], k)
      /\ \A q \in Process : q # p => T[q] = archivos[q]
  BY <1>3, <1>4 DEF SinEntradaK, Tablas
<1> HIDE DEF T, G
<1>6. \A q \in Process : Len(T[q]) \in Nat /\ Len(T[q]) <= MaxOpen /\ Len(archivos[q]) \in Nat
  <2> TAKE q \in Process
  <2>1. Len(archivos[q]) <= MaxOpen /\ Len(archivos[q]) \in Nat /\ MaxOpen \in Nat
    BY <1>3, LenProperties, FileLocksAssumption DEF LockTyping, Tablas
  <2>2. Len(T[q]) \in Nat
    BY <1>5, LenProperties DEF Tablas
  <2> QED  BY <1>4, <1>5, <2>1, <2>2
<1>7. CASE G \subseteq Vivos
  <2>1. /\ archivos' = [q \in Process |-> IF q \in G THEN Append(T[q], r(q)) ELSE T[q]]
        /\ estado' = [q \in Process |-> IF q \in G THEN "listo" ELSE estado[q]]
    BY <1>7 DEF Entregado, T, G
  <2>2. \A q \in G : /\ Append(T[q], r(q)) \in Seq(Apertura)
                     /\ Len(Append(T[q], r(q))) = Len(T[q]) + 1
    <3> TAKE q \in G
    <3>1. q \in Process /\ T[q] \in Seq(Apertura) /\ r(q) \in Apertura
      BY <1>2, <1>5 DEF Tablas, Apertura
    <3> HIDE DEF r
    <3> QED  BY <3>1, AppendProperties
  <2> HIDE DEF r
  <2>3. archivos' \in Tablas
    BY <1>5, <2>1, <2>2 DEF Tablas
  <2>4. \A q \in G : Len(archivos[q]) < MaxOpen /\ T[q] = archivos[q]
    <3> TAKE q \in G
    <3>1. estado[q] # "fin" /\ q \in Process /\ pending_file[q] # SinPendiente
      BY <1>1, <1>7, EverybodyIsPending DEF G, Vivos
    <3>2. estado[q] = "block"
      BY <3>1 DEF Queued
    <3> QED  BY <1>2, <1>5, <3>1, <3>2 DEF Queued
  <2>5. \A q \in Process : Len(archivos'[q]) <= MaxOpen
    <3> TAKE q \in Process
    <3>1. CASE q \in G
      <4>1. Len(archivos'[q]) = Len(archivos[q]) + 1
        BY <2>1, <2>2, <2>4, <3>1
      <4> QED  BY <1>6, <2>4, <3>1, <4>1, FileLocksAssumption
    <3>2. CASE q \notin G
      BY <1>6, <2>1, <3>2
    <3> QED  BY <3>1, <3>2
  <2>6. Vivos' = Vivos
    BY <1>2, <1>7, <2>1 DEF Vivos
  <2> QED  BY <1>2, <1>4, <1>5, <2>3, <2>5, <2>6 DEF T, G
<1>8. CASE ~(G \subseteq Vivos)
  <2>1. archivos' = T /\ estado' = estado
    BY <1>8 DEF Entregado, T, G
  <2>2. Vivos' = Vivos
    BY <2>1 DEF Vivos
  <2> QED  BY <1>2, <1>4, <1>5, <1>6, <2>1, <2>2 DEF T, G
<1> QED  BY <1>7, <1>8

LEMMA OpenCases ==
  ASSUME LockTyping, Absent, NEW p \in Process, NEW f \in File, NEW modo \in Modo, FOpen(p, f, modo)
  PROVE  /\ kernel = "up" /\ estado[p] = "listo" /\ Len(archivos[p]) < MaxOpen
         /\ llamada' = llamada /\ kernel' = kernel
         /\ open_files' = [open_files EXCEPT ![f] = open_files'[f]] /\ open_files'[f] \in Libro
         /\ open_files'[f].hay
         /\ \/ /\ open_files[f].escritura
               /\ open_files'[f].escritura /\ open_files'[f].lectura = open_files[f].lectura
               /\ open_files'[f].cola = Append(open_files[f].cola, [pid |-> p, modo |-> modo])
               /\ pending_file' = [pending_file EXCEPT ![p] = <<f, modo>>]
               /\ estado' = [estado EXCEPT ![p] = "block"]
               /\ UNCHANGED <<archivos, incidentes>>
            \/ /\ ~open_files[f].escritura
               /\ open_files'[f].escritura = (modo = "W")
               /\ open_files'[f].lectura = open_files[f].lectura + (IF modo = "W" THEN 0 ELSE 1)
               /\ open_files'[f].cola = open_files[f].cola
               /\ archivos' = [archivos EXCEPT ![p] = Append(@, [archivo |-> f, modo |-> modo, puntero |-> 0])]
               /\ pending_file' = [pending_file EXCEPT ![p] = SinPendiente]
               /\ incidentes' \in {incidentes, incidentes \cup {"mixed"}}
               /\ modo = "W" /\ Cuenta(f, "R") > 0 => "mixed" \in incidentes'
               /\ estado' = estado
<1> DEFINE e == GetFile(f)
           a == IF modo = "R" THEN AbrirLectura(e, p) ELSE AbrirEscritura(e, p)
<1>1. /\ e \in Libro /\ e.hay /\ e.escritura = open_files[f].escritura
      /\ e.lectura = open_files[f].lectura /\ e.cola = open_files[f].cola
  BY FileLock
<1>2. /\ open_files' = [open_files EXCEPT ![f] = a] /\ open_files'[f] = a
  BY DEF FOpen, LockTyping
<1>3. kernel = "up" /\ estado[p] = "listo" /\ Len(archivos[p]) < MaxOpen
      /\ llamada' = llamada /\ kernel' = kernel
  BY DEF FOpen, Atiende
<1>4. IF e.escritura
      THEN /\ pending_file' = [pending_file EXCEPT ![p] = <<f, modo>>]
           /\ estado' = [estado EXCEPT ![p] = "block"]
           /\ UNCHANGED <<archivos, incidentes>>
      ELSE /\ archivos' = ConArchivo(archivos, p, f, modo)
           /\ pending_file' = [pending_file EXCEPT ![p] = SinPendiente]
           /\ incidentes' = IF modo = "W" /\ \E x \in Abiertos(f) : ModoDe(x) = "R"
                            THEN incidentes \cup {"mixed"} ELSE incidentes
           /\ UNCHANGED estado
  BY DEF FOpen
<1>5. e.cola \in Seq(Pedido) /\ e.lectura \in Int
  BY <1>1 DEF Libro
<1> HIDE DEF e
<1>6. CASE open_files[f].escritura
  <2>1. [pid |-> p, modo |-> modo] \in Pedido
    BY DEF Pedido
  <2>2. Append(e.cola, [pid |-> p, modo |-> modo]) \in Seq(Pedido)
    BY <1>5, <2>1, AppendProperties
  <2>3. a = [e EXCEPT !.cola = Append(@, [pid |-> p, modo |-> modo])]
    BY <1>1, <1>6 DEF AbrirLectura, AbrirEscritura, Modo
  <2>4. /\ a \in Libro /\ a.hay /\ a.escritura /\ a.lectura = e.lectura
        /\ a.cola = Append(e.cola, [pid |-> p, modo |-> modo])
    BY <1>1, <1>6, <2>2, <2>3 DEF Libro
  <2> QED  BY <1>1, <1>2, <1>3, <1>4, <1>6, <2>4
<1>7. CASE ~open_files[f].escritura
  <2>1. a = IF modo = "R" THEN [e EXCEPT !.lectura = @ + 1] ELSE [e EXCEPT !.escritura = TRUE]
    BY <1>1, <1>7 DEF AbrirLectura, AbrirEscritura
  <2>2. /\ a \in Libro /\ a.hay /\ a.escritura = (modo = "W") /\ a.cola = e.cola
        /\ a.lectura = e.lectura + (IF modo = "W" THEN 0 ELSE 1)
    <3>1. CASE modo = "R"
      <4>1. a = [e EXCEPT !.lectura = @ + 1]
        BY <2>1, <3>1
      <4>2. a \in Libro /\ a.hay /\ a.escritura = e.escritura /\ a.cola = e.cola /\ a.lectura = e.lectura + 1
        BY <1>1, <4>1 DEF Libro
      <4>3. e.escritura = FALSE
        BY <1>1, <1>7 DEF Libro
      <4> QED  BY <3>1, <4>2, <4>3
    <3>2. CASE modo = "W"
      <4>1. a = [e EXCEPT !.escritura = TRUE]
        BY <2>1, <3>2
      <4>2. a \in Libro /\ a.hay /\ a.escritura = TRUE /\ a.cola = e.cola /\ a.lectura = e.lectura
        BY <1>1, <4>1 DEF Libro
      <4>3. a.lectura = e.lectura + (IF modo = "W" THEN 0 ELSE 1)
        BY <1>5, <3>2, <4>2
      <4>4. a.escritura = (modo = "W")
        BY <3>2, <4>2
      <4> QED  BY <4>2, <4>3, <4>4
    <3> QED  BY <3>1, <3>2 DEF Modo
  <2>3. (\E x \in Abiertos(f) : ModoDe(x) = "R") <=> Cuenta(f, "R") > 0
    <3>1. /\ {x \in Abiertos(f) : ModoDe(x) = "R"} = Aperturas(archivos, Vivos, f, "R")
          /\ IsFiniteSet(Aperturas(archivos, Vivos, f, "R"))
          /\ Cuenta(f, "R") = Cardinality(Aperturas(archivos, Vivos, f, "R"))
          /\ Cuenta(f, "R") \in Nat
      BY Counts DEF Modo
    <3>2. Cuenta(f, "R") = 0 <=> {x \in Abiertos(f) : ModoDe(x) = "R"} = {}
      BY <3>1, FS_EmptySet
    <3> QED  BY <3>1, <3>2
  <2>4. /\ incidentes' \in {incidentes, incidentes \cup {"mixed"}}
        /\ modo = "W" /\ Cuenta(f, "R") > 0 => "mixed" \in incidentes'
    BY <1>1, <1>4, <1>7, <2>3
  <2> HIDE DEF a
  <2> QED  BY <1>1, <1>2, <1>3, <1>4, <1>7, <2>2, <2>4 DEF ConArchivo
<1> QED  BY <1>6, <1>7

------------------------------------------------------------------------------
(* The types, and where processes wait.                                      *)

LEMMA OpenTypes ==
  ASSUME LockTyping, Absent, NEW p \in Process, NEW f \in File, NEW modo \in Modo,
         FOpen(p, f, modo), UNCHANGED <<carga, caidas>>
  PROVE  LockTyping' /\ Absent'
<1> DEFINE x == [archivo |-> f, modo |-> modo, puntero |-> 0]
<1>1. /\ open_files' = [open_files EXCEPT ![f] = open_files'[f]] /\ open_files'[f] \in Libro
      /\ open_files'[f].hay /\ llamada' = llamada /\ kernel' = kernel /\ Len(archivos[p]) < MaxOpen
  BY OpenCases
<1>2. \/ /\ pending_file' = [pending_file EXCEPT ![p] = <<f, modo>>]
         /\ estado' = [estado EXCEPT ![p] = "block"]
         /\ UNCHANGED <<archivos, incidentes>>
      \/ /\ archivos' = [archivos EXCEPT ![p] = Append(@, x)]
         /\ pending_file' = [pending_file EXCEPT ![p] = SinPendiente]
         /\ incidentes' \in {incidentes, incidentes \cup {"mixed"}}
         /\ estado' = estado
  <2>1. CASE open_files[f].escritura
    <3>1. pending_file' = [pending_file EXCEPT ![p] = <<f, modo>>]
      BY <2>1, OpenCases
    <3>2. estado' = [estado EXCEPT ![p] = "block"] /\ UNCHANGED <<archivos, incidentes>>
      BY <2>1, OpenCases
    <3> QED  BY <3>1, <3>2
  <2>2. CASE ~open_files[f].escritura
    <3>1. archivos' = [archivos EXCEPT ![p] = Append(@, x)]
      BY <2>2, OpenCases
    <3>2. pending_file' = [pending_file EXCEPT ![p] = SinPendiente] /\ estado' = estado
      BY <2>2, OpenCases
    <3>3. incidentes' \in {incidentes, incidentes \cup {"mixed"}}
      BY <2>2, OpenCases
    <3> HIDE DEF x
    <3> QED  BY <3>1, <3>2, <3>3
  <2> QED  BY <2>1, <2>2
<1>3. open_files' \in [File -> Libro]
  <2> HIDE DEF Libro
  <2> QED  BY <1>1 DEF LockTyping
<1>4. Absent'
  <2> SUFFICES ASSUME NEW g \in File, ~open_files'[g].hay PROVE open_files'[g] = SinEntrada
    BY DEF Absent
  <2>1. g # f
    BY <1>1
  <2> QED  BY <1>1, <2>1 DEF Absent, LockTyping
<1>5. archivos' \in Tablas /\ \A q \in Process : Len(archivos'[q]) <= MaxOpen
  <2>1. x \in Apertura /\ archivos \in Tablas /\ archivos[p] \in Seq(Apertura)
    BY DEF Apertura, LockTyping, Tablas
  <2> HIDE DEF x
  <2>2. Append(archivos[p], x) \in Seq(Apertura) /\ Len(Append(archivos[p], x)) = Len(archivos[p]) + 1
    BY <2>1, AppendProperties
  <2>3. Len(archivos[p]) + 1 <= MaxOpen
    BY <1>1, <2>1, LenProperties, FileLocksAssumption
  <2>4. CASE archivos' = archivos
    BY <2>4 DEF LockTyping
  <2>5. CASE archivos' = [archivos EXCEPT ![p] = Append(@, x)]
    BY <2>1, <2>2, <2>3, <2>5 DEF LockTyping, Tablas
  <2> QED  BY <1>2, <2>4, <2>5
<1>6. pending_file' \in [Process -> {SinPendiente} \cup (File \X Modo)]
  BY <1>2 DEF LockTyping
<1>7. estado' \in [Process -> {"listo", "block", "fin"}]
  BY <1>2 DEF LockTyping
<1>8. incidentes' \subseteq {"mixed", "dropped", "abandoned", "waiter"}
  BY <1>2 DEF LockTyping
<1> QED  BY <1>1, <1>3, <1>4, <1>5, <1>6, <1>7, <1>8 DEF LockTyping

LEMMA CloseTypes ==
  ASSUME LockTyping, Absent, Queued, NEW p \in Process, NEW f \in File,
         Cierre(p, f), UNCHANGED <<carga, caidas>>
  PROVE  LockTyping' /\ Absent'
<1>1. /\ kernel = "up" /\ estado[p] = "listo" /\ llamada' = llamada
      /\ \E k, n \in Nat : Devuelto(p, f, k, n) /\ Entregado(p, f, k, n)
  BY CloseCases
<1>2. PICK k \in Nat, n \in Nat : Devuelto(p, f, k, n) /\ Entregado(p, f, k, n)
  BY <1>1
<1>3. archivos' \in Tablas /\ \A q \in Process : Len(archivos'[q]) <= MaxOpen
  BY <1>1, <1>2, CloseTables
<1>4. /\ open_files' = [open_files EXCEPT ![f] = open_files'[f]] /\ open_files'[f] \in Libro
      /\ open_files'[f].hay \/ open_files'[f] = SinEntrada
  BY <1>2 DEF Devuelto
<1>5. open_files' \in [File -> Libro] /\ Absent'
  <2> HIDE DEF Libro
  <2>1. open_files' \in [File -> Libro]
    BY <1>4 DEF LockTyping
  <2>2. Absent'
    BY <1>4 DEF Absent, LockTyping
  <2> QED  BY <2>1, <2>2
<1>6. pending_file' \in [Process -> {SinPendiente} \cup (File \X Modo)]
  BY <1>2 DEF Entregado, LockTyping
<1>7. estado' \in [Process -> {"listo", "block", "fin"}]
  BY <1>2 DEF Entregado, LockTyping
<1>8. incidentes' \subseteq {"mixed", "dropped", "abandoned", "waiter"} /\ kernel' \in {"up", "down"}
  <2>1. incidentes' \subseteq incidentes \cup {"dropped"} /\ kernel' \in {kernel, "down"}
    BY <1>2 DEF Devuelto, Entregado
  <2> QED  BY <2>1 DEF LockTyping
<1> QED  BY <1>1, <1>3, <1>5, <1>6, <1>7, <1>8 DEF LockTyping

\* A seek moves the pointer of one opening.
LEMMA SeekTables ==
  ASSUME LockTyping, NEW p \in Process, NEW f \in File, NEW n \in Nat, FSeek(p, f, n)
  PROVE  /\ archivos' \in Tablas
         /\ \A q \in Process : /\ Len(archivos'[q]) = Len(archivos[q])
                               /\ \A i \in 1..Len(archivos[q]) :
                                    /\ archivos'[q][i].archivo = archivos[q][i].archivo
                                    /\ archivos'[q][i].modo = archivos[q][i].modo
<1> DEFINE k == Primera(p, f)
           x == [archivos[p][k] EXCEPT !.puntero = n]
           s == [archivos[p] EXCEPT ![k] = x]
<1>1. k \in 1..Len(archivos[p])
  BY FirstPlace DEF FSeek
<1>2. /\ archivos \in Tablas
      /\ \A q \in Process : archivos[q] \in Seq(Apertura) /\ Len(archivos[q]) \in Nat
                            /\ DOMAIN archivos[q] = 1..Len(archivos[q])
                            /\ \A i \in 1..Len(archivos[q]) : archivos[q][i] \in Apertura
  BY LenProperties DEF LockTyping, Tablas
<1>3. archivos' = [archivos EXCEPT ![p] = s]
  BY DEF FSeek
<1>4. /\ x \in Apertura /\ x.archivo = archivos[p][k].archivo /\ x.modo = archivos[p][k].modo
  BY <1>1, <1>2 DEF Apertura
<1> HIDE DEF x, k
<1>5. s \in Seq(Apertura) /\ Len(s) = Len(archivos[p]) /\ s[k] = x
      /\ \A i \in 1..Len(archivos[p]) : i # k => s[i] = archivos[p][i]
  <2>1. archivos[p] \in Seq(Apertura)
    BY <1>2
  <2>2. /\ s \in Seq(Apertura) /\ Len(s) = Len(archivos[p])
        /\ \A j \in 1..Len(archivos[p]) : s[j] = IF j = k THEN x ELSE archivos[p][j]
    BY <1>1, <1>4, <2>1, ExceptSeq
  <2> QED  BY <1>1, <2>2
<1> HIDE DEF s
<1>6. archivos' \in Tablas
  BY <1>2, <1>3, <1>5 DEF Tablas
<1>7. archivos'[p] = s /\ \A q \in Process : q # p => archivos'[q] = archivos[q]
  BY <1>2, <1>3 DEF Tablas
<1>8. \A i \in 1..Len(archivos[p]) : s[i].archivo = archivos[p][i].archivo /\ s[i].modo = archivos[p][i].modo
  BY <1>4, <1>5
<1> QED  BY <1>5, <1>6, <1>7, <1>8

LEMMA OtherTypes ==
  ASSUME LockTyping, Absent, UNCHANGED <<carga, caidas>>,
         Callado \/ (\E p \in Process, f \in File, n \in Nat : FSeek(p, f, n))
           \/ (\E p \in Process : Exit(p))
  PROVE  LockTyping' /\ Absent'
<1>1. CASE Callado
  <2>1. open_files' \in [File -> Libro] /\ Absent'
    <3>1. CASE open_files' = open_files
      BY <3>1 DEF LockTyping, Absent
    <3>2. ASSUME NEW f \in File, open_files' = [open_files EXCEPT ![f] = GetFile(f)]
          PROVE  open_files' \in [File -> Libro] /\ Absent'
      <4>1. GetFile(f) \in Libro /\ GetFile(f).hay
        BY FileLock
      <4> HIDE DEF Libro
      <4>2. /\ open_files' \in [File -> Libro] /\ open_files'[f].hay
            /\ \A g \in File : g # f => open_files'[g] = open_files[g]
        BY <3>2, <4>1 DEF LockTyping
      <4> QED  BY <4>2 DEF Absent
    <3> QED  BY <1>1, <3>1, <3>2 DEF Callado
  <2> QED  BY <1>1, <2>1 DEF Callado, LockTyping
<1>2. ASSUME NEW p \in Process, NEW f \in File, NEW n \in Nat, FSeek(p, f, n)
      PROVE  LockTyping' /\ Absent'
  <2>1. archivos' \in Tablas /\ \A q \in Process : Len(archivos'[q]) = Len(archivos[q])
    BY <1>2, SeekTables
  <2>2. UNCHANGED <<open_files, pending_file, estado, llamada, kernel, incidentes>>
    BY <1>2 DEF FSeek
  <2> QED  BY <2>1, <2>2 DEF LockTyping, Absent
<1>3. ASSUME NEW p \in Process, Exit(p)
      PROVE  LockTyping' /\ Absent'
  BY <1>3 DEF Exit, tableVars, LockTyping, Absent
<1> QED  BY <1>1, <1>2, <1>3

LEMMA RestartTypes ==
  ASSUME LockTyping, Restart
  PROVE  LockTyping' /\ Absent'
<1>1. \A p \in Process : archivos'[p] = <<>> /\ Len(archivos'[p]) = 0
  BY EmptySeq DEF Restart
<1>2. archivos' \in Tablas /\ \A p \in Process : Len(archivos'[p]) <= MaxOpen
  <2>1. <<>> \in Seq(Apertura) /\ archivos' = [p \in Process |-> <<>>]
    BY EmptySeq DEF Restart
  <2> QED  BY <1>1, <2>1, FileLocksAssumption DEF Tablas
<1>3. open_files' = [f \in File |-> SinEntrada] /\ open_files' \in [File -> Libro]
  <2> HIDE DEF Libro
  <2> QED  BY EmptyLock DEF Restart
<1>4. caidas' \in 0..MaxCaidas
  BY FilesAssumption DEF Restart, LockTyping
<1> QED  BY <1>2, <1>3, <1>4 DEF Restart, LockTyping, Absent

LEMMA TypesKeep ==
  ASSUME LockTyping, Absent, Queued, [Next]_vars
  PROVE  LockTyping' /\ Absent'
<1>1. Restart \/ (LockStep /\ UNCHANGED <<carga, caidas>>)
  BY Steps
<1>2. CASE Restart
  BY <1>2, RestartTypes
<1>3. CASE LockStep /\ UNCHANGED <<carga, caidas>>
  <2>1. ASSUME NEW p \in Process, NEW f \in File, NEW modo \in Modo, FOpen(p, f, modo)
        PROVE  LockTyping' /\ Absent'
    BY <1>3, <2>1, OpenTypes
  <2>2. ASSUME NEW p \in Process, NEW f \in File, Cierre(p, f)
        PROVE  LockTyping' /\ Absent'
    BY <1>3, <2>2, CloseTypes
  <2>3. CASE Callado \/ (\E p \in Process, f \in File, n \in Nat : FSeek(p, f, n))
               \/ (\E p \in Process : Exit(p))
    BY <1>3, <2>3, OtherTypes
  <2> QED  BY <1>3, <2>1, <2>2, <2>3 DEF LockStep
<1> QED  BY <1>1, <1>2, <1>3

\* A step that leaves the queues and the requests alone.
LEMMA SameQueues ==
  ASSUME Queued, kernel' = "up" => kernel = "up",
         \A f \in File : open_files'[f].cola = open_files[f].cola,
         pending_file' = pending_file, incidentes \subseteq incidentes',
         \A p \in Process : estado'[p] = "block" =>
           estado[p] = "block" /\ Len(archivos'[p]) = Len(archivos[p]),
         \A p \in Process : pending_file[p] # SinPendiente =>
           estado'[p] = estado[p] \/ (estado'[p] = "fin" /\ "waiter" \in incidentes'),
         \A p \in Process : pending_file[p] # SinPendiente => pending_file[p][1] \in File
  PROVE  Queued'
<1> SUFFICES ASSUME kernel' = "up" PROVE Queued'
  BY DEF Queued
<1>1. \A f \in File : \A i \in 1..Len(open_files'[f].cola) :
        pending_file'[open_files'[f].cola[i].pid] = <<f, open_files'[f].cola[i].modo>>
  <2> TAKE f \in File
  <2>1. \A i \in 1..Len(open_files[f].cola) :
          pending_file[open_files[f].cola[i].pid] = <<f, open_files[f].cola[i].modo>>
    BY Zenon DEF Queued
  <2>2. open_files'[f].cola = open_files[f].cola /\ pending_file' = pending_file
    OBVIOUS
  <2> QED  BY <2>1, <2>2, Zenon
<1>2. \A f \in File : \A i, j \in 1..Len(open_files'[f].cola) :
        open_files'[f].cola[i].pid = open_files'[f].cola[j].pid => i = j
  BY DEF Queued
<1>3. \A p \in Process : pending_file'[p] # SinPendiente =>
        estado'[p] = "block" \/ (estado'[p] = "fin" /\ "waiter" \in incidentes')
  BY DEF Queued
<1>4. ASSUME NEW p \in Process, estado'[p] = "block"
      PROVE  /\ pending_file'[p] # SinPendiente
             /\ Len(archivos'[p]) < MaxOpen
             /\ \E i \in 1..Len(open_files'[pending_file'[p][1]].cola) :
                  open_files'[pending_file'[p][1]].cola[i].pid = p
  <2>1. /\ pending_file[p] # SinPendiente
        /\ Len(archivos[p]) < MaxOpen
        /\ \E i \in 1..Len(open_files[pending_file[p][1]].cola) :
             open_files[pending_file[p][1]].cola[i].pid = p
    BY <1>4 DEF Queued
  <2>2. open_files'[pending_file[p][1]].cola = open_files[pending_file[p][1]].cola
    BY <2>1
  <2> QED  BY <1>4, <2>1, <2>2
<1> QED  BY <1>1, <1>2, <1>3, <1>4 DEF Queued

LEMMA PendingThere ==
  ASSUME Queued, kernel = "up", NEW f \in File, NEW i \in 1..Len(open_files[f].cola)
  PROVE  pending_file[open_files[f].cola[i].pid] = <<f, open_files[f].cola[i].modo>>
<1>1. \A g \in File : \A j \in 1..Len(open_files[g].cola) :
        pending_file[open_files[g].cola[j].pid] = <<g, open_files[g].cola[j].modo>>
  BY Zenon DEF Queued
<1> QED  BY <1>1, Zenon

LEMMA Requests ==
  ASSUME LockTyping
  PROVE  \A p \in Process : pending_file[p] # SinPendiente =>
           /\ pending_file[p][1] \in File
           /\ pending_file[p][2] \in Modo
BY DEF LockTyping

\* Nobody that can ask for a file waits for one.
LEMMA TheFreeDoNotWait ==
  ASSUME LockTyping, Queued, kernel = "up", NEW p \in Process, estado[p] = "listo"
  PROVE  /\ pending_file[p] = SinPendiente
         /\ \A f \in File : \A i \in 1..Len(open_files[f].cola) : open_files[f].cola[i].pid # p
<1>1. pending_file[p] = SinPendiente
  BY DEF Queued
<1>2. ASSUME NEW f \in File, NEW i \in 1..Len(open_files[f].cola), open_files[f].cola[i].pid = p
      PROVE  FALSE
  <2>1. pending_file[p] = <<f, open_files[f].cola[i].modo>>
    BY <1>2, PendingThere
  <2>2. Len(pending_file[p]) = 2
    BY <2>1
  <2>3. Len(SinPendiente) = 0
    BY EmptySeq DEF SinPendiente
  <2> QED  BY <1>1, <2>2, <2>3
<1> QED  BY <1>1, <1>2

LEMMA OpenQueued ==
  ASSUME LockTyping, Absent, Queued, NEW p \in Process, NEW f \in File, NEW modo \in Modo,
         FOpen(p, f, modo)
  PROVE  Queued'
<1>1. /\ kernel = "up" /\ estado[p] = "listo" /\ kernel' = kernel
      /\ open_files' = [open_files EXCEPT ![f] = open_files'[f]]
      /\ Len(archivos[p]) < MaxOpen
  BY OpenCases
<1>2. \A g \in File : g # f => open_files'[g] = open_files[g]
  BY <1>1 DEF LockTyping
<1>3. /\ pending_file[p] = SinPendiente
      /\ \A g \in File : \A i \in 1..Len(open_files[g].cola) : open_files[g].cola[i].pid # p
  BY <1>1, TheFreeDoNotWait
<1>4. CASE ~open_files[f].escritura
  <2>1. archivos' = [archivos EXCEPT ![p] = Append(@, [archivo |-> f, modo |-> modo, puntero |-> 0])]
    BY <1>4, OpenCases
  <2>2. pending_file' = [pending_file EXCEPT ![p] = SinPendiente] /\ estado' = estado
    BY <1>4, OpenCases
  <2>3. open_files'[f].cola = open_files[f].cola
    BY <1>4, OpenCases
  <2>4. incidentes \subseteq incidentes'
    <3>1. incidentes' \in {incidentes, incidentes \cup {"mixed"}}
      BY <1>4, OpenCases
    <3> QED  BY <3>1
  <2>5. pending_file' = pending_file
    BY <1>3, <2>2 DEF LockTyping
  <2>6. \A q \in Process : q # p => archivos'[q] = archivos[q]
    BY <2>1 DEF LockTyping, Tablas
  <2>7. \A q \in Process : estado'[q] = "block" => estado[q] = "block" /\ Len(archivos'[q]) = Len(archivos[q])
    BY <1>1, <2>2, <2>6
  <2>8. \A q \in Process : pending_file[q] # SinPendiente => pending_file[q][1] \in File
    BY Requests
  <2>9. \A g \in File : open_files'[g].cola = open_files[g].cola
    BY <1>2, <2>3
  <2> QED  BY <1>1, <2>2, <2>4, <2>5, <2>7, <2>8, <2>9, SameQueues
<1>5. CASE open_files[f].escritura
  <2> DEFINE cola == open_files[f].cola
             x == [pid |-> p, modo |-> modo]
  <2>1. open_files'[f].cola = Append(cola, x)
    BY <1>5, OpenCases
  <2>2. /\ pending_file' = [pending_file EXCEPT ![p] = <<f, modo>>]
        /\ estado' = [estado EXCEPT ![p] = "block"]
    BY <1>5, OpenCases
  <2>3. UNCHANGED <<archivos, incidentes>>
    BY <1>5, OpenCases
  <2>4. cola \in Seq(Pedido) /\ x \in Pedido /\ Len(cola) \in Nat
    BY LenProperties DEF LockTyping, Libro, Pedido
  <2>5. /\ Len(open_files'[f].cola) = Len(cola) + 1
        /\ open_files'[f].cola[Len(cola) + 1].pid = p
        /\ open_files'[f].cola[Len(cola) + 1].modo = modo
        /\ \A i \in 1..Len(cola) : open_files'[f].cola[i] = cola[i]
    <3> HIDE DEF cola
    <3>1. /\ Len(open_files'[f].cola) = Len(cola) + 1
          /\ open_files'[f].cola[Len(cola) + 1] = x
          /\ \A i \in 1..Len(cola) : open_files'[f].cola[i] = cola[i]
      <4> HIDE DEF x
      <4> QED  BY <2>1, <2>4, AppendProperties
    <3> QED  BY <3>1
  <2>6. /\ pending_file'[p] = <<f, modo>> /\ estado'[p] = "block"
        /\ \A q \in Process : q # p => pending_file'[q] = pending_file[q] /\ estado'[q] = estado[q]
    BY <2>2 DEF LockTyping
  <2>7. \A g \in File : \A i \in 1..Len(open_files[g].cola) :
          /\ open_files[g].cola[i].pid \in Process /\ open_files[g].cola[i].pid # p
          /\ pending_file'[open_files[g].cola[i].pid] = <<g, open_files[g].cola[i].modo>>
    <3> TAKE g \in File
    <3> TAKE i \in 1..Len(open_files[g].cola)
    <3>1. open_files[g].cola[i].pid \in Process /\ open_files[g].cola[i].pid # p
      BY <1>3, QueueTypes
    <3>2. pending_file[open_files[g].cola[i].pid] = <<g, open_files[g].cola[i].modo>>
      BY <1>1, PendingThere
    <3> QED  BY <2>6, <3>1, <3>2
  <2>8. \A g \in File : \A i \in 1..Len(open_files'[g].cola) :
          pending_file'[open_files'[g].cola[i].pid] = <<g, open_files'[g].cola[i].modo>>
    <3> TAKE g \in File
    <3> TAKE i \in 1..Len(open_files'[g].cola)
    <3>1. CASE g = f
      <4>1. i \in 1..Len(cola) \/ i = Len(cola) + 1
        BY <2>4, <2>5, <3>1
      <4>2. CASE i \in 1..Len(cola)
        <5>1. open_files'[f].cola[i] = open_files[f].cola[i]
          BY <2>5, <4>2
        <5> QED  BY <2>7, <3>1, <4>2, <5>1
      <4>3. CASE i = Len(cola) + 1
        BY <2>5, <2>6, <3>1, <4>3
      <4> QED  BY <4>1, <4>2, <4>3
    <3>2. CASE g # f
      <4>1. open_files'[g] = open_files[g]
        BY <1>2, <3>2
      <4> QED  BY <2>7, <4>1
    <3> QED  BY <3>1, <3>2
  <2>9. \A g \in File : \A i, j \in 1..Len(open_files'[g].cola) :
          open_files'[g].cola[i].pid = open_files'[g].cola[j].pid => i = j
    <3> TAKE g \in File
    <3> TAKE i, j \in 1..Len(open_files'[g].cola)
    <3>1. CASE g = f
      <4>1. /\ i \in 1..Len(cola) \/ i = Len(cola) + 1
            /\ j \in 1..Len(cola) \/ j = Len(cola) + 1
        BY <2>4, <2>5, <3>1
      <4>2. \A a, b \in 1..Len(cola) : cola[a].pid = cola[b].pid => a = b
        BY <1>1 DEF Queued
      <4>3. \A a \in 1..Len(cola) : cola[a].pid # p /\ open_files'[f].cola[a] = cola[a]
        BY <1>3, <2>5
      <4>4. open_files'[f].cola[Len(cola) + 1].pid = p
        BY <2>5
      <4> HIDE DEF cola
      <4> QED  BY <3>1, <4>1, <4>2, <4>3, <4>4
    <3>2. CASE g # f
      BY <1>1, <1>2, <3>2 DEF Queued
    <3> QED  BY <3>1, <3>2
  <2>10. \A q \in Process : pending_file'[q] # SinPendiente =>
           estado'[q] = "block" \/ (estado'[q] = "fin" /\ "waiter" \in incidentes')
    BY <1>1, <2>3, <2>6 DEF Queued
  <2>11. ASSUME NEW q \in Process, estado'[q] = "block"
         PROVE  /\ pending_file'[q] # SinPendiente
                /\ Len(archivos'[q]) < MaxOpen
                /\ \E i \in 1..Len(open_files'[pending_file'[q][1]].cola) :
                     open_files'[pending_file'[q][1]].cola[i].pid = q
    <3>1. CASE q = p
      <4>1. pending_file'[q] # SinPendiente /\ pending_file'[q][1] = f
        <5>1. Len(pending_file'[q]) = 2 /\ pending_file'[q][1] = f
          BY <2>6, <3>1
        <5>2. Len(SinPendiente) = 0
          BY EmptySeq DEF SinPendiente
        <5> QED  BY <5>1, <5>2
      <4>2. Len(cola) + 1 \in 1..Len(open_files'[f].cola)
        BY <2>4, <2>5
      <4> QED  BY <1>1, <2>3, <2>5, <3>1, <4>1, <4>2
    <3>2. CASE q # p
      <4>1. /\ pending_file[q] # SinPendiente /\ Len(archivos[q]) < MaxOpen
            /\ \E i \in 1..Len(open_files[pending_file[q][1]].cola) :
                 open_files[pending_file[q][1]].cola[i].pid = q
        BY <1>1, <2>6, <2>11, <3>2 DEF Queued
      <4>2. PICK g \in File : g = pending_file[q][1]
        BY <4>1, Requests
      <4>3. PICK i \in 1..Len(open_files[g].cola) : open_files[g].cola[i].pid = q
        BY <4>1, <4>2
      <4>4. i \in 1..Len(open_files'[g].cola) /\ open_files'[g].cola[i].pid = q
        <5>1. CASE g = f
          BY <2>4, <2>5, <4>3, <5>1
        <5>2. CASE g # f
          BY <1>2, <4>3, <5>2
        <5> QED  BY <5>1, <5>2
      <4> QED  BY <2>3, <2>6, <3>2, <4>1, <4>2, <4>4
    <3> QED  BY <3>1, <3>2
  <2> QED  BY <2>8, <2>9, <2>10, <2>11 DEF Queued
<1> QED  BY <1>4, <1>5

\* Whoever a close does not hand the file to is where it was.
LEMMA CloseQueues ==
  ASSUME LockTyping, NEW p \in Process, NEW f \in File, NEW k \in Nat, NEW n \in Nat,
         Devuelto(p, f, k, n)
  PROVE  /\ \A g \in File : g # f => open_files'[g] = open_files[g]
         /\ Len(open_files'[f].cola) = Len(open_files[f].cola) - n
         /\ \A i \in 1..(Len(open_files[f].cola) - n) :
              n + i \in 1..Len(open_files[f].cola) /\ open_files'[f].cola[i] = open_files[f].cola[n + i]
<1>1. \A g \in File : g # f => open_files'[g] = open_files[g]
  <2>1. open_files' = [open_files EXCEPT ![f] = open_files'[f]]
    BY DEF Devuelto
  <2> QED  BY <2>1 DEF LockTyping
<1>2. n \in 0..Len(open_files[f].cola) /\ Len(open_files[f].cola) \in Nat
  BY QueueTypes DEF Devuelto
<1>3. CASE open_files[f].cola = <<>>
  <2>1. open_files'[f].cola = <<>> /\ n = 0 /\ Len(open_files[f].cola) = 0
    BY <1>2, <1>3, EmptySeq DEF Devuelto, SinEntrada
  <2> QED  BY <1>1, <1>3, <2>1
<1>4. CASE open_files[f].cola # <<>>
  <2>1. /\ Len(open_files'[f].cola) = Len(open_files[f].cola) - n
        /\ \A i \in 1..(Len(open_files[f].cola) - n) :
             open_files'[f].cola[i] = open_files[f].cola[n + i]
    BY <1>4 DEF Devuelto
  <2> QED  BY <1>1, <1>2, <2>1
<1> QED  BY <1>3, <1>4

LEMMA CloseQueued ==
  ASSUME LockTyping, Queued, NEW p \in Process, NEW f \in File, NEW k \in Nat,
         NEW n \in Nat, kernel = "up", estado[p] = "listo",
         Devuelto(p, f, k, n), Entregado(p, f, k, n)
  PROVE  Queued'
<1> DEFINE G == Primeros(f, n)
           cola == open_files[f].cola
<1> SUFFICES ASSUME kernel' = "up" PROVE Queued'
  BY DEF Queued
<1>1. n \in 0..Len(cola) /\ Len(cola) \in Nat /\ incidentes \subseteq incidentes'
  BY QueueTypes DEF Devuelto
<1>2. /\ p \notin G /\ G \subseteq Process
      /\ \A q \in Process : q # p => SinEntradaK(p, k)[q] = archivos[q]
  BY CloseTables
<1>3. /\ G \subseteq Vivos
      /\ archivos' = [q \in Process |->
           IF q \in G
           THEN Append(SinEntradaK(p, k)[q], [archivo |-> f, modo |-> pending_file[q][2], puntero |-> 0])
           ELSE SinEntradaK(p, k)[q]]
      /\ pending_file' = [q \in Process |-> IF q \in G THEN SinPendiente ELSE pending_file[q]]
      /\ estado' = [q \in Process |-> IF q \in G THEN "listo" ELSE estado[q]]
  BY DEF Entregado
<1>4. /\ \A g \in File : g # f => open_files'[g] = open_files[g]
      /\ Len(open_files'[f].cola) = Len(cola) - n
      /\ \A i \in 1..(Len(cola) - n) : n + i \in 1..Len(cola) /\ open_files'[f].cola[i] = cola[n + i]
  BY CloseQueues
<1>5. \A q \in G : pending_file[q][1] = f /\ \E i \in 1..n : cola[i].pid = q
  BY <1>1, EverybodyIsPending DEF Primeros
<1>6. \A i \in 1..n : cola[i].pid \in G
  BY DEF Primeros
<1>7. \A i \in 1..Len(cola) : i > n => cola[i].pid \notin G
  <2> SUFFICES ASSUME NEW i \in 1..Len(cola), i > n, cola[i].pid \in G PROVE FALSE
    OBVIOUS
  <2>1. PICK j \in 1..n : cola[j].pid = cola[i].pid
    BY <1>5
  <2>2. j \in 1..Len(cola) /\ j # i
    BY <1>1
  <2> QED  BY <2>1, <2>2 DEF Queued
<1>8. \A g \in File : g # f => \A i \in 1..Len(open_files[g].cola) : open_files[g].cola[i].pid \notin G
  <2> SUFFICES ASSUME NEW g \in File, g # f, NEW i \in 1..Len(open_files[g].cola),
                      open_files[g].cola[i].pid \in G
               PROVE  FALSE
    OBVIOUS
  <2>1. pending_file[open_files[g].cola[i].pid][1] = g
    <3>1. pending_file[open_files[g].cola[i].pid] = <<g, open_files[g].cola[i].modo>>
      BY PendingThere
    <3> QED  BY <3>1
  <2> QED  BY <1>5, <2>1
<1> HIDE DEF G, cola
\* Those that stay in a queue, and where they were.
<1>9. \A g \in File : \A i \in 1..Len(open_files'[g].cola) :
        \E j \in 1..Len(open_files[g].cola) :
          /\ open_files'[g].cola[i] = open_files[g].cola[j]
          /\ open_files[g].cola[j].pid \notin G
          /\ j = IF g = f THEN n + i ELSE i
  <2> TAKE g \in File
  <2> TAKE i \in 1..Len(open_files'[g].cola)
  <2>1. CASE g = f
    <3>1. n + i \in 1..Len(cola) /\ open_files'[f].cola[i] = cola[n + i] /\ n + i > n
      BY <1>1, <1>4, <2>1
    <3> QED  BY <1>7, <2>1, <3>1 DEF cola
  <2>2. CASE g # f
    BY <1>4, <1>8, <2>2
  <2> QED  BY <2>1, <2>2
<1>10. \A g \in File : \A i \in 1..Len(open_files'[g].cola) :
         pending_file'[open_files'[g].cola[i].pid] = <<g, open_files'[g].cola[i].modo>>
  <2> TAKE g \in File
  <2> TAKE i \in 1..Len(open_files'[g].cola)
  <2>1. PICK j \in 1..Len(open_files[g].cola) :
          open_files'[g].cola[i] = open_files[g].cola[j] /\ open_files[g].cola[j].pid \notin G
    BY <1>9
  <2>2. /\ open_files[g].cola[j].pid \in Process
        /\ pending_file[open_files[g].cola[j].pid] = <<g, open_files[g].cola[j].modo>>
    BY PendingThere, QueueTypes
  <2>3. pending_file'[open_files[g].cola[j].pid] = pending_file[open_files[g].cola[j].pid]
    BY <1>3, <2>1, <2>2
  <2> QED  BY <2>1, <2>2, <2>3
<1>11. \A g \in File : \A i, j \in 1..Len(open_files'[g].cola) :
         open_files'[g].cola[i].pid = open_files'[g].cola[j].pid => i = j
  <2> TAKE g \in File
  <2> TAKE i, j \in 1..Len(open_files'[g].cola)
  <2> HAVE open_files'[g].cola[i].pid = open_files'[g].cola[j].pid
  <2>1. PICK a \in 1..Len(open_files[g].cola) :
          /\ open_files'[g].cola[i] = open_files[g].cola[a]
          /\ a = IF g = f THEN n + i ELSE i
    BY <1>9
  <2>2. PICK b \in 1..Len(open_files[g].cola) :
          /\ open_files'[g].cola[j] = open_files[g].cola[b]
          /\ b = IF g = f THEN n + j ELSE j
    BY <1>9
  <2>3. open_files[g].cola[a].pid = open_files[g].cola[b].pid
    BY <2>1, <2>2
  <2>4. a = b
    BY <2>3 DEF Queued
  <2>5. i \in Int /\ j \in Int
    OBVIOUS
  <2> QED  BY <2>1, <2>2, <2>4, <2>5
<1>12. \A q \in Process : pending_file'[q] # SinPendiente =>
         estado'[q] = "block" \/ (estado'[q] = "fin" /\ "waiter" \in incidentes')
  BY <1>1, <1>3 DEF Queued
<1>13. ASSUME NEW q \in Process, estado'[q] = "block"
       PROVE  /\ pending_file'[q] # SinPendiente
              /\ Len(archivos'[q]) < MaxOpen
              /\ \E i \in 1..Len(open_files'[pending_file'[q][1]].cola) :
                   open_files'[pending_file'[q][1]].cola[i].pid = q
  <2>1. q \notin G /\ estado[q] = "block" /\ q # p
    BY <1>2, <1>3, <1>13
  <2>2. pending_file'[q] = pending_file[q] /\ archivos'[q] = archivos[q]
    <3>1. pending_file'[q] = pending_file[q]
      BY <1>3, <2>1
    <3>2. archivos'[q] = SinEntradaK(p, k)[q]
      BY <1>3, <2>1
    <3> QED  BY <1>2, <2>1, <3>1, <3>2
  <2>3. /\ pending_file[q] # SinPendiente /\ Len(archivos[q]) < MaxOpen
        /\ \E i \in 1..Len(open_files[pending_file[q][1]].cola) :
             open_files[pending_file[q][1]].cola[i].pid = q
    BY <2>1 DEF Queued
  <2>4. PICK g \in File : g = pending_file[q][1]
    BY <2>3, Requests
  <2>5. PICK i \in 1..Len(open_files[g].cola) : open_files[g].cola[i].pid = q
    BY <2>3, <2>4
  <2>6. \E j \in 1..Len(open_files'[g].cola) : open_files'[g].cola[j].pid = q
    <3>1. CASE g = f
      <4>1. i \in 1..Len(cola) /\ cola[i].pid = q
        BY <2>5, <3>1 DEF cola
      <4>2. ~(i <= n)
        <5>1. i <= n => i \in 1..n
          BY <1>1
        <5> QED  BY <1>6, <2>1, <4>1, <5>1
      <4>3. i - n \in 1..(Len(cola) - n) /\ n + (i - n) = i
        BY <1>1, <4>1, <4>2
      <4>4. open_files'[f].cola[i - n] = cola[i] /\ i - n \in 1..Len(open_files'[f].cola)
        <5>1. open_files'[f].cola[i - n] = cola[n + (i - n)]
          BY <1>4, <4>3
        <5> QED  BY <1>4, <4>3, <5>1
      <4> QED  BY <3>1, <4>1, <4>4
    <3>2. CASE g # f
      BY <1>4, <2>5, <3>2
    <3> QED  BY <3>1, <3>2
  <2> QED  BY <2>2, <2>3, <2>4, <2>6
<1> QED  BY <1>10, <1>11, <1>12, <1>13 DEF Queued

LEMMA OtherQueued ==
  ASSUME LockTyping, Absent, Queued,
         Callado \/ (\E p \in Process, f \in File, n \in Nat : FSeek(p, f, n))
           \/ (\E p \in Process : Exit(p))
  PROVE  Queued'
<1>0. \A p \in Process : pending_file[p] # SinPendiente => pending_file[p][1] \in File
  BY Requests
<1>1. CASE Callado
  <2>1. \A g \in File : open_files'[g].cola = open_files[g].cola
    <3>1. CASE open_files' = open_files
      BY <3>1
    <3>2. ASSUME NEW f \in File, open_files' = [open_files EXCEPT ![f] = GetFile(f)]
          PROVE  \A g \in File : open_files'[g].cola = open_files[g].cola
      BY <3>2, FileLock DEF LockTyping
    <3> QED  BY <1>1, <3>1, <3>2 DEF Callado
  <2>2. UNCHANGED <<archivos, pending_file, estado, kernel, incidentes>>
    BY <1>1 DEF Callado
  <2> QED  BY <1>0, <2>1, <2>2, SameQueues
<1>2. ASSUME NEW p \in Process, NEW f \in File, NEW n \in Nat, FSeek(p, f, n)
      PROVE  Queued'
  <2>1. \A q \in Process : Len(archivos'[q]) = Len(archivos[q])
    BY <1>2, SeekTables
  <2>2. UNCHANGED <<open_files, pending_file, estado, llamada, kernel, incidentes>>
    BY <1>2 DEF FSeek
  <2> QED  BY <1>0, <2>1, <2>2, SameQueues
<1>3. ASSUME NEW p \in Process, Exit(p)
      PROVE  Queued'
  <2>1. /\ UNCHANGED <<open_files, archivos, pending_file, kernel>>
        /\ estado' = [estado EXCEPT ![p] = "fin"]
        /\ incidentes \subseteq incidentes'
        /\ pending_file[p] # SinPendiente => "waiter" \in incidentes'
    BY <1>3 DEF Exit, tableVars
  <2>2. /\ estado'[p] = "fin"
        /\ \A q \in Process : q # p => estado'[q] = estado[q]
    BY <2>1 DEF LockTyping
  <2>3. \A q \in Process : estado'[q] = "block" =>
          estado[q] = "block" /\ Len(archivos'[q]) = Len(archivos[q])
    BY <2>1, <2>2
  <2>4. \A q \in Process : pending_file[q] # SinPendiente =>
          estado'[q] = estado[q] \/ (estado'[q] = "fin" /\ "waiter" \in incidentes')
    BY <2>1, <2>2
  <2> QED  BY <1>0, <2>1, <2>3, <2>4, SameQueues
<1> QED  BY <1>1, <1>2, <1>3

LEMMA NobodyWaitsAtFirst ==
  ASSUME \A f \in File : open_files[f].cola = <<>>,
         \A p \in Process : pending_file[p] = SinPendiente /\ estado[p] = "listo"
  PROVE  Queued
<1>1. \A f \in File : Len(open_files[f].cola) = 0
  BY EmptySeq
<1>2. \A f \in File : \A i \in 1..Len(open_files[f].cola) : FALSE
  BY <1>1
<1> QED  BY <1>2 DEF Queued

LEMMA NobodyWaitsAfterRestart ==
  ASSUME Restart
  PROVE  Queued'
<1>1. \A f \in File : open_files'[f].cola = <<>>
  BY DEF Restart, SinEntrada
<1>2. \A f \in File : Len(open_files'[f].cola) = 0
  BY <1>1, EmptySeq
<1>3. \A f \in File : \A i \in 1..Len(open_files'[f].cola) : FALSE
  BY <1>2
<1>4. \A p \in Process : pending_file'[p] = SinPendiente /\ estado'[p] = "listo"
  BY DEF Restart
<1> QED  BY <1>3, <1>4 DEF Queued

LEMMA QueuedKeeps ==
  ASSUME LockTyping, Absent, Queued, [Next]_vars
  PROVE  Queued'
<1>1. Restart \/ LockStep
  BY Steps
<1>2. CASE Restart
  BY <1>2, NobodyWaitsAfterRestart
<1>3. CASE LockStep
  <2>1. ASSUME NEW p \in Process, NEW f \in File, NEW modo \in Modo, FOpen(p, f, modo)
        PROVE  Queued'
    BY <2>1, OpenQueued
  <2>2. ASSUME NEW p \in Process, NEW f \in File, Cierre(p, f)
        PROVE  Queued'
    <3>1. /\ kernel = "up" /\ estado[p] = "listo"
          /\ \E k, n \in Nat : Devuelto(p, f, k, n) /\ Entregado(p, f, k, n)
      BY <2>2, CloseCases
    <3> QED  BY <3>1, CloseQueued
  <2>3. CASE Callado \/ (\E p \in Process, f \in File, n \in Nat : FSeek(p, f, n))
               \/ (\E p \in Process : Exit(p))
    BY <2>3, OtherQueued
  <2> QED  BY <1>3, <2>1, <2>2, <2>3 DEF LockStep
<1> QED  BY <1>1, <1>2, <1>3

------------------------------------------------------------------------------
(* The planner dies only of a waiter that ended.                             *)

LEMMA KernelKeeps ==
  ASSUME LockTyping, Absent, Queued, KernelStays, [Next]_vars
  PROVE  KernelStays'
<1>1. CASE Restart
  BY <1>1 DEF Restart, KernelStays
<1>2. CASE LockStep
  <2>1. ASSUME NEW p \in Process, NEW f \in File, NEW modo \in Modo, FOpen(p, f, modo)
        PROVE  KernelStays'
    BY <2>1 DEF FOpen, Atiende, KernelStays
  <2>2. ASSUME NEW p \in Process, NEW f \in File, Cierre(p, f)
        PROVE  KernelStays'
    <3>1. kernel = "up"
      BY <2>2 DEF Cierre, Atiende
    <3>2. PICK k \in Nat, n \in Nat : Devuelto(p, f, k, n) /\ Entregado(p, f, k, n)
      BY <2>2, CloseCases
    <3>3. incidentes \subseteq incidentes' /\ n \in 0..Len(open_files[f].cola)
      BY <3>2 DEF Devuelto
    <3>4. ASSUME kernel' = "down" PROVE "waiter" \in incidentes
      <4>1. ~(Primeros(f, n) \subseteq Vivos)
        BY <3>1, <3>2, <3>4 DEF Entregado
      <4>2. PICK q \in Primeros(f, n) : q \notin Vivos
        BY <4>1
      <4>3. q \in Process /\ (estado[q] = "fin" => "waiter" \in incidentes)
        BY <3>1, <3>3, EverybodyIsPending
      <4> QED  BY <4>2, <4>3 DEF Vivos
    <3> QED  BY <3>3, <3>4 DEF KernelStays
  <2>3. CASE Callado \/ (\E p \in Process, f \in File, n \in Nat : FSeek(p, f, n))
               \/ (\E p \in Process : Exit(p))
    <3>1. kernel' = kernel /\ incidentes \subseteq incidentes'
      BY <2>3 DEF Callado, FSeek, Exit
    <3> QED  BY <3>1 DEF KernelStays
  <2> QED  BY <1>2, <2>1, <2>2, <2>3 DEF LockStep
<1> QED  BY <1>1, <1>2, Steps

------------------------------------------------------------------------------
(* How many have a file open, after each step.                               *)

LEMMA OpenCounts ==
  ASSUME LockTyping, LockTyping', Absent, NEW p \in Process, NEW f \in File, NEW modo \in Modo,
         FOpen(p, f, modo), NEW g \in File, NEW m \in Modo
  PROVE  IF ~open_files[f].escritura /\ g = f /\ m = modo
         THEN Cuenta(g, m)' = Cuenta(g, m) + 1
         ELSE Cuenta(g, m)' = Cuenta(g, m)
<1>1. kernel = "up" /\ estado[p] = "listo"
  BY OpenCases
<1>2. Vivos' = Vivos /\ p \in Vivos
  <2>1. estado' = estado \/ estado' = [estado EXCEPT ![p] = "block"]
    BY OpenTypes DEF FOpen
  <2> QED  BY <1>1, <2>1 DEF Vivos, LockTyping
<1>3. CASE open_files[f].escritura
  <2>1. archivos' = archivos
    BY <1>3, OpenCases
  <2> QED  BY <1>2, <1>3, <2>1, SameCounts
<1>4. CASE ~open_files[f].escritura
  <2> DEFINE x == [archivo |-> f, modo |-> modo, puntero |-> 0]
             r == [q \in {p} |-> x]
             H == Nuevas({p}, r, g, m)
  <2>1. archivos' = [archivos EXCEPT ![p] = Append(@, x)]
    BY <1>4, OpenCases
  <2>2. archivos \in Tablas
    BY DEF LockTyping
  <2>3. x \in Apertura /\ r \in [{p} -> Apertura] /\ {p} \in SUBSET Vivos /\ Vivos \in SUBSET Process
    <3>1. x \in Apertura
      BY DEF Apertura
    <3> HIDE DEF x
    <3> QED  BY <1>2, <3>1 DEF Vivos
  <2>4. archivos' = ConAperturas(archivos, {p}, r)
    <3> HIDE DEF x
    <3> QED  BY <2>1, <2>2 DEF Tablas, ConAperturas
  <2>5. H = IF g = f /\ m = modo THEN {p} ELSE {}
    BY DEF Nuevas
  <2>6. Cardinality(H) = IF g = f /\ m = modo THEN 1 ELSE 0
    <3>1. Cardinality({p}) = 1 /\ Cardinality({}) = 0
      BY FS_Singleton, FS_EmptySet
    <3> HIDE DEF H
    <3> QED  BY <2>5, <3>1
  <2>7. IsFiniteSet(Aperturas(archivos, Vivos, g, m))
    BY CountsNow
  <2> HIDE DEF r
  <2>8. Cardinality(Aperturas(archivos', Vivos, g, m))
          = Cardinality(Aperturas(archivos, Vivos, g, m)) + Cardinality(H)
    BY <2>2, <2>3, <2>4, <2>7, OpeningsMore
  <2>9. Cuenta(g, m)' = Cardinality(Aperturas(archivos', Vivos, g, m))
    BY <1>2, CountsAfter
  <2>10. Cuenta(g, m) = Cardinality(Aperturas(archivos, Vivos, g, m)) /\ Cuenta(g, m) \in Nat
    BY CountsNow
  <2> HIDE DEF H
  <2> QED  BY <1>4, <2>6, <2>8, <2>9, <2>10
<1> QED  BY <1>3, <1>4

LEMMA SeekCounts ==
  ASSUME LockTyping, LockTyping', NEW p \in Process, NEW f \in File, NEW n \in Nat, FSeek(p, f, n),
         NEW g \in File, NEW m \in Modo
  PROVE  Cuenta(g, m)' = Cuenta(g, m)
<1>1. Vivos' = Vivos /\ Vivos \in SUBSET Process
  BY DEF FSeek, Vivos
<1>2. \A q \in Process : /\ Len(archivos'[q]) = Len(archivos[q])
                         /\ \A i \in 1..Len(archivos[q]) :
                              /\ archivos'[q][i].archivo = archivos[q][i].archivo
                              /\ archivos'[q][i].modo = archivos[q][i].modo
  BY SeekTables
<1>3. Aperturas(archivos', Vivos', g, m) = Aperturas(archivos, Vivos, g, m)
  BY <1>1, <1>2 DEF Aperturas
<1> QED  BY <1>3, CountsNow, CountsAfter

LEMMA ExitCounts ==
  ASSUME LockTyping, LockTyping', NEW p \in Process, Exit(p), NEW g \in File, NEW m \in Modo
  PROVE  /\ Cuenta(g, m)' <= Cuenta(g, m)
         /\ "abandoned" \notin incidentes' => Cuenta(g, m)' = Cuenta(g, m)
<1> DEFINE A == Aperturas(archivos, Vivos, g, m)
           B == Aperturas(archivos', Vivos', g, m)
<1>1. archivos' = archivos /\ estado' = [estado EXCEPT ![p] = "fin"]
  BY DEF Exit, tableVars
<1>2. Vivos' = Vivos \ {p}
  BY <1>1 DEF Vivos, LockTyping
<1>3. B \subseteq A
  BY <1>1, <1>2 DEF Aperturas
<1>4. IsFiniteSet(A) /\ Cuenta(g, m) = Cardinality(A) /\ Cuenta(g, m)' = Cardinality(B)
  BY CountsNow, CountsAfter
<1>5. Cardinality(B) <= Cardinality(A)
  BY <1>3, <1>4, FS_Subset
<1>6. ASSUME "abandoned" \notin incidentes' PROVE A = B
  <2>1. archivos[p] = <<>>
    BY <1>6 DEF Exit
  <2>2. Len(archivos[p]) = 0
    BY <2>1, EmptySeq
  <2>3. \A a \in A : a[1] # p
    BY <2>2 DEF Aperturas
  <2>4. A \subseteq B
    BY <1>1, <1>2, <2>3 DEF Aperturas
  <2> QED  BY <1>3, <2>4
<1> HIDE DEF A, B
<1> QED  BY <1>4, <1>5, <1>6

\* The first of a queue are as many processes.
LEMMA FirstInQueue ==
  ASSUME LockTyping, Queued, kernel = "up", NEW f \in File, NEW n \in 0..Len(open_files[f].cola)
  PROVE  Cardinality(Primeros(f, n)) = n
<1> DEFINE g == [i \in 1..n |-> open_files[f].cola[i].pid]
<1>1. Len(open_files[f].cola) \in Nat /\ n \in Nat /\ \A i \in 1..n : i \in 1..Len(open_files[f].cola)
  BY QueueTypes
<1>2. \A i, j \in 1..n : g[i] = g[j] => i = j
  BY <1>1 DEF Queued
<1>3. g \in [1..n -> Primeros(f, n)] /\ \A q \in Primeros(f, n) : \E i \in 1..n : g[i] = q
  BY DEF Primeros
<1>4. IsFiniteSet(1..n) /\ Cardinality(1..n) = n
  BY <1>1, FS_Interval
<1> HIDE DEF g
<1>5. Cardinality(Primeros(f, n)) = Cardinality(1..n)
  BY <1>2, <1>3, <1>4, SameSize
<1> QED  BY <1>4, <1>5

\* Those that are handed a file in a mode: one writer, or n readers.
LEMMA Granted ==
  ASSUME LockTyping, Queued, kernel = "up", NEW f \in File, NEW n \in 0..Len(open_files[f].cola),
         Escritor(f, n) \/ \A i \in 1..n : open_files[f].cola[i].modo = "R",
         NEW m \in Modo
  PROVE  Cardinality({q \in Primeros(f, n) : pending_file[q][2] = m})
           = IF m = "R" THEN (IF Escritor(f, n) THEN 0 ELSE n)
             ELSE (IF Escritor(f, n) THEN 1 ELSE 0)
<1> DEFINE G == Primeros(f, n)
           H == {q \in G : pending_file[q][2] = m}
<1>1. Len(open_files[f].cola) \in Nat /\ n \in Nat /\ \A i \in 1..n : i \in 1..Len(open_files[f].cola)
  BY QueueTypes
<1>2. \A q \in G : \E i \in 1..n : q = open_files[f].cola[i].pid /\ pending_file[q][2] = open_files[f].cola[i].modo
  <2> TAKE q \in G
  <2>1. PICK i \in 1..n : q = open_files[f].cola[i].pid
    BY DEF Primeros
  <2>2. pending_file[q] = <<f, open_files[f].cola[i].modo>>
    BY <1>1, <2>1, PendingThere
  <2> QED  BY <2>1, <2>2
<1>3. Cardinality(G) = n /\ Cardinality({}) = 0
  BY FirstInQueue, FS_EmptySet
<1> HIDE DEF G
<1>4. Cardinality(H) = IF m = "R" THEN (IF Escritor(f, n) THEN 0 ELSE n)
                       ELSE (IF Escritor(f, n) THEN 1 ELSE 0)
  <2>1. CASE Escritor(f, n)
    <3>1. n = 1 /\ \A q \in G : pending_file[q][2] = "W"
      BY <1>2, <2>1 DEF Escritor
    <3>2. CASE m = "R"
      <4>1. H = {}
        BY <3>1, <3>2
      <4> HIDE DEF H
      <4> QED  BY <1>3, <2>1, <3>2, <4>1
    <3>3. CASE m = "W"
      <4>1. H = G
        BY <3>1, <3>3
      <4> HIDE DEF H
      <4> QED  BY <1>3, <2>1, <3>1, <3>3, <4>1
    <3> QED  BY <3>2, <3>3 DEF Modo
  <2>2. CASE ~Escritor(f, n)
    <3>1. \A q \in G : pending_file[q][2] = "R"
      BY <1>2, <2>2
    <3>2. CASE m = "R"
      <4>1. H = G
        BY <3>1, <3>2
      <4> HIDE DEF H
      <4> QED  BY <1>3, <2>2, <3>2, <4>1
    <3>3. CASE m = "W"
      <4>1. H = {}
        BY <3>1, <3>3
      <4> HIDE DEF H
      <4> QED  BY <1>3, <2>2, <3>3, <4>1
    <3> QED  BY <3>2, <3>3 DEF Modo
  <2> QED  BY <2>1, <2>2
<1> QED  BY <1>4 DEF H, G

LEMMA CloseCounts ==
  ASSUME LockTyping, LockTyping', Queued, NEW p \in Process, NEW f \in File, NEW k \in Nat,
         NEW n \in Nat, kernel = "up", estado[p] = "listo",
         Devuelto(p, f, k, n), Entregado(p, f, k, n),
         NEW g \in File, NEW m \in Modo
  PROVE  Cuenta(g, m)' = Cuenta(g, m)
           - (IF g = f /\ m = archivos[p][k].modo THEN 1 ELSE 0)
           + (IF g # f \/ kernel' = "down" THEN 0
              ELSE IF m = "R" THEN (IF Escritor(f, n) THEN 0 ELSE n)
              ELSE (IF Escritor(f, n) THEN 1 ELSE 0))
<1> DEFINE T == SinEntradaK(p, k)
           G == Primeros(f, n)
           H == {q \in G : pending_file[q][2] = m}
           menos == IF g = f /\ m = archivos[p][k].modo THEN 1 ELSE 0
           mas == IF g # f \/ kernel' = "down" THEN 0
                  ELSE IF m = "R" THEN (IF Escritor(f, n) THEN 0 ELSE n)
                  ELSE (IF Escritor(f, n) THEN 1 ELSE 0)
<1>1. /\ n \in 0..Len(open_files[f].cola) /\ k \in 1..Len(archivos[p]) /\ archivos[p][k].archivo = f
      /\ Escritor(f, n) \/ \A i \in 1..n : open_files[f].cola[i].modo = "R"
  BY DEF Devuelto
<1>2. /\ T \in Tablas /\ Vivos' = Vivos /\ G \subseteq Process
  BY CloseTables
<1>3. p \in Vivos /\ Vivos \in SUBSET Process /\ archivos \in Tablas
  BY DEF Vivos, LockTyping
<1>4. /\ IsFiniteSet(Aperturas(archivos, Vivos, g, m))
      /\ Cuenta(g, m) = Cardinality(Aperturas(archivos, Vivos, g, m)) /\ Cuenta(g, m) \in Nat
      /\ Cuenta(g, m)' = Cardinality(Aperturas(archivos', Vivos, g, m))
  BY <1>2, CountsNow, CountsAfter
<1>5. T = SinApertura(archivos, p, k)
  BY DEF SinEntradaK, SinApertura
<1>6. /\ IsFiniteSet(Aperturas(T, Vivos, g, m))
      /\ Cardinality(Aperturas(T, Vivos, g, m)) =
           IF archivos[p][k].archivo = g /\ archivos[p][k].modo = m
           THEN Cardinality(Aperturas(archivos, Vivos, g, m)) - 1
           ELSE Cardinality(Aperturas(archivos, Vivos, g, m))
  BY <1>1, <1>3, <1>4, <1>5, OneOpeningLess
<1> HIDE DEF T, G
<1>7. Cardinality(Aperturas(T, Vivos, g, m)) = Cuenta(g, m) - menos
  BY <1>1, <1>4, <1>6
<1>8. Cuenta(g, m)' = Cardinality(Aperturas(T, Vivos, g, m)) + mas
  <2>1. Cardinality(Aperturas(T, Vivos, g, m)) \in Nat
    BY <1>6, FS_CardinalityType
  <2>2. CASE ~(G \subseteq Vivos)
    <3>1. archivos' = T /\ kernel' = "down"
      BY <2>2 DEF Entregado, T, G
    <3> QED  BY <1>4, <2>1, <3>1
  <2>3. CASE G \subseteq Vivos
    <3> DEFINE r == [q \in G |-> [archivo |-> f, modo |-> pending_file[q][2], puntero |-> 0]]
               I == Nuevas(G, r, g, m)
    <3>1. /\ archivos' = [q \in Process |-> IF q \in G
             THEN Append(T[q], [archivo |-> f, modo |-> pending_file[q][2], puntero |-> 0]) ELSE T[q]]
          /\ kernel' = kernel
      BY <2>3 DEF Entregado, T, G
    <3>2. archivos' = ConAperturas(T, G, r)
      BY <3>1 DEF ConAperturas
    <3>3. \A q \in G : pending_file[q][2] \in Modo
      BY <1>1, EverybodyIsPending DEF G
    <3>4. r \in [G -> Apertura]
      BY <3>3 DEF Apertura
    <3>5. I = IF g = f THEN H ELSE {}
      BY DEF Nuevas
    <3> HIDE DEF r
    <3>6. Cardinality(Aperturas(archivos', Vivos, g, m))
            = Cardinality(Aperturas(T, Vivos, g, m)) + Cardinality(I)
      BY <1>2, <1>3, <1>6, <2>3, <3>2, <3>4, OpeningsMore
    <3>7. Cardinality(H) = IF m = "R" THEN (IF Escritor(f, n) THEN 0 ELSE n)
                           ELSE (IF Escritor(f, n) THEN 1 ELSE 0)
      BY <1>1, Granted DEF G
    <3>8. Cardinality({}) = 0
      BY FS_EmptySet
    <3> HIDE DEF H, I
    <3>9. Cardinality(I) = mas
      BY <3>1, <3>5, <3>7, <3>8
    <3> HIDE DEF mas
    <3> QED  BY <1>4, <3>6, <3>9
  <2> QED  BY <2>2, <2>3
<1> HIDE DEF menos, mas
<1>9. Cuenta(g, m)' = Cuenta(g, m) - menos + mas
  BY <1>7, <1>8
<1> QED  BY <1>9 DEF menos, mas

------------------------------------------------------------------------------
(* Who holds a file.                                                         *)

\* Nothing changes for a file but what the history says.
LEMMA SameHolders ==
  ASSUME NEW f \in File, Held(f), kernel' = "up" => kernel = "up", incidentes \subseteq incidentes',
         open_files'[f].escritura = open_files[f].escritura,
         open_files'[f].lectura = open_files[f].lectura,
         open_files'[f].cola = open_files[f].cola,
         Cuenta(f, "R")' = Cuenta(f, "R"), Cuenta(f, "W")' = Cuenta(f, "W")
  PROVE  Held(f)'
<1>1. Exclusive(f)'
  BY DEF Held, Exclusive
<1>2. Locked(f)'
  BY DEF Held, Locked
<1>3. Owned(f)'
  BY DEF Held, Owned
<1>4. Counted(f)'
  BY DEF Held, Counted
<1> QED  BY <1>1, <1>2, <1>3, <1>4 DEF Held

LEMMA OpenHeld ==
  ASSUME LockTyping, LockTyping', Absent, NEW p \in Process, NEW f \in File, NEW modo \in Modo,
         FOpen(p, f, modo), Held(f)
  PROVE  Held(f)'
<1>1. PICK r \in Nat, w \in Nat, l \in Int :
        r = Cuenta(f, "R") /\ w = Cuenta(f, "W") /\ l = open_files[f].lectura
  <2>1. open_files[f].lectura \in Int /\ "R" \in Modo /\ "W" \in Modo
    BY DEF LockTyping, Libro, Modo
  <2> QED  BY <2>1, CountsNow
<1>2. kernel = "up" /\ kernel' = "up"
  BY OpenCases
<1>3. CASE open_files[f].escritura
  <2>1. Cuenta(f, "R")' = r /\ Cuenta(f, "W")' = w
    BY <1>1, <1>3, OpenCounts DEF Modo
  <2>2. open_files'[f].escritura /\ open_files'[f].lectura = l
    BY <1>1, <1>3, OpenCases
  <2>3. incidentes' = incidentes
    BY <1>3, OpenCases
  <2>4. Exclusive(f)'
    BY <1>1, <2>1, <2>3 DEF Held, Exclusive
  <2>5. Locked(f)'
    BY <1>1, <1>2, <1>3, <2>1, <2>2, <2>3 DEF Held, Locked
  <2>6. Owned(f)'
    BY <1>1, <1>2, <1>3, <2>1, <2>2, <2>3 DEF Held, Owned
  <2>7. Counted(f)'
    BY <1>1, <1>2, <2>1, <2>2, <2>3 DEF Held, Counted
  <2> QED  BY <2>4, <2>5, <2>6, <2>7 DEF Held
<1>4. CASE ~open_files[f].escritura /\ modo = "R"
  <2>1. Cuenta(f, "R")' = r + 1 /\ Cuenta(f, "W")' = w
    BY <1>1, <1>4, OpenCounts DEF Modo
  <2>2. open_files'[f].escritura = FALSE
    BY <1>4, OpenCases
  <2>3. open_files'[f].lectura = l + 1
    BY <1>1, <1>4, OpenCases
  <2>4. open_files'[f].cola = open_files[f].cola
    BY <1>4, OpenCases
  <2>5. incidentes \subseteq incidentes'
    <3>1. incidentes' \in {incidentes, incidentes \cup {"mixed"}}
      BY <1>4, OpenCases
    <3> QED  BY <3>1
  <2>6. "mixed" \notin incidentes' => w = 0
    BY <1>1, <1>2, <1>4, <2>5 DEF Held, Locked
  <2>7. Exclusive(f)'
    BY <2>1, <2>6 DEF Exclusive
  <2>8. Locked(f)'
    BY <1>1, <1>2, <2>1, <2>2, <2>3, <2>4, <2>5, <2>6 DEF Held, Locked
  <2>9. Owned(f)'
    <3>1. l <= r => l + 1 <= r + 1
      OBVIOUS
    <3>2. "mixed" \notin incidentes' => l + 1 > 0
      BY <1>1, <1>2, <2>5 DEF Held, Locked
    <3> QED  BY <1>1, <1>2, <2>1, <2>2, <2>3, <2>4, <2>5, <3>1, <3>2 DEF Held, Owned
  <2>10. Counted(f)'
    BY <1>1, <1>2, <2>1, <2>3, <2>5 DEF Held, Counted
  <2> QED  BY <2>7, <2>8, <2>9, <2>10 DEF Held
<1>5. CASE ~open_files[f].escritura /\ modo = "W"
  <2>1. Cuenta(f, "R")' = r /\ Cuenta(f, "W")' = w + 1
    BY <1>1, <1>5, OpenCounts DEF Modo
  <2>2. open_files'[f].escritura = TRUE
    BY <1>5, OpenCases
  <2>3. open_files'[f].lectura = l + 0
    BY <1>1, <1>5, OpenCases
  <2>4. open_files'[f].cola = open_files[f].cola
    BY <1>5, OpenCases
  <2>5. incidentes \subseteq incidentes' /\ (r > 0 => "mixed" \in incidentes')
    <3>1. incidentes' \in {incidentes, incidentes \cup {"mixed"}}
      BY <1>5, OpenCases
    <3>2. Cuenta(f, "R") > 0 => "mixed" \in incidentes'
      BY <1>5, OpenCases
    <3> QED  BY <1>1, <3>1, <3>2
  <2>6. "mixed" \notin incidentes' => w = 0 /\ r = 0
    BY <1>1, <1>2, <1>5, <2>5 DEF Held, Locked
  <2>7. Exclusive(f)'
    BY <2>1, <2>6 DEF Exclusive
  <2>8. Locked(f)'
    BY <1>1, <1>2, <2>1, <2>2, <2>3, <2>4, <2>5, <2>6 DEF Held, Locked
  <2>9. Owned(f)'
    BY <1>1, <1>2, <2>1, <2>2, <2>3, <2>4, <2>5, <2>6 DEF Held, Owned
  <2>10. Counted(f)'
    BY <1>1, <1>2, <2>1, <2>3, <2>5 DEF Held, Counted
  <2> QED  BY <2>7, <2>8, <2>9, <2>10 DEF Held
<1> QED  BY <1>3, <1>4, <1>5 DEF Modo

LEMMA ExitHeld ==
  ASSUME LockTyping, LockTyping', NEW p \in Process, Exit(p), NEW f \in File, Held(f)
  PROVE  Held(f)'
<1>1. PICK r \in Nat, w \in Nat, l \in Int :
        r = Cuenta(f, "R") /\ w = Cuenta(f, "W") /\ l = open_files[f].lectura
  <2>1. open_files[f].lectura \in Int /\ "R" \in Modo /\ "W" \in Modo
    BY DEF LockTyping, Libro, Modo
  <2> QED  BY <2>1, CountsNow
<1>2. PICK r1 \in Nat, w1 \in Nat : r1 = Cuenta(f, "R")' /\ w1 = Cuenta(f, "W")'
  BY CountsAfter DEF Modo
<1>3. r1 <= r /\ w1 <= w /\ ("abandoned" \notin incidentes' => r1 = r /\ w1 = w)
  BY <1>1, <1>2, ExitCounts DEF Modo
<1>4. open_files' = open_files /\ kernel' = kernel /\ incidentes \subseteq incidentes'
  BY DEF Exit, tableVars
<1>5. Exclusive(f)'
  BY <1>1, <1>2, <1>3, <1>4 DEF Held, Exclusive
<1>6. Locked(f)'
  BY <1>1, <1>2, <1>3, <1>4 DEF Held, Locked
<1>7. Owned(f)'
  BY <1>1, <1>2, <1>3, <1>4 DEF Held, Owned
<1>8. Counted(f)'
  BY <1>1, <1>2, <1>3, <1>4 DEF Held, Counted
<1> QED  BY <1>5, <1>6, <1>7, <1>8 DEF Held

LEMMA NobodyHoldsAfterRestart ==
  ASSUME LockTyping', Restart, NEW f \in File
  PROVE  Held(f)'
<1>1. /\ kernel' = "up" /\ incidentes' = {} /\ open_files'[f] = SinEntrada
      /\ \A p \in Process : archivos'[p] = <<>>
  BY DEF Restart
<1>2. \A m \in Modo : Cuenta(f, m)' = 0
  <2> TAKE m \in Modo
  <2>1. \A p \in Process : Len(archivos'[p]) = 0
    BY <1>1, EmptySeq
  <2>2. Vivos' \subseteq Process
    BY DEF Vivos
  <2>3. Aperturas(archivos', Vivos', f, m) = {}
    BY <2>1, <2>2 DEF Aperturas
  <2> QED  BY <2>3, CountsAfter, FS_EmptySet
<1>3. Cuenta(f, "R")' = 0 /\ Cuenta(f, "W")' = 0
  BY <1>2 DEF Modo
<1>4. open_files'[f].lectura = 0 /\ open_files'[f].escritura = FALSE /\ open_files'[f].cola = <<>>
  BY <1>1 DEF SinEntrada
<1> QED  BY <1>1, <1>3, <1>4 DEF Held, Exclusive, Locked, Owned, Counted

LEMMA OwnOpening ==
  ASSUME LockTyping, NEW p \in Process, estado[p] # "fin", NEW f \in File,
         NEW k \in 1..Len(archivos[p]), archivos[p][k].archivo = f
  PROVE  /\ archivos[p][k].modo \in Modo
         /\ Cuenta(f, archivos[p][k].modo) > 0
         /\ Abiertos(f) \subseteq {<<p, k>>} => Cuenta(f, archivos[p][k].modo) = 1
<1> DEFINE m == archivos[p][k].modo
           A == Aperturas(archivos, Vivos, f, m)
<1>1. m \in Modo /\ k \in Nat
  <2>1. archivos[p] \in Seq(Apertura)
    BY DEF LockTyping, Tablas
  <2>2. archivos[p][k] \in Apertura /\ k \in Nat
    BY <2>1, LenProperties
  <2> QED  BY <2>2 DEF Apertura
<1>2. <<p, k>> \in A
  BY <1>1 DEF Aperturas, Vivos
<1>3. /\ {a \in Abiertos(f) : ModoDe(a) = m} = A /\ IsFiniteSet(A)
      /\ Cuenta(f, m) = Cardinality(A) /\ Cuenta(f, m) \in Nat
  BY <1>1, Counts
<1> HIDE DEF A, m
<1>4. Cuenta(f, m) # 0
  BY <1>2, <1>3, FS_EmptySet
<1>5. ASSUME Abiertos(f) \subseteq {<<p, k>>} PROVE Cuenta(f, m) = 1
  <2>1. A = {<<p, k>>}
    BY <1>2, <1>3, <1>5
  <2> QED  BY <1>3, <2>1, FS_Singleton
<1> QED  BY <1>1, <1>3, <1>4, <1>5 DEF m

\* What is handed on: n readers, or one writer.
LEMMA CloseHeld ==
  ASSUME LockTyping, LockTyping', Queued, NEW p \in Process, NEW f \in File, NEW k \in Nat,
         NEW n \in Nat, kernel = "up", estado[p] = "listo",
         Devuelto(p, f, k, n), Entregado(p, f, k, n), Held(f)
  PROVE  Held(f)'
<1>1. PICK r \in Nat, w \in Nat, l \in Int :
        r = Cuenta(f, "R") /\ w = Cuenta(f, "W") /\ l = open_files[f].lectura
  <2>1. open_files[f].lectura \in Int /\ "R" \in Modo /\ "W" \in Modo
    BY DEF LockTyping, Libro, Modo
  <2> QED  BY <2>1, CountsNow
<1>2. PICK a \in Nat, b \in Nat :
        /\ a = (IF Escritor(f, n) THEN 0 ELSE n) /\ b = (IF Escritor(f, n) THEN 1 ELSE 0)
        /\ n > 0 <=> a + b > 0
        /\ b > 0 <=> Escritor(f, n)
        /\ b > 0 => a = 0 /\ b = 1
        /\ n = 0 => a = 0 /\ b = 0
  BY DEF Escritor
<1>3. /\ k \in 1..Len(archivos[p]) /\ archivos[p][k].archivo = f /\ n \in 0..Len(open_files[f].cola)
      /\ incidentes \subseteq incidentes' /\ open_files'[f] \in Libro
  BY DEF Devuelto
<1>4. /\ archivos[p][k].modo \in Modo /\ Cuenta(f, archivos[p][k].modo) > 0
      /\ Abiertos(f) \subseteq {<<p, k>>} => Cuenta(f, archivos[p][k].modo) = 1
  BY <1>3, OwnOpening
<1>5. kernel' \in {"up", "down"}
  BY DEF LockTyping
\* The entry afterwards.
<1>6. CASE archivos[p][k].modo = "W"
  <2>1. w > 0 /\ ("mixed" \notin incidentes' => w = 1 /\ r = 0 /\ l >= 0)
    BY <1>1, <1>3, <1>4, <1>6 DEF Held, Exclusive, Locked
  <2>2. /\ kernel' = "up" => Cuenta(f, "R")' = r + a /\ Cuenta(f, "W")' = w - 1 + b
        /\ kernel' = "down" => Cuenta(f, "R")' = r /\ Cuenta(f, "W")' = w - 1
    BY <1>1, <1>2, <1>6, CloseCounts DEF Modo
  <2>3. CASE open_files[f].cola = <<>>
    <3>1. n = 0 /\ a = 0 /\ b = 0
      BY <1>2, <1>3, <2>3, EmptySeq
    <3>2. open_files'[f].escritura = FALSE /\ open_files'[f].lectura = 0 /\ open_files'[f].cola = <<>>
      BY <2>3 DEF Devuelto, SinEntrada
    <3>3. Exclusive(f)'
      BY <1>5, <2>1, <2>2, <3>1 DEF Exclusive
    <3>4. Locked(f)'
      BY <2>1, <2>2, <3>1, <3>2 DEF Locked
    <3>5. Owned(f)'
      BY <2>1, <2>2, <3>1, <3>2 DEF Owned
    <3>6. Counted(f)'
      BY <2>1, <2>2, <3>1, <3>2 DEF Counted
    <3> QED  BY <3>3, <3>4, <3>5, <3>6 DEF Held
  <2>4. CASE open_files[f].cola # <<>>
    <3>1. n > 0 /\ a + b > 0
      BY <1>2, <1>6, <2>4 DEF Devuelto
    <3>2. open_files'[f].escritura <=> b > 0
      BY <1>2, <1>6, <2>4 DEF Devuelto
    <3>3. open_files'[f].lectura = l + a
      <4>1. open_files'[f].lectura = open_files[f].lectura - 0 + (IF Escritor(f, n) THEN 0 ELSE n)
        BY <1>6, <2>4 DEF Devuelto
      <4> QED  BY <1>1, <1>2, <4>1
    <3>4. Exclusive(f)'
      BY <1>2, <1>5, <2>1, <2>2, <3>1 DEF Exclusive
    <3>5. Locked(f)'
      BY <1>2, <2>1, <2>2, <3>1, <3>2, <3>3 DEF Locked
    <3>6. Owned(f)'
      <4>1. ASSUME kernel' = "up", "mixed" \notin incidentes', "abandoned" \notin incidentes'
            PROVE  l <= r
        BY <1>1, <1>3, <4>1 DEF Held, Owned
      <4> QED  BY <1>2, <2>1, <2>2, <3>1, <3>2, <3>3, <4>1 DEF Owned
    <3>7. Counted(f)'
      BY <1>1, <1>3, <2>1, <2>2, <3>3 DEF Held, Counted
    <3> QED  BY <3>4, <3>5, <3>6, <3>7 DEF Held
  <2> QED  BY <2>3, <2>4
<1>7. CASE archivos[p][k].modo = "R"
  <2>1. r > 0 /\ ("mixed" \notin incidentes' => w = 0 /\ ~open_files[f].escritura /\ l >= 0)
    BY <1>1, <1>3, <1>4, <1>7 DEF Held, Exclusive, Locked
  <2>2. /\ kernel' = "up" => Cuenta(f, "R")' = r - 1 + a /\ Cuenta(f, "W")' = w + b
        /\ kernel' = "down" => Cuenta(f, "R")' = r - 1 /\ Cuenta(f, "W")' = w
    BY <1>1, <1>2, <1>7, CloseCounts DEF Modo
  <2>3. CASE open_files[f].cola = <<>>
    <3>1. n = 0 /\ a = 0 /\ b = 0
      BY <1>2, <1>3, <2>3, EmptySeq
    <3>2. open_files'[f].escritura = FALSE /\ open_files'[f].lectura = 0 /\ open_files'[f].cola = <<>>
      BY <2>3 DEF Devuelto, SinEntrada
    <3>3. "dropped" \notin incidentes' => r = 1
      BY <1>1, <1>4, <1>7, <2>3 DEF Devuelto
    <3>4. Exclusive(f)'
      BY <1>5, <2>1, <2>2, <3>1 DEF Exclusive
    <3>5. Locked(f)'
      BY <2>1, <2>2, <3>1, <3>2 DEF Locked
    <3>6. Owned(f)'
      BY <2>1, <2>2, <3>1, <3>2 DEF Owned
    <3>7. Counted(f)'
      BY <2>1, <2>2, <3>1, <3>2, <3>3 DEF Counted
    <3> QED  BY <3>4, <3>5, <3>6, <3>7 DEF Held
  <2>4. CASE open_files[f].cola # <<>>
    <3>1. n > 0 <=> l <= 1
      BY <1>1, <1>7, <2>4 DEF Devuelto
    <3>2. "mixed" \notin incidentes' => (open_files'[f].escritura <=> b > 0)
      BY <1>2, <1>7, <2>1, <2>4 DEF Devuelto
    <3>3. open_files'[f].lectura = l - 1 + a
      <4>1. open_files'[f].lectura = open_files[f].lectura - 1 + (IF Escritor(f, n) THEN 0 ELSE n)
        BY <1>7, <2>4 DEF Devuelto
      <4> QED  BY <1>1, <1>2, <4>1
    <3>4. "mixed" \notin incidentes' => l >= r
      BY <1>1, <1>3, <2>4 DEF Held, Locked
    <3>5. Exclusive(f)'
      BY <1>2, <1>5, <2>1, <2>2, <3>1, <3>4 DEF Exclusive
    <3>6. Locked(f)'
      BY <1>2, <2>1, <2>2, <3>1, <3>2, <3>3, <3>4 DEF Locked
    <3>7. Owned(f)'
      <4>1. ASSUME kernel' = "up", "mixed" \notin incidentes', "abandoned" \notin incidentes'
            PROVE  l <= r
        BY <1>1, <1>3, <4>1 DEF Held, Owned
      <4> QED  BY <1>2, <2>1, <2>2, <3>1, <3>2, <3>3, <3>4, <4>1 DEF Owned
    <3>8. Counted(f)'
      BY <1>1, <1>3, <2>2, <3>3 DEF Held, Counted
    <3> QED  BY <3>5, <3>6, <3>7, <3>8 DEF Held
  <2> QED  BY <2>3, <2>4
<1> QED  BY <1>4, <1>6, <1>7 DEF Modo

LEMMA HeldKeeps ==
  ASSUME LockTyping, LockTyping', Absent, Queued, \A f \in File : Held(f), [Next]_vars
  PROVE  (\A f \in File : Held(f))'
<1>0. "R" \in Modo /\ "W" \in Modo
  BY DEF Modo
<1> SUFFICES ASSUME NEW g \in File PROVE Held(g)'
  OBVIOUS
<1>1. CASE Restart
  BY <1>1, NobodyHoldsAfterRestart
<1>2. CASE LockStep
  <2>1. ASSUME NEW p \in Process, NEW f \in File, NEW modo \in Modo, FOpen(p, f, modo)
        PROVE  Held(g)'
    <3>1. CASE g = f
      BY <2>1, <3>1, OpenHeld
    <3>2. CASE g # f
      <4>1. Cuenta(g, "R")' = Cuenta(g, "R") /\ Cuenta(g, "W")' = Cuenta(g, "W")
        BY <1>0, <2>1, <3>2, OpenCounts
      <4>2. open_files' = [open_files EXCEPT ![f] = open_files'[f]] /\ kernel' = kernel
        BY <2>1, OpenCases
      <4>3. open_files'[g] = open_files[g]
        BY <3>2, <4>2 DEF LockTyping
      <4>4. incidentes \subseteq incidentes'
        BY <2>1 DEF FOpen
      <4> QED  BY <4>1, <4>2, <4>3, <4>4, SameHolders
    <3> QED  BY <3>1, <3>2
  <2>2. ASSUME NEW p \in Process, NEW f \in File, Cierre(p, f)
        PROVE  Held(g)'
    <3>1. kernel = "up" /\ estado[p] = "listo"
      BY <2>2, CloseCases
    <3>2. PICK k \in Nat, n \in Nat : Devuelto(p, f, k, n) /\ Entregado(p, f, k, n)
      BY <2>2, CloseCases
    <3>3. CASE g = f
      BY <3>1, <3>2, <3>3, CloseHeld
    <3>4. CASE g # f
      <4>1. \A m \in Modo : Cuenta(g, m)' = Cuenta(g, m) - 0 + 0 /\ Cuenta(g, m) \in Nat
        BY <3>1, <3>2, <3>4, CloseCounts, CountsNow
      <4>2. Cuenta(g, "R")' = Cuenta(g, "R") /\ Cuenta(g, "W")' = Cuenta(g, "W")
        BY <1>0, <4>1
      <4>3. open_files'[g] = open_files[g]
        BY <3>2, <3>4, CloseQueues
      <4>4. incidentes \subseteq incidentes'
        BY <3>2 DEF Devuelto
      <4> QED  BY <3>1, <4>2, <4>3, <4>4, SameHolders
    <3> QED  BY <3>3, <3>4
  <2>3. ASSUME NEW p \in Process, NEW f \in File, NEW n \in Nat, FSeek(p, f, n)
        PROVE  Held(g)'
    <3>1. Cuenta(g, "R")' = Cuenta(g, "R") /\ Cuenta(g, "W")' = Cuenta(g, "W")
      BY <1>0, <2>3, SeekCounts
    <3>2. UNCHANGED <<open_files, kernel, incidentes>>
      BY <2>3 DEF FSeek
    <3> QED  BY <3>1, <3>2, SameHolders
  <2>4. CASE Callado
    <3>1. UNCHANGED <<archivos, estado, kernel, incidentes>>
      BY <2>4 DEF Callado
    <3>2. Vivos' = Vivos
      BY <3>1 DEF Vivos
    <3>3. Cuenta(g, "R")' = Cuenta(g, "R") /\ Cuenta(g, "W")' = Cuenta(g, "W")
      BY <3>1, <3>2, SameCounts
    <3>4. /\ open_files'[g].escritura = open_files[g].escritura
          /\ open_files'[g].lectura = open_files[g].lectura
          /\ open_files'[g].cola = open_files[g].cola
      <4>1. CASE open_files' = open_files
        BY <4>1
      <4>2. ASSUME NEW f \in File, open_files' = [open_files EXCEPT ![f] = GetFile(f)]
            PROVE  /\ open_files'[g].escritura = open_files[g].escritura
                   /\ open_files'[g].lectura = open_files[g].lectura
                   /\ open_files'[g].cola = open_files[g].cola
        <5>1. CASE g = f
          <6>1. open_files'[g] = GetFile(g)
            BY <4>2, <5>1 DEF LockTyping
          <6> QED  BY <6>1, FileLock
        <5>2. CASE g # f
          BY <4>2, <5>2 DEF LockTyping
        <5> QED  BY <5>1, <5>2
      <4> QED  BY <2>4, <4>1, <4>2 DEF Callado
    <3> QED  BY <3>1, <3>3, <3>4, SameHolders
  <2>5. ASSUME NEW p \in Process, Exit(p)
        PROVE  Held(g)'
    BY <2>5, ExitHeld
  <2> QED  BY <1>2, <2>1, <2>2, <2>3, <2>4, <2>5 DEF LockStep
<1> QED  BY <1>1, <1>2, Steps

------------------------------------------------------------------------------
(* What holds of the locks, always.                                          *)

LockInv == LockTyping /\ Absent /\ Queued /\ KernelStays /\ \A f \in File : Held(f)

LEMMA LocksAtFirst ==
  ASSUME Init
  PROVE  LockInv
<1>0. LocksInit /\ carga \in Cargas /\ caidas = 0
  BY DEF Init
<1>1. LockTyping
  <2>1. \A p \in Process : archivos[p] = <<>> /\ Len(archivos[p]) = 0
    BY <1>0, EmptySeq DEF LocksInit
  <2>2. archivos \in Tablas /\ \A p \in Process : Len(archivos[p]) <= MaxOpen
    <3>1. <<>> \in Seq(Apertura) /\ archivos = [p \in Process |-> <<>>]
      BY <1>0, EmptySeq DEF LocksInit
    <3> QED  BY <2>1, <3>1, FileLocksAssumption DEF Tablas
  <2>3. open_files \in [File -> Libro]
    <3>1. open_files = [f \in File |-> SinEntrada]
      BY <1>0 DEF LocksInit
    <3> HIDE DEF Libro
    <3> QED  BY <3>1, EmptyLock
  <2>4. caidas \in 0..MaxCaidas
    BY <1>0, FilesAssumption
  <2> QED  BY <1>0, <2>2, <2>3, <2>4 DEF LocksInit, LockTyping
<1>2. Absent
  BY <1>0 DEF LocksInit, Absent
<1>3. Queued
  <2>1. /\ \A f \in File : open_files[f].cola = <<>>
        /\ \A p \in Process : pending_file[p] = SinPendiente /\ estado[p] = "listo"
    BY <1>0 DEF LocksInit, SinEntrada
  <2> QED  BY <2>1, NobodyWaitsAtFirst
<1>4. KernelStays
  BY <1>0 DEF LocksInit, KernelStays
<1>5. ASSUME NEW f \in File PROVE Held(f)
  <2>1. \A m \in Modo : Cuenta(f, m) = 0
    <3> TAKE m \in Modo
    <3>1. \A p \in Process : Len(archivos[p]) = 0
      BY <1>0, EmptySeq DEF LocksInit
    <3>2. Vivos \subseteq Process
      BY DEF Vivos
    <3>3. Aperturas(archivos, Vivos, f, m) = {}
      BY <3>1, <3>2 DEF Aperturas
    <3> QED  BY <1>1, <3>3, CountsNow, FS_EmptySet
  <2>2. Cuenta(f, "R") = 0 /\ Cuenta(f, "W") = 0
    BY <2>1 DEF Modo
  <2>3. open_files[f].lectura = 0 /\ open_files[f].escritura = FALSE /\ open_files[f].cola = <<>>
    BY <1>0 DEF LocksInit, SinEntrada
  <2> QED  BY <2>2, <2>3 DEF Held, Exclusive, Locked, Owned, Counted
<1> QED  BY <1>1, <1>2, <1>3, <1>4, <1>5 DEF LockInv

LEMMA LocksKeep ==
  ASSUME LockInv, [Next]_vars
  PROVE  LockInv'
<1>1. LockTyping' /\ Absent'
  BY TypesKeep DEF LockInv
<1>2. Queued'
  BY QueuedKeeps DEF LockInv
<1>3. KernelStays'
  BY KernelKeeps DEF LockInv
<1>4. (\A f \in File : Held(f))'
  BY <1>1, HeldKeeps DEF LockInv
<1> QED  BY <1>1, <1>2, <1>3, <1>4 DEF LockInv

LEMMA LocksAlways == Spec => []LockInv
<1>1. Init => LockInv
  BY LocksAtFirst
<1>2. LockInv /\ [Next]_vars => LockInv'
  BY LocksKeep
<1> QED  BY <1>1, <1>2, PTL DEF Spec

\* The planner is killed by a segmentation fault only when it hands a file to
\* a process that ended while it waited for it.
THEOREM KernelIsKilledByLostWaiters == Spec => []KernelStays
<1>1. LockInv => KernelStays
  BY DEF LockInv
<1> QED  BY <1>1, LocksAlways, PTL

\* An opening for writing excludes every other, unless a file was opened for
\* writing beside its readers.
THEOREM WritersAreExclusive == Spec => []WriterExclusive
<1>1. ASSUME LockInv PROVE WriterExclusive
  <2>0. LockTyping /\ \A f \in File : Held(f)
    BY <1>1 DEF LockInv
  <2> SUFFICES ASSUME SinIncidente({"mixed"}), NEW f \in File, NEW a \in Abiertos(f), NEW b \in Abiertos(f),
                      ModoDe(a) = "W"
               PROVE  a = b
    BY DEF WriterExclusive
  <2> DEFINE A(m) == {c \in Abiertos(f) : ModoDe(c) = m}
  <2>1. \A m \in Modo : A(m) = Aperturas(archivos, Vivos, f, m) /\ IsFiniteSet(A(m)) /\ Cuenta(f, m) = Cardinality(A(m))
    BY <2>0, Counts
  <2>2. "mixed" \notin incidentes
    BY DEF SinIncidente
  <2>3. a \in A("W") /\ "W" \in Modo /\ "R" \in Modo
    BY DEF Modo
  <2>4. Cuenta(f, "W") # 0 /\ Cuenta(f, "W") \in Nat
    <3>1. A("W") # {}
      BY <2>3
    <3> HIDE DEF A
    <3> QED  BY <2>1, <2>3, <3>1, FS_EmptySet, FS_CardinalityType
  <2>5. Cuenta(f, "W") = 1 /\ Cuenta(f, "R") = 0
    BY <2>0, <2>2, <2>4 DEF Held, Exclusive
  <2>6. A("R") = {}
    BY <2>1, <2>3, <2>5, FS_EmptySet
  <2>7. b \in A("W")
    <3>1. PICK q \in Vivos : b \in {q} \X Posiciones(q, f)
      BY DEF Abiertos
    <3>2. q \in Process /\ b[1] = q /\ b[2] \in DOMAIN archivos[q]
      BY <3>1 DEF Vivos, Posiciones
    <3>3. archivos[q][b[2]] \in Apertura
      BY <2>0, <3>2, LenProperties DEF LockTyping, Tablas
    <3>4. ModoDe(b) \in Modo
      BY <3>2, <3>3 DEF ModoDe, Apertura
    <3> QED  BY <2>6, <3>4 DEF Modo
  <2>8. \E x : A("W") = {x}
    <3> HIDE DEF A
    <3> QED  BY <2>1, <2>3, <2>5, FS_Singleton
  <2> QED  BY <2>3, <2>7, <2>8
<1> QED  BY <1>1, LocksAlways, PTL

\* The read count and the write lock of a file are those of the processes that
\* have it open, while no lock was broken, dropped or left behind.
THEOREM LocksAreThoseHeld == Spec => []LocksMatch
<1>1. ASSUME LockInv PROVE LocksMatch
  <2> SUFFICES ASSUME SinIncidente({"mixed", "dropped", "abandoned"}), kernel = "up", NEW f \in File
               PROVE  /\ open_files[f].lectura = Cuenta(f, "R")
                      /\ open_files[f].escritura = (Cuenta(f, "W") = 1)
    BY DEF LocksMatch
  <2>1. LockTyping /\ Held(f)
    BY <1>1 DEF LockInv
  <2>2. "mixed" \notin incidentes /\ "dropped" \notin incidentes /\ "abandoned" \notin incidentes
    BY DEF SinIncidente
  <2>3. open_files[f].lectura = Cuenta(f, "R")
    BY <2>1, <2>2 DEF Held, Counted
  <2>4. open_files[f].escritura \in BOOLEAN
    BY <2>1 DEF LockTyping, Libro
  <2>5. open_files[f].escritura <=> Cuenta(f, "W") = 1
    BY <2>1, <2>2 DEF Held, Locked, Owned
  <2> QED  BY <2>3, <2>4, <2>5
<1> QED  BY <1>1, LocksAlways, PTL

\* A process blocked on a file is in its queue, once, and somebody alive has the
\* file open: its close will hand the file on.
THEOREM WaitersAreNotLost == Spec => []NoLostWaiter
<1>1. ASSUME LockInv PROVE NoLostWaiter
  <2> SUFFICES ASSUME SinIncidente({"mixed", "abandoned"}), kernel = "up",
                      NEW p \in Process, estado[p] = "block"
               PROVE  /\ Cardinality(Espera(p, pending_file[p][1])) = 1
                      /\ Abiertos(pending_file[p][1]) # {}
    BY DEF NoLostWaiter
  <2>0. LockTyping /\ Queued /\ \A f \in File : Held(f)
    BY <1>1 DEF LockInv
  <2>1. /\ pending_file[p] # SinPendiente
        /\ \E i \in 1..Len(open_files[pending_file[p][1]].cola) :
             open_files[pending_file[p][1]].cola[i].pid = p
    BY <2>0 DEF Queued
  <2>2. PICK f \in File : f = pending_file[p][1]
    BY <2>0, <2>1, Requests
  <2>3. PICK i \in 1..Len(open_files[f].cola) : open_files[f].cola[i].pid = p
    BY <2>1, <2>2
  <2>4. Espera(p, f) = {i}
    <3>1. DOMAIN open_files[f].cola = 1..Len(open_files[f].cola)
      BY <2>0, QueueTypes
    <3>2. \A j \in 1..Len(open_files[f].cola) : open_files[f].cola[j].pid = p => j = i
      BY <2>0, <2>3 DEF Queued
    <3> QED  BY <2>3, <3>1, <3>2 DEF Espera
  <2>5. Cardinality(Espera(p, f)) = 1
    BY <2>4, FS_Singleton
  <2>6. open_files[f].cola # <<>>
    BY <2>3, EmptySeq
  <2>7. "mixed" \notin incidentes /\ "abandoned" \notin incidentes
    BY DEF SinIncidente
  <2>8. PICK r \in Nat, w \in Nat : r = Cuenta(f, "R") /\ w = Cuenta(f, "W")
    BY <2>0, CountsNow DEF Modo
  <2>9. PICK l \in Int : l = open_files[f].lectura
    BY <2>0 DEF LockTyping, Libro
  <2>10. w = 1 \/ (l > 0 /\ l <= r)
    BY <2>0, <2>6, <2>7, <2>8, <2>9 DEF Held, Owned
  <2>11. r + w > 0
    BY <2>10
  <2>12. Abiertos(f) # {}
    BY <2>0, <2>8, <2>11, OpensNothing
  <2> QED  BY <2>2, <2>5, <2>12
<1> QED  BY <1>1, LocksAlways, PTL

==============================================================================
