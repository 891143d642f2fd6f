------------------------------- MODULE DiskProofs -------------------------------
(* The FAT, the control blocks and the blocks of the files, proved for any   *)
(* files, workloads and sizes of the disk, restarts included.                *)
EXTENDS FilesProofs

------------------------------------------------------------------------------
(* What the filesystem has on disk.                                          *)

\* A truncation that is under way.
Truncado == [paso : {"fat", "igual", "fcb"}, archivo : File, tamanio : Nat, inicial : Entradas]

\* The types of FatTypeOK, those of the truncation included.
DiskTyping ==
  /\ fat \in [Entradas -> Entradas \cup {Fin}]
  /\ fcb \in [File -> [tamanio : Nat, inicial : Entradas] \cup {SinFcb}]
  /\ bloques \in [Entradas -> Data]
  /\ truncando = Ninguna \/ truncando \in Truncado
  /\ swapTocado \in BOOLEAN
  /\ avisos \subseteq {"full", "noroom", "torn", "zeroed", "pastend"}

\* The entries are numbers, and none is the mark of the end.
LEMMA Entries == 0 \in Entradas /\ Entradas \subseteq Nat /\ BlockCount \in Nat
  /\ \A e \in Entradas : e <= BlockCount - 1 /\ e # Fin
BY FatAssumption DEF Entradas, Fin

\* A set of entries has a least and a greatest one.
LEMMA Extremes ==
  ASSUME NEW S \in SUBSET Entradas, S # {}
  PROVE  /\ Min(S) \in S /\ Max(S) \in S
         /\ \A y \in S : Min(S) <= y /\ y <= Max(S)
<1>1. S \subseteq Nat /\ S \subseteq 0..(BlockCount - 1) /\ BlockCount - 1 \in Nat
  BY FatAssumption DEF Entradas
<1>2. Min(S) \in S /\ \A y \in S : Min(S) <= y
  BY <1>1, LeastNumber
<1>3. \E x \in S : \A j \in S : j <= x
  BY <1>1, GreatestNumber
<1>4. PICK x \in S : \A j \in S : x >= j
  BY <1>1, <1>3
<1>5. Max(S) \in S /\ \A j \in S : Max(S) >= j
  BY <1>4 DEF Max
<1> QED  BY <1>1, <1>2, <1>5

\* New entries are chained one after the other.
LEMMA NewEntries ==
  ASSUME NEW S \in SUBSET Entradas, S # {}
  PROVE  /\ Min(S) \in Entradas
         /\ \A e \in S : e # Max(S) => Min({c \in S : c > e}) \in Entradas
<1>1. Min(S) \in S /\ Max(S) \in S /\ \A y \in S : y <= Max(S)
  BY Extremes
<1>2. ASSUME NEW e \in S, e # Max(S)
      PROVE  Min({c \in S : c > e}) \in Entradas
  <2>1. Max(S) \in {c \in S : c > e}
    <3>1. PICK m \in S : m = Max(S)
      BY <1>1
    <3>2. m \in Nat /\ e \in Nat /\ e <= m /\ e # m
      BY <1>1, <1>2, <3>1, Entries
    <3>3. m > e
      BY <3>2
    <3> QED  BY <3>1, <3>3
  <2>2. {c \in S : c > e} # {} /\ {c \in S : c > e} \in SUBSET Entradas
    BY <2>1
  <2> QED  BY <2>2, Extremes
<1> QED  BY <1>1, <1>2

\* What truncar_archivo writes in the FAT are entries or the mark.
LEMMA TruncateTypes ==
  ASSUME DiskTyping, TruncarFat
  PROVE  DiskTyping'
<1> DEFINE f == truncando.archivo
           cant == CantBloques(truncando.tamanio) - Asignados(f)
           previos == CadenaDe(f)
<1>1. truncando \in Truncado
  BY DEF TruncarFat, DiskTyping, Ninguna
<1>2. UNCHANGED <<fcb, bloques, swapTocado>>
  BY DEF TruncarFat
<1>3. \/ truncando' = [truncando EXCEPT !.paso = "igual"] /\ UNCHANGED <<fat, avisos>>
      \/ Liberar(f, -cant)
      \/ Asignar(f, cant) \/ AsignarSinLugar(f)
  BY DEF TruncarFat
<1>4. ASSUME NEW i \in Entradas,
             truncando' = [truncando EXCEPT !.paso = "fcb", !.inicial = i]
      PROVE  truncando' \in Truncado
  BY <1>1, <1>4 DEF Truncado
<1>5. truncando.inicial \in Entradas
  BY <1>1 DEF Truncado
<1> HIDE DEF cant
<1>6. CASE truncando' = [truncando EXCEPT !.paso = "igual"] /\ UNCHANGED <<fat, avisos>>
  <2>1. truncando' \in Truncado
    BY <1>1, <1>6 DEF Truncado
  <2> QED  BY <1>2, <1>6, <2>1 DEF DiskTyping
<1>7. CASE Liberar(f, -cant)
  <2> DEFINE quedan == SubSeq(previos, 1, Len(previos) - (-cant))
  <2>1. /\ fat' = [e \in Entradas |->
             IF quedan # <<>> /\ e = Last(quedan) THEN Fin
             ELSE IF \E i \in Len(quedan) + 1 .. Len(previos) : previos[i] = e THEN 0 ELSE fat[e]]
        /\ truncando' = [truncando EXCEPT !.paso = "fcb", !.inicial = IF quedan = <<>> THEN 0 ELSE @]
        /\ UNCHANGED avisos
    BY <1>7 DEF Liberar
  <2> HIDE DEF quedan
  <2>2. fat' \in [Entradas -> Entradas \cup {Fin}]
    BY <2>1, Entries DEF DiskTyping
  <2>3. truncando' \in Truncado
    <3>1. \E i \in Entradas : truncando' = [truncando EXCEPT !.paso = "fcb", !.inicial = i]
      BY <1>5, <2>1, Entries
    <3> QED  BY <1>4, <3>1
  <2> QED  BY <1>2, <2>1, <2>2, <2>3 DEF DiskTyping
<1>8. CASE Asignar(f, cant)
  <2> DEFINE nuevos == Nuevos(cant)
  <2>1. /\ nuevos # {}
        /\ fat' = [e \in Entradas |->
             IF previos # <<>> /\ e = Last(previos) THEN Min(nuevos)
             ELSE IF e \notin nuevos THEN fat[e]
             ELSE IF e = Max(nuevos) THEN Fin ELSE Min({c \in nuevos : c > e})]
        /\ truncando' = [truncando EXCEPT !.paso = "fcb", !.inicial = IF previos = <<>> THEN Min(nuevos) ELSE @]
        /\ avisos' = IF Cardinality(nuevos) < cant THEN avisos \cup {"full"} ELSE avisos
    BY <1>8 DEF Asignar
  <2>2. nuevos \in SUBSET Entradas
    BY DEF Nuevos, Libres
  <2> HIDE DEF nuevos
  <2>3. /\ Min(nuevos) \in Entradas
        /\ \A e \in nuevos : e # Max(nuevos) => Min({c \in nuevos : c > e}) \in Entradas
    BY <2>1, <2>2, NewEntries
  <2>4. fat' \in [Entradas -> Entradas \cup {Fin}]
    BY <2>1, <2>2, <2>3 DEF DiskTyping
  <2>5. truncando' \in Truncado
    <3>1. \E i \in Entradas : truncando' = [truncando EXCEPT !.paso = "fcb", !.inicial = i]
      BY <1>5, <2>1, <2>3
    <3> QED  BY <1>4, <3>1
  <2>6. avisos' \subseteq {"full", "noroom", "torn", "zeroed", "pastend"}
    BY <2>1 DEF DiskTyping
  <2> QED  BY <1>2, <2>4, <2>5, <2>6 DEF DiskTyping
<1>9. CASE AsignarSinLugar(f)
  <2>1. PICK e \in Entradas, b \in Entradas :
          LET sucia == [fat EXCEPT ![e] = Fin]
          IN /\ fat' = IF previos = <<>> THEN sucia ELSE [sucia EXCEPT ![Last(previos)] = b]
             /\ truncando' = [truncando EXCEPT !.paso = "fcb", !.inicial = IF previos = <<>> THEN b ELSE @]
    BY <1>9 DEF AsignarSinLugar
  <2>2. fat' \in [Entradas -> Entradas \cup {Fin}]
    <3>1. [fat EXCEPT ![e] = Fin] \in [Entradas -> Entradas \cup {Fin}]
      BY DEF DiskTyping
    <3> QED  BY <2>1, <3>1
  <2>3. truncando' \in Truncado
    <3>1. \E i \in Entradas : truncando' = [truncando EXCEPT !.paso = "fcb", !.inicial = i]
      BY <1>5, <2>1
    <3> QED  BY <1>4, <3>1
  <2>4. avisos' \subseteq {"full", "noroom", "torn", "zeroed", "pastend"}
    BY <1>9 DEF AsignarSinLugar, DiskTyping
  <2> QED  BY <1>2, <2>2, <2>3, <2>4 DEF DiskTyping
<1> QED  BY <1>3, <1>6, <1>7, <1>8, <1>9

\* Every step keeps the types of what is on disk.
LEMMA DiskKeeps ==
  ASSUME LockTyping, DiskTyping, [Next]_vars
  PROVE  DiskTyping'
<1>1. ASSUME UNCHANGED fatVars PROVE DiskTyping'
  BY <1>1 DEF fatVars, DiskTyping
<1>2. ASSUME NEW f \in File, AbrirOCrear(f)
      PROVE  DiskTyping'
  <2>1. CASE Crear(f)
    <3>1. [tamanio |-> 0, inicial |-> 0] \in [tamanio : Nat, inicial : Entradas]
      BY Entries
    <3> QED  BY <2>1, <3>1 DEF Crear, DiskTyping
  <2>2. CASE UNCHANGED fatVars
    BY <1>1, <2>2
  <2> QED  BY <1>2, <2>1, <2>2 DEF AbrirOCrear
<1>3. ASSUME NEW p \in carga.procesos, NEW f \in carga.archivos, Call(p, f)
      PROVE  DiskTyping'
  <2>1. f \in File /\ carga.tamanios \subseteq Nat
    BY FilesAssumption DEF LockTyping
  <2>2. CASE \E modo \in carga.modos : Open(p, f, modo)
    BY <1>2, <2>1, <2>2 DEF Open
  <2>3. CASE Close(p, f)
    BY <1>2, <2>1, <2>3 DEF Close
  <2>4. CASE Read(p, f) \/ Write(p, f) \/ \E n \in carga.punteros : Seek(p, f, n)
    BY <1>1, <2>4 DEF Read, Write, Seek
  <2>5. ASSUME NEW n \in carga.tamanios, Truncate(p, f, n)
        PROVE  DiskTyping'
    <3>1. /\ truncando' = [paso |-> "fat", archivo |-> f, tamanio |-> n, inicial |-> fcb[f].inicial]
          /\ UNCHANGED <<fat, fcb, bloques, swapTocado, avisos>>
      BY <2>5 DEF Truncate, EmpezarTruncar
    <3>2. fcb[f].inicial \in Entradas
      BY <2>1, Entries DEF DiskTyping, SinFcb
    <3>3. truncando' \in Truncado
      BY <2>1, <3>1, <3>2 DEF Truncado
    <3> QED  BY <3>1, <3>3 DEF DiskTyping
  <2> QED  BY <1>3, <2>2, <2>3, <2>4, <2>5 DEF Call
<1>4. CASE ServeTruncate
  <2>1. CASE TruncarFat
    BY <2>1, TruncateTypes
  <2>2. CASE TruncarFcb
    <3>1. truncando \in Truncado
      BY <2>2 DEF TruncarFcb, DiskTyping, Ninguna
    <3>2. [tamanio |-> truncando.tamanio, inicial |-> truncando.inicial] \in [tamanio : Nat, inicial : Entradas]
      BY <3>1 DEF Truncado
    <3> QED  BY <2>2, <3>2 DEF TruncarFcb, DiskTyping
  <2> QED  BY <1>4, <2>1, <2>2 DEF ServeTruncate
<1>5. CASE ServeRead
  BY <1>1, <1>5 DEF ServeRead, Leer
<1>6. CASE ServeWrite
  <2>1. PICK d \in Data : Escribir(llamada.archivo, llamada.arg, d)
    BY <1>6 DEF ServeWrite
  <2>2. \/ swapTocado' = TRUE /\ UNCHANGED bloques
        \/ \E b : bloques' = [bloques EXCEPT ![b] = d] /\ UNCHANGED swapTocado
    BY <2>1 DEF Escribir
  <2>3. bloques' \in [Entradas -> Data] /\ swapTocado' \in BOOLEAN
    BY <2>2 DEF DiskTyping
  <2>4. /\ avisos' \subseteq {"full", "noroom", "torn", "zeroed", "pastend"}
        /\ UNCHANGED <<fat, fcb, truncando>>
    BY <2>1 DEF Escribir, DiskTyping
  <2> QED  BY <2>3, <2>4 DEF DiskTyping
<1>7. CASE Restart
  BY <1>7 DEF Restart, Reinicio, DiskTyping
<1>8. CASE \E p \in carga.procesos : End(p)
  BY <1>1, <1>8 DEF End
<1>9. CASE UNCHANGED vars
  BY <1>1, <1>9 DEF vars
<1> QED  BY <1>3, <1>4, <1>5, <1>6, <1>7, <1>8, <1>9 DEF Next, Step

\* The FAT, the FCBs and the blocks as they are created.
LEMMA DiskAtFirst ==
  ASSUME Init
  PROVE  DiskTyping
<1>1. FatInit
  BY DEF Init
<1>2. 0 \in Entradas /\ 0 \in Data
  BY Entries, FatAssumption
<1> QED  BY <1>1, <1>2 DEF FatInit, DiskTyping

\* The types of the kernel's tables, of its requests and of what is on disk.
THEOREM FilesTypeCorrect == Spec => []TypeOK
<1>1. Init => LockInv /\ DiskTyping
  BY LocksAtFirst, DiskAtFirst
<1>2. LockInv /\ DiskTyping /\ [Next]_vars => (LockInv /\ DiskTyping)'
  <2> SUFFICES ASSUME LockInv, DiskTyping, [Next]_vars PROVE (LockInv /\ DiskTyping)'
    OBVIOUS
  <2>1. LockInv'
    BY LocksKeep
  <2>2. DiskTyping'
    BY DiskKeeps DEF LockInv
  <2> QED  BY <2>1, <2>2
<1>3. ASSUME LockInv, DiskTyping PROVE TypeOK
  <2>0. LockTyping
    BY <1>3 DEF LockInv
  <2>1. ASSUME NEW f \in File
        PROVE  /\ open_files[f].escritura \in BOOLEAN /\ open_files[f].lectura \in Int
               /\ \A i \in DOMAIN open_files[f].cola : open_files[f].cola[i] \in [pid : Process, modo : Modo]
    <3>1. open_files[f] \in Libro
      BY <2>0 DEF LockTyping
    <3> QED  BY <2>0, <3>1, QueueTypes DEF Libro, Pedido
  <2>2. ASSUME NEW p \in Process
        PROVE  /\ Len(archivos[p]) <= MaxOpen
               /\ \A i \in DOMAIN archivos[p] :
                    archivos[p][i] \in [archivo : File, modo : Modo, puntero : Nat]
               /\ pending_file[p] = SinPendiente \/ pending_file[p] \in File \X Modo
    <3>1. \A i \in DOMAIN archivos[p] : archivos[p][i] \in Apertura
      BY <2>0, LenProperties DEF LockTyping, Tablas
    <3> QED  BY <2>0, <3>1 DEF LockTyping, Apertura
  <2>3. LocksTypeOK
    BY <2>0, <2>1, <2>2 DEF LockTyping, LocksTypeOK
  <2>4. truncando.paso \in {"none", "fat", "igual", "fcb"}
    BY <1>3 DEF DiskTyping, Truncado, Ninguna
  <2>5. FatTypeOK
    BY <1>3, <2>4 DEF DiskTyping, FatTypeOK
  <2> QED  BY <2>0, <2>3, <2>5 DEF TypeOK, LockTyping
<1> QED  BY <1>1, <1>2, <1>3, PTL DEF Spec

------------------------------------------------------------------------------
(* The walk along a table, and the chain it gives.                           *)

\* What an entry may hold, and a FAT.
Valores == Entradas \cup {Fin}
Tabla == [Entradas -> Valores]

\* The recursive function of Cadena, and the chain it gives.
Camino(t, ini) ==
  CHOOSE paso : paso = [k \in 0 .. BlockCount |->
        IF k = 0 THEN ini
        ELSE IF paso[k - 1] \in {0, Fin} THEN paso[k - 1] ELSE t[paso[k - 1]]]
Recorrido(w) ==
  [i \in 1 .. Cardinality({k \in 0 .. BlockCount - 1 : w[k] \notin {0, Fin}}) |-> w[i - 1]]

\* A function may be applied any number of times: the n-th value depends on
\* the one before it.
Iterada(r, V, G, a, n) ==
  r \in [0..n -> V] /\ r[0] = a /\ \A k \in 1..n : r[k] = G[r[k - 1]]

LEMMA Iterates ==
  ASSUME NEW V, NEW G \in [V -> V], NEW a \in V, NEW n \in Nat
  PROVE  \E r : Iterada(r, V, G, a, n)
<1> DEFINE R(m, r) == r \in [0..m -> V] /\ r[0] = a /\ \A k \in 1..m : r[k] = G[r[k - 1]]
           Bad == {m \in Nat : ~ \E r : R(m, r)}
<1>1. SUFFICES ASSUME Bad # {} PROVE FALSE
  BY <1>1 DEF Iterada
<1>2. Min(Bad) \in Bad /\ \A y \in Bad : Min(Bad) <= y
  BY <1>1, LeastNumber
<1>3. PICK m \in Nat : m \in Bad /\ \A y \in Bad : m <= y
  BY <1>2
<1>4. CASE m = 0
  <2>1. R(0, [k \in 0..0 |-> a])
    OBVIOUS
  <2> QED  BY <1>3, <1>4, <2>1
<1>5. CASE m # 0
  <2>1. m - 1 \in Nat /\ ~(m <= m - 1)
    BY <1>5
  <2>2. PICK r : R(m - 1, r)
    BY <1>3, <2>1
  <2> DEFINE s == [k \in 0..m |-> IF k < m THEN r[k] ELSE G[r[m - 1]]]
  <2>3. s \in [0..m -> V] /\ s[0] = a
    BY <1>5, <2>1, <2>2
  <2>4. ASSUME NEW k \in 1..m PROVE s[k] = G[s[k - 1]]
    <3>1. k - 1 \in 0..m /\ k - 1 < m /\ s[k - 1] = r[k - 1]
      BY <2>1
    <3>2. CASE k < m
      <4>1. k \in 1..(m - 1) /\ s[k] = r[k]
        BY <2>1, <3>2
      <4> QED  BY <2>2, <3>1, <4>1
    <3>3. CASE k = m
      BY <3>1, <3>3
    <3> QED  BY <3>2, <3>3
  <2>5. R(m, s)
    BY <2>3, <2>4
  <2> QED  BY <1>3, <2>5
<1> QED  BY <1>4, <1>5

\* The walk is a function of the number of steps: each follows from the last.
LEMMA Walks ==
  ASSUME NEW t \in Tabla, NEW ini \in Valores, NEW w, w = Camino(t, ini)
  PROVE  /\ w \in [0..BlockCount -> Valores] /\ w[0] = ini
         /\ \A k \in 1..BlockCount : w[k] = IF w[k - 1] \in {0, Fin} THEN w[k - 1] ELSE t[w[k - 1]]
<1> DEFINE G == [x \in Valores |-> IF x \in {0, Fin} THEN x ELSE t[x]]
           F(p) == [k \in 0 .. BlockCount |->
                     IF k = 0 THEN ini
                     ELSE IF p[k - 1] \in {0, Fin} THEN p[k - 1] ELSE t[p[k - 1]]]
<1>1. G \in [Valores -> Valores]
  BY DEF Tabla, Valores
<1>2. BlockCount \in Nat
  BY FatAssumption
<1>3. PICK r \in [0..BlockCount -> Valores] :
        r[0] = ini /\ \A k \in 1..BlockCount : r[k] = G[r[k - 1]]
  <2> HIDE DEF G
  <2>1. PICK r : Iterada(r, Valores, G, ini, BlockCount)
    BY <1>1, <1>2, Iterates
  <2> QED  BY <2>1 DEF Iterada
<1>4. \A k \in 1..BlockCount : k - 1 \in 0..BlockCount /\ k \in 0..BlockCount
  BY <1>2
<1>5. r = F(r)
  <2>1. \A k \in 0..BlockCount : r[k] = F(r)[k]
    <3> TAKE k \in 0..BlockCount
    <3>1. CASE k = 0
      BY <1>3, <3>1
    <3>2. CASE k # 0
      <4>1. k \in 1..BlockCount /\ r[k - 1] \in Valores
        BY <1>2, <1>3, <1>4, <3>2
      <4> QED  BY <1>3, <3>2, <4>1
    <3> QED  BY <3>1, <3>2
  <2> QED  BY <1>3, <2>1
<1>6. w = F(w)
  BY <1>5 DEF Camino
<1>7. \A k \in 1..BlockCount : w[k] = IF w[k - 1] \in {0, Fin} THEN w[k - 1] ELSE t[w[k - 1]]
  <2> TAKE k \in 1..BlockCount
  <2>1. k \in 0..BlockCount /\ k # 0
    BY <1>2
  <2> QED  BY <1>6, <2>1
<1>8. w[0] = ini
  BY <1>2, <1>6
<1> DEFINE Bad == {k \in 0..BlockCount : w[k] \notin Valores}
<1>9. Bad = {}
  <2>1. SUFFICES ASSUME Bad # {} PROVE FALSE
    OBVIOUS
  <2>2. PICK k \in Bad : \A y \in Bad : k <= y
    <3>1. Bad \subseteq Nat
      BY <1>2
    <3> HIDE DEF Bad
    <3> QED  BY <2>1, <3>1, LeastNumber
  <2>3. k # 0 /\ k \in 1..BlockCount
    BY <1>2, <1>8, <2>2
  <2>4. k - 1 \in 0..BlockCount /\ k - 1 \notin Bad
    BY <1>2, <2>2, <2>3
  <2>5. w[k - 1] \in Valores
    BY <2>4
  <2>6. w[k] \in Valores
    BY <1>7, <2>3, <2>5 DEF Tabla, Valores
  <2> QED  BY <2>2, <2>6
<1>10. w \in [0..BlockCount -> Valores]
  BY <1>6, <1>9
<1> QED  BY <1>7, <1>8, <1>10

\* What is a chain of the table t from the block ini.
EsCadena(t, ini, c) ==
  /\ c \in Seq(Entradas \ {0}) /\ Len(c) <= BlockCount
  /\ Len(c) = 0 <=> ini \in {0, Fin}
  /\ Len(c) > 0 => c[1] = ini
  /\ \A i \in 1..(Len(c) - 1) : c[i + 1] = t[c[i]]
  /\ Len(c) > 0 /\ Len(c) < BlockCount => t[c[Len(c)]] \in {0, Fin}

\* The walk of Cadena gives a chain: it begins at ini and follows the table.
LEMMA ChainOf ==
  ASSUME NEW t \in Tabla, NEW ini \in Valores
  PROVE  EsCadena(t, ini, Recorrido(Camino(t, ini)))
<1> DEFINE w == Camino(t, ini)
           P == {k \in 0 .. BlockCount - 1 : w[k] \notin {0, Fin}}
           Stops == {k \in 0..BlockCount : w[k] \in {0, Fin} \/ k = BlockCount}
           n == Min(Stops)
           c == [i \in 1..n |-> w[i - 1]]
<1>0. BlockCount \in Nat \ {0}
  BY FatAssumption
<1>1. /\ w \in [0..BlockCount -> Valores] /\ w[0] = ini
      /\ \A k \in 1..BlockCount : w[k] = IF w[k - 1] \in {0, Fin} THEN w[k - 1] ELSE t[w[k - 1]]
  BY Walks
<1> HIDE DEF w
<1>2. n \in Stops /\ \A k \in Stops : n <= k
  <2>1. Stops \subseteq Nat /\ BlockCount \in Stops
    BY <1>0
  <2> HIDE DEF Stops
  <2> QED  BY <2>1, LeastNumber
<1> HIDE DEF n
<1>3. n \in 0..BlockCount /\ (w[n] \in {0, Fin} \/ n = BlockCount)
  BY <1>2
<1>4. \A k \in 0..(n - 1) : w[k] \notin {0, Fin} /\ k \in 0..(BlockCount - 1)
  <2> TAKE k \in 0..(n - 1)
  <2>1. k \in 0..BlockCount /\ ~(n <= k) /\ k \in 0..(BlockCount - 1)
    BY <1>0, <1>3
  <2> QED  BY <1>2, <2>1
<1> DEFINE Bad == {k \in n..(BlockCount - 1) : w[k] \notin {0, Fin}}
<1>5. Bad = {}
  <2>1. SUFFICES ASSUME Bad # {} PROVE FALSE
    OBVIOUS
  <2>2. PICK k \in Bad : \A y \in Bad : k <= y
    <3>1. Bad \subseteq Nat
      BY <1>0, <1>3
    <3> HIDE DEF Bad
    <3> QED  BY <2>1, <3>1, LeastNumber
  <2>3. k \in n..(BlockCount - 1) /\ n < BlockCount
    BY <1>0, <1>3
  <2>4. k # n
    BY <1>3, <2>2, <2>3
  <2>5. k - 1 \in n..(BlockCount - 1) /\ k \in 1..BlockCount /\ ~(k <= k - 1)
    BY <1>0, <1>3, <2>3, <2>4
  <2>6. w[k - 1] \in {0, Fin}
    BY <2>2, <2>5
  <2> QED  BY <1>1, <2>2, <2>5, <2>6
<1>6. P = 0..(n - 1)
  <2>1. \A k \in 0..(BlockCount - 1) : k \in 0..(n - 1) \/ k \in n..(BlockCount - 1)
    BY <1>0, <1>3
  <2> QED  BY <1>4, <1>5, <2>1
<1>7. Cardinality(P) = n
  <2>1. n - 1 \in Int /\ 0 \in Int
    BY <1>3
  <2>2. Cardinality(0..(n - 1)) = IF 0 > n - 1 THEN 0 ELSE n - 1 - 0 + 1
    BY <2>1, FS_Interval
  <2>3. Cardinality(0..(n - 1)) = n
    BY <1>3, <2>2
  <2> HIDE DEF P
  <2> QED  BY <1>6, <2>3
<1>8. Recorrido(w) = c
  <2>1. Recorrido(w) = [i \in 1..Cardinality(P) |-> w[i - 1]]
    BY DEF Recorrido
  <2> HIDE DEF P
  <2> QED  BY <1>7, <2>1
<1>9. \A i \in 1..n : i - 1 \in 0..(n - 1) /\ w[i - 1] \in Entradas \ {0}
  <2> TAKE i \in 1..n
  <2>1. i - 1 \in 0..(n - 1) /\ i - 1 \in 0..BlockCount
    BY <1>0, <1>3
  <2> QED  BY <1>1, <1>4, <2>1 DEF Valores
<1>10. c \in Seq(Entradas \ {0}) /\ Len(c) = n
  <2>1. n \in Nat
    BY <1>3
  <2>2. c \in [1..n -> Entradas \ {0}]
    BY <1>9
  <2>3. c \in Seq(Entradas \ {0}) /\ DOMAIN c = 1..n
    BY <2>1, <2>2, SeqDef
  <2> HIDE DEF c
  <2> QED  BY <2>1, <2>3, LenProperties
<1>11. \A i \in 1..n : c[i] = w[i - 1]
  OBVIOUS
<1> HIDE DEF c
<1>12. n = 0 <=> ini \in {0, Fin}
  <2>1. n = 0 => w[0] \in {0, Fin}
    BY <1>0, <1>3
  <2>2. n # 0 => 0 \in 0..(n - 1)
    BY <1>3
  <2> QED  BY <1>1, <1>4, <2>1, <2>2
<1>13. n > 0 => c[1] = ini
  <2>1. n > 0 => 1 \in 1..n
    BY <1>3
  <2> QED  BY <1>1, <1>11, <2>1
<1>14. \A i \in 1..(n - 1) : c[i + 1] = t[c[i]]
  <2> TAKE i \in 1..(n - 1)
  <2>1. /\ i \in 1..n /\ i + 1 \in 1..n /\ (i + 1) - 1 = i /\ i - 1 \in 0..(n - 1)
        /\ i \in 1..BlockCount
    BY <1>0, <1>3
  <2> QED  BY <1>1, <1>4, <1>11, <2>1
<1>15. n > 0 /\ n < BlockCount => t[c[n]] \in {0, Fin}
  <2>1. SUFFICES ASSUME n > 0, n < BlockCount PROVE t[c[n]] \in {0, Fin}
    OBVIOUS
  <2>2. n \in 1..n /\ n \in 1..BlockCount /\ n - 1 \in 0..(n - 1) /\ n # BlockCount
    BY <1>3, <2>1
  <2>3. w[n] = t[w[n - 1]] /\ w[n] \in {0, Fin}
    BY <1>1, <1>3, <1>4, <2>2
  <2> QED  BY <1>11, <2>2, <2>3
<1>16. EsCadena(t, ini, c)
  BY <1>3, <1>10, <1>12, <1>13, <1>14, <1>15 DEF EsCadena
<1> QED  BY <1>8, <1>16 DEF w

\* There is no other.
LEMMA ShorterChain ==
  ASSUME NEW t, NEW ini, NEW c, NEW d, EsCadena(t, ini, c), EsCadena(t, ini, d),
         Len(c) <= Len(d)
  PROVE  c = d
<1>1. /\ Len(c) \in Nat /\ Len(d) \in Nat /\ DOMAIN c = 1..Len(c) /\ DOMAIN d = 1..Len(d)
      /\ c \in Seq(Entradas \ {0}) /\ d \in Seq(Entradas \ {0})
      /\ \A i \in 1..Len(d) : d[i] \in Entradas \ {0}
  BY LenProperties DEF EsCadena
<1> DEFINE Bad == {i \in 1..Len(c) : c[i] # d[i]}
<1>2. Bad = {}
  <2>1. SUFFICES ASSUME Bad # {} PROVE FALSE
    OBVIOUS
  <2>2. PICK i \in Bad : \A y \in Bad : i <= y
    <3>1. Bad \subseteq Nat
      OBVIOUS
    <3> HIDE DEF Bad
    <3> QED  BY <2>1, <3>1, LeastNumber
  <2>3. i \in 1..Len(c) /\ c[i] # d[i]
    BY <2>2
  <2>4. i # 1
    BY <1>1, <2>3 DEF EsCadena
  <2>5. /\ i - 1 \in 1..Len(c) /\ ~(i <= i - 1) /\ (i - 1) + 1 = i
        /\ i - 1 \in 1..(Len(c) - 1) /\ i - 1 \in 1..(Len(d) - 1)
    BY <1>1, <2>3, <2>4
  <2>6. c[i - 1] = d[i - 1]
    BY <2>2, <2>5
  <2>7. c[i] = t[c[i - 1]] /\ d[i] = t[d[i - 1]]
    BY <2>5 DEF EsCadena
  <2> QED  BY <2>3, <2>6, <2>7
<1>3. ASSUME Len(c) < Len(d) PROVE FALSE
  <2>1. Len(c) < Len(d)
    BY <1>3
  <2>2. Len(c) # 0
    BY <1>1, <2>1 DEF EsCadena
  <2>3. Len(c) > 0 /\ Len(c) < BlockCount /\ Len(c) \in 1..(Len(d) - 1) /\ Len(c) \in 1..Len(c)
        /\ Len(c) + 1 \in 1..Len(d)
    BY <1>1, <2>1, <2>2, FatAssumption DEF EsCadena
  <2>4. t[c[Len(c)]] \in {0, Fin}
    BY <2>3 DEF EsCadena
  <2>5. d[Len(c) + 1] = t[d[Len(c)]] /\ c[Len(c)] = d[Len(c)]
    BY <1>2, <2>3 DEF EsCadena
  <2>6. d[Len(c) + 1] \in Entradas \ {0}
    BY <1>1, <2>3
  <2> QED  BY <2>4, <2>5, <2>6, Entries
<1>4. Len(c) = Len(d)
  <2>1. PICK m \in Nat, n \in Nat : m = Len(c) /\ n = Len(d)
    BY <1>1
  <2>2. m <= n /\ ~(m < n)
    BY <1>3, <2>1
  <2> QED  BY <2>1, <2>2
<1> QED  BY <1>1, <1>2, <1>4, SeqEqual

\* A table and a first block have one chain.
LEMMA OneChain ==
  ASSUME NEW t, NEW ini, NEW c, NEW d, EsCadena(t, ini, c), EsCadena(t, ini, d)
  PROVE  c = d
<1>1. Len(c) \in Nat /\ Len(d) \in Nat
  BY LenProperties DEF EsCadena
<1>2. Len(c) <= Len(d) \/ Len(d) <= Len(c)
  BY <1>1
<1> QED  BY <1>2, ShorterChain

\* The recursive function of BloqueDe.
CaminoB(t, a, n) ==
  CHOOSE paso : paso = [k \in 0 .. n |->
        IF k = 0 THEN {a}
        ELSE UNION {IF b = Fin THEN Entradas \cup {Fin} ELSE {t[b]} : b \in paso[k - 1]}]

\* Inside a chain the walk of a read or a write ends at one block, its n-th.
LEMMA BlockOfChain ==
  ASSUME NEW t \in Tabla, NEW ini \in Valores, NEW c, EsCadena(t, ini, c),
         NEW n \in Nat, n < Len(c)
  PROVE  CaminoB(t, ini, n)[n] = {c[n + 1]}
<1> DEFINE U(S) == UNION {IF b = Fin THEN Entradas \cup {Fin} ELSE {t[b]} : b \in S}
           V == SUBSET Valores
           G == [S \in V |-> U(S)]
           F(p) == [k \in 0 .. n |->
                     IF k = 0 THEN {ini}
                     ELSE UNION {IF b = Fin THEN Entradas \cup {Fin} ELSE {t[b]} : b \in p[k - 1]}]
           w == CaminoB(t, ini, n)
<1>1. ASSUME NEW S \in V PROVE U(S) \in V
  <2>1. \A b \in S : (IF b = Fin THEN Entradas \cup {Fin} ELSE {t[b]}) \in SUBSET Valores
    BY DEF Tabla, Valores
  <2> QED  BY <2>1
<1>2. G \in [V -> V] /\ \A S \in V : G[S] = U(S)
  <2> HIDE DEF U, V
  <2> QED  BY <1>1
<1>3. PICK r : Iterada(r, V, G, {ini}, n)
  <2>1. {ini} \in V
    OBVIOUS
  <2> HIDE DEF G, V
  <2> QED  BY <1>2, <2>1, Iterates
<1>4. r \in [0..n -> V] /\ r[0] = {ini} /\ \A k \in 1..n : r[k] = G[r[k - 1]]
  BY <1>3 DEF Iterada
<1>5. r = F(r)
  <2>1. \A k \in 0..n : r[k] = F(r)[k]
    <3> TAKE k \in 0..n
    <3>1. CASE k = 0
      BY <1>4, <3>1
    <3>2. CASE k # 0
      <4>1. k \in 1..n /\ k - 1 \in 0..n
        BY <3>2
      <4>2. r[k] = G[r[k - 1]] /\ r[k - 1] \in V
        BY <1>4, <4>1
      <4>3. r[k] = U(r[k - 1])
        BY <1>2, <4>2
      <4> QED  BY <3>2, <4>3
    <3> QED  BY <3>1, <3>2
  <2> HIDE DEF V
  <2> QED  BY <1>4, <2>1
<1>6. w = F(w)
  BY <1>5 DEF CaminoB
<1> HIDE DEF w
<1>7. w[0] = {ini} /\ \A k \in 1..n : w[k] = U(w[k - 1])
  <2>1. \A k \in 1..n : k \in 0..n /\ k # 0
    OBVIOUS
  <2>2. 0 \in 0..n
    OBVIOUS
  <2> QED  BY <1>6, <2>1, <2>2
<1> HIDE DEF F
<1>8. /\ Len(c) \in Nat /\ c[1] = ini
      /\ \A i \in 1..Len(c) : c[i] # Fin
      /\ \A i \in 1..(Len(c) - 1) : c[i + 1] = t[c[i]]
  <2>1. Len(c) \in Nat /\ DOMAIN c = 1..Len(c) /\ \A i \in 1..Len(c) : c[i] \in Entradas
    BY LenProperties DEF EsCadena
  <2>2. Len(c) > 0
    BY <2>1
  <2> QED  BY <2>1, <2>2, Entries DEF EsCadena
<1> DEFINE Bad == {k \in 0..n : w[k] # {c[k + 1]}}
<1>9. Bad = {}
  <2>1. SUFFICES ASSUME Bad # {} PROVE FALSE
    OBVIOUS
  <2>2. PICK k \in Bad : \A y \in Bad : k <= y
    <3>1. Bad \subseteq Nat
      OBVIOUS
    <3> HIDE DEF Bad
    <3> QED  BY <2>1, <3>1, LeastNumber
  <2>3. k \in 0..n /\ w[k] # {c[k + 1]}
    BY <2>2
  <2>4. k # 0
    BY <1>7, <1>8, <2>3
  <2>5. k \in 1..n /\ k - 1 \in 0..n /\ (k - 1) + 1 = k /\ ~(k <= k - 1) /\ k \in 1..Len(c) /\ k \in 1..(Len(c) - 1)
    BY <1>8, <2>3, <2>4
  <2>6. w[k - 1] = {c[k]}
    BY <2>2, <2>5
  <2>7. w[k] = U({c[k]})
    BY <1>7, <2>5, <2>6
  <2>8. U({c[k]}) = {t[c[k]]}
    BY <1>8, <2>5
  <2>9. t[c[k]] = c[k + 1]
    BY <1>8, <2>5
  <2> QED  BY <2>3, <2>7, <2>8, <2>9
<1>10. n \in 0..n
  OBVIOUS
<1> QED  BY <1>9, <1>10 DEF w

\* BloqueDe is that walk over the FAT.
LEMMA BlockNow ==
  ASSUME NEW f, NEW n
  PROVE  BloqueDe(f, n) = CaminoB(fat, fcb[f].inicial, n)[n]
BY DEF BloqueDe, CaminoB

\* No block is twice in c.
Distinta(c) == \A i, j \in 1..Len(c) : c[i] = c[j] => i = j

\* The members of a sequence without repetitions are as many as it is long.
LEMMA AsManyAsLong ==
  ASSUME NEW S, NEW c \in Seq(S), Distinta(c)
  PROVE  /\ IsFiniteSet({c[i] : i \in 1..Len(c)})
         /\ Cardinality({c[i] : i \in 1..Len(c)}) = Len(c)
<1> DEFINE T == {c[i] : i \in 1..Len(c)}
           g == [i \in 1..Len(c) |-> c[i]]
<1>1. Len(c) \in Nat
  BY LenProperties
<1>2. IsFiniteSet(1..Len(c)) /\ Cardinality(1..Len(c)) = Len(c)
  <2>1. PICK n \in Nat : n = Len(c)
    BY <1>1
  <2>2. IsFiniteSet(1..n) /\ Cardinality(1..n) = IF 1 > n THEN 0 ELSE n - 1 + 1
    BY FS_Interval
  <2> QED  BY <2>1, <2>2
<1>3. /\ g \in [1..Len(c) -> T]
      /\ \A i, j \in 1..Len(c) : g[i] = g[j] => i = j
      /\ \A y \in T : \E i \in 1..Len(c) : g[i] = y
  BY DEF Distinta
<1> HIDE DEF g, T
<1>4. IsFiniteSet(T) /\ Cardinality(T) = Cardinality(1..Len(c))
  BY <1>2, <1>3, SameSize
<1> QED  BY <1>2, <1>4 DEF T

\* A chain that passes no block twice does not fill the table.
LEMMA ShortChain ==
  ASSUME NEW c \in Seq(Entradas \ {0}), Distinta(c)
  PROVE  Len(c) < BlockCount
<1> DEFINE T == {c[i] : i \in 1..Len(c)}
<1>1. IsFiniteSet(T) /\ Cardinality(T) = Len(c)
  BY AsManyAsLong
<1>2. \A i \in 1..Len(c) : c[i] \in Entradas \ {0}
  BY LenProperties
<1>3. T \subseteq 1..(BlockCount - 1)
  BY <1>2, FatAssumption DEF Entradas
<1>4. IsFiniteSet(1..(BlockCount - 1)) /\ Cardinality(1..(BlockCount - 1)) = BlockCount - 1
  <2>1. /\ IsFiniteSet(1..(BlockCount - 1))
        /\ Cardinality(1..(BlockCount - 1)) = IF 1 > BlockCount - 1 THEN 0 ELSE (BlockCount - 1) - 1 + 1
    BY FatAssumption, FS_Interval
  <2> QED  BY <2>1, FatAssumption
<1> HIDE DEF T
<1>5. Cardinality(T) <= BlockCount - 1
  <2>1. Cardinality(T) <= Cardinality(1..(BlockCount - 1))
    BY <1>3, <1>4, FS_Subset
  <2> QED  BY <1>4, <2>1
<1>6. Len(c) \in Nat
  BY LenProperties
<1> QED  BY <1>1, <1>5, <1>6, FatAssumption

\* The blocks of S in order.
Ordenada(s, S) ==
  /\ s \in Seq(S) /\ Len(s) = Cardinality(S)
  /\ \A i, j \in 1..Len(s) : i < j => s[i] < s[j]
  /\ \A e \in S : \E i \in 1..Len(s) : s[i] = e

\* Any set of entries can be put in order.
LEMMA InOrder ==
  ASSUME NEW S \in SUBSET Entradas
  PROVE  IsFiniteSet(S) /\ \E s : Ordenada(s, S)
<1>1. ASSUME NEW T \in SUBSET Entradas
      PROVE  IsFiniteSet(T) /\ Cardinality(T) \in Nat
  <2>1. IsFiniteSet(0..(BlockCount - 1))
    BY FatAssumption, FS_Interval
  <2>2. IsFiniteSet(T)
    BY <2>1, FS_Subset DEF Entradas
  <2> QED  BY <2>2, FS_CardinalityType
<1> DEFINE Bad == {n \in Nat : \E T \in SUBSET Entradas : Cardinality(T) = n /\ ~ \E s : Ordenada(s, T)}
<1>2. SUFFICES ASSUME Bad # {} PROVE FALSE
  <2>1. Cardinality(S) \in Nat
    BY <1>1
  <2> QED  BY <1>1, <1>2, <2>1
<1>3. PICK n \in Bad : \A m \in Bad : n <= m
  <2>1. Bad \subseteq Nat
    OBVIOUS
  <2> HIDE DEF Bad
  <2> QED  BY <1>2, <2>1, LeastNumber
<1>4. PICK T \in SUBSET Entradas : Cardinality(T) = n /\ ~ \E s : Ordenada(s, T)
  BY <1>3
<1>5. n \in Nat
  BY <1>3
<1>6. CASE T = {}
  <2>1. Cardinality(T) = 0
    BY <1>6, FS_EmptySet
  <2>2. <<>> \in Seq(T) /\ Len(<<>>) = 0
    BY EmptySeq
  <2>3. Ordenada(<<>>, T)
    BY <1>6, <2>1, <2>2 DEF Ordenada
  <2> QED  BY <1>4, <2>3
<1>7. CASE T # {}
  <2>1. PICK x \in T : x = Max(T) /\ \A y \in T : y <= x
    BY <1>7, Extremes
  <2> DEFINE R == T \ {x}
  <2>2. R \in SUBSET Entradas /\ Cardinality(R) = n - 1 /\ Cardinality(R) \in Nat
    <3>1. Cardinality(R) = Cardinality(T) - 1
      BY <1>1, <2>1, FS_RemoveElement
    <3> QED  BY <1>1, <1>4, <3>1
  <2>3. n - 1 \in Nat /\ ~(n <= n - 1)
    BY <1>5, <2>2
  <2>4. PICK s : Ordenada(s, R)
    <3>1. n - 1 \notin Bad
      BY <1>3, <2>3
    <3> QED  BY <2>2, <2>3, <3>1
  <2>5. s \in Seq(R) /\ Len(s) = n - 1 /\ s \in Seq(T) /\ \A i \in 1..Len(s) : s[i] \in R
    <3>1. s \in Seq(R) /\ Len(s) = n - 1
      BY <2>2, <2>4 DEF Ordenada
    <3>2. \A i \in 1..Len(s) : s[i] \in R
      BY <3>1, LenProperties
    <3>3. s \in Seq(T)
      BY <3>1, SeqMonotonic
    <3> QED  BY <3>1, <3>2, <3>3
  <2> DEFINE u == Append(s, x)
  <2>6. /\ u \in Seq(T) /\ Len(u) = n /\ u[n] = x
        /\ \A i \in 1..(n - 1) : u[i] = s[i]
    <3>1. /\ u \in Seq(T) /\ Len(u) = Len(s) + 1 /\ u[Len(s) + 1] = x
          /\ \A i \in 1..Len(s) : u[i] = s[i]
      BY <2>1, <2>5, AppendProperties
    <3> HIDE DEF u
    <3>2. Len(s) + 1 = n
      BY <1>5, <2>5
    <3> QED  BY <2>5, <3>1, <3>2
  <2> HIDE DEF u
  <2>7. \A i, j \in 1..n : i < j => u[i] < u[j]
    <3> TAKE i, j \in 1..n
    <3> HAVE i < j
    <3>1. i \in 1..(n - 1) /\ u[i] = s[i] /\ s[i] \in R
      BY <1>5, <2>5, <2>6
    <3>2. CASE j = n
      <4>1. s[i] \in Nat /\ x \in Nat /\ s[i] <= x /\ s[i] # x
        BY <2>1, <3>1, Entries
      <4>2. s[i] < x
        BY <4>1
      <4> QED  BY <2>6, <3>1, <3>2, <4>2
    <3>3. CASE j # n
      <4>1. j \in 1..(n - 1) /\ u[j] = s[j]
        BY <1>5, <2>6, <3>3
      <4>2. s[i] < s[j]
        BY <2>4, <2>5, <3>1, <4>1 DEF Ordenada
      <4> QED  BY <3>1, <4>1, <4>2
    <3> QED  BY <3>2, <3>3
  <2>8. \A e \in T : \E i \in 1..n : u[i] = e
    <3> TAKE e \in T
    <3>1. CASE e = x
      <4>1. n \in 1..n
        BY <1>5, <2>3
      <4> QED  BY <2>6, <3>1, <4>1
    <3>2. CASE e # x
      <4>1. PICK i \in 1..(n - 1) : s[i] = e
        BY <2>4, <2>5, <3>2 DEF Ordenada
      <4>2. i \in 1..n
        BY <1>5
      <4> QED  BY <2>6, <4>1, <4>2
    <3> QED  BY <3>1, <3>2
  <2>9. Ordenada(u, T)
    BY <1>4, <2>6, <2>7, <2>8 DEF Ordenada
  <2> QED  BY <1>4, <2>9
<1> QED  BY <1>6, <1>7

\* The new blocks, in order: each is the least of those after the one before.
LEMMA NextInOrder ==
  ASSUME NEW S \in SUBSET Entradas, S # {}, NEW s, Ordenada(s, S)
  PROVE  /\ Len(s) \in Nat \ {0} /\ s[1] = Min(S) /\ s[Len(s)] = Max(S)
         /\ \A i \in 1..Len(s) : s[i] \in S
         /\ Distinta(s)
         /\ \A i \in 1..(Len(s) - 1) : s[i] # Max(S) /\ s[i + 1] = Min({c \in S : c > s[i]})
<1>1. PICK n \in Nat : n = Len(s) /\ \A i \in 1..n : s[i] \in S
  BY LenProperties DEF Ordenada
<1>2. n # 0
  <2>1. PICK e \in S : TRUE
    OBVIOUS
  <2>2. PICK i \in 1..n : s[i] = e
    BY <1>1 DEF Ordenada
  <2> QED  BY <2>2
<1>3. \A i \in 1..n : s[i] \in Nat
  BY <1>1, Entries
<1>4. \A i, j \in 1..n : i < j => s[i] < s[j]
  BY <1>1 DEF Ordenada
<1>5. 1 \in 1..n /\ n \in 1..n
  BY <1>2
<1>6. \A e \in S : \E i \in 1..n : s[i] = e
  BY <1>1 DEF Ordenada
<1>7. Distinta(s)
  <2> SUFFICES ASSUME NEW i \in 1..n, NEW j \in 1..n, s[i] = s[j] PROVE i = j
    BY <1>1 DEF Distinta
  <2>1. ~(i < j) /\ ~(j < i)
    <3>1. s[i] \in Nat /\ s[j] \in Nat /\ ~(s[i] < s[j]) /\ ~(s[j] < s[i])
      BY <1>3
    <3> QED  BY <1>4, <3>1
  <2> QED  BY <2>1
<1>8. \A T : T # {} /\ T \in SUBSET Entradas => Min(T) \in T /\ \A y \in T : Min(T) <= y
  BY Extremes
<1>9. s[1] = Min(S)
  <2>1. PICK i \in 1..n : s[i] = Min(S)
    BY <1>6, <1>8
  <2>2. Min(S) <= s[1]
    BY <1>1, <1>5, <1>8
  <2>3. i = 1
    <3>1. ~(s[1] < s[i])
      BY <1>3, <1>5, <2>1, <2>2
    <3>2. ~(1 < i)
      BY <1>4, <1>5, <3>1
    <3> QED  BY <3>2
  <2> QED  BY <2>1, <2>3
<1>10. s[n] = Max(S)
  <2>1. Max(S) \in S /\ \A y \in S : y <= Max(S)
    BY Extremes
  <2>2. PICK i \in 1..n : s[i] = Max(S)
    BY <1>6, <2>1
  <2>3. i = n
    <3>1. s[n] <= s[i] /\ s[n] \in Nat /\ s[i] \in Nat
      BY <1>1, <1>3, <1>5, <2>1, <2>2
    <3>2. ~(i < n)
      <4>1. ~(s[i] < s[n])
        BY <3>1
      <4> QED  BY <1>4, <1>5, <4>1
    <3> QED  BY <3>2
  <2> QED  BY <2>2, <2>3
<1>11. ASSUME NEW i \in 1..(n - 1)
       PROVE  s[i] # Max(S) /\ s[i + 1] = Min({c \in S : c > s[i]})
  <2>1. i \in 1..n /\ i + 1 \in 1..n /\ i < i + 1 /\ i < n
    BY <1>1
  <2>2. s[i] < s[n] /\ s[i] < s[i + 1] /\ s[i] \in Nat /\ s[n] \in Nat /\ s[i + 1] \in Nat
    BY <1>3, <1>4, <1>5, <2>1
  <2>3. s[i] # Max(S)
    BY <1>10, <2>2
  <2> DEFINE T == {c \in S : c > s[i]}
  <2>4. s[i + 1] \in T
    BY <1>1, <2>1, <2>2
  <2>5. Min(T) \in T /\ \A y \in T : Min(T) <= y
    <3>1. T # {} /\ T \in SUBSET Entradas
      BY <2>4
    <3> HIDE DEF T
    <3> QED  BY <1>8, <3>1
  <2>6. PICK j \in 1..n : s[j] = Min(T)
    BY <1>6, <2>5
  <2>7. s[j] > s[i] /\ s[j] \in Nat /\ s[j] <= s[i + 1]
    BY <1>3, <2>4, <2>5, <2>6
  <2>8. i < j
    <3>1. ~(s[j] < s[i]) /\ s[j] # s[i]
      BY <2>2, <2>7
    <3>2. ~(j < i) /\ j # i
      BY <1>4, <2>1, <3>1
    <3> QED  BY <3>2
  <2>9. j = i + 1
    <3>1. ~(s[i + 1] < s[j])
      BY <2>2, <2>7
    <3>2. ~(i + 1 < j)
      BY <1>4, <2>1, <3>1
    <3> QED  BY <2>8, <3>2
  <2> HIDE DEF T
  <2>10. s[i + 1] = Min(T)
    BY <2>6, <2>9
  <2> QED  BY <2>3, <2>10 DEF T
<1> QED  BY <1>1, <1>2, <1>7, <1>9, <1>10, <1>11

------------------------------------------------------------------------------
(* Chains that end, and what is added to or cut from their end.              *)

\* A chain that passes no block twice and ends with the mark.
Entera(t, ini, c) ==
  /\ c \in Seq(Entradas \ {0}) /\ Distinta(c)
  /\ Len(c) = 0 <=> ini = 0
  /\ Len(c) > 0 => c[1] = ini /\ t[c[Len(c)]] = Fin
  /\ \A i \in 1..(Len(c) - 1) : c[i + 1] = t[c[i]]

\* A chain that ends is what the walk finds.
LEMMA WholeIsChain ==
  ASSUME NEW t, NEW ini \in Entradas, NEW c, Entera(t, ini, c)
  PROVE  EsCadena(t, ini, c)
<1>1. Len(c) < BlockCount /\ Len(c) \in Nat
  BY ShortChain, LenProperties DEF Entera
<1>2. Len(c) <= BlockCount
  BY <1>1, FatAssumption
<1>3. ini # Fin
  BY Entries
<1> QED  BY <1>2, <1>3 DEF Entera, EsCadena

\* A chain is the same in a table that agrees on its blocks.
LEMMA SameWhole ==
  ASSUME NEW t, NEW u, NEW ini, NEW c, Entera(t, ini, c),
         \A i \in 1..Len(c) : u[c[i]] = t[c[i]]
  PROVE  Entera(u, ini, c)
<1>1. Len(c) \in Nat
  BY LenProperties DEF Entera
<1>2. \A i \in 1..(Len(c) - 1) : i \in 1..Len(c)
  BY <1>1
<1>3. Len(c) > 0 => Len(c) \in 1..Len(c)
  BY <1>1
<1> QED  BY <1>2, <1>3 DEF Entera

\* The blocks of a chain.
Ocupa(c) == {c[i] : i \in 1..Len(c)}

\* d has the blocks of c, in their places, as far as it goes.
Sigue(d, c) == \A i \in 1..Len(c) : i <= Len(d) => d[i] = c[i]

\* In the table u, the blocks of S come after those of c, which t has.
Encadenadas(u, t, c, S) ==
  \A e \in Entradas : u[e] =
    IF Len(c) > 0 /\ e = c[Len(c)] THEN Min(S)
    ELSE IF e \notin S THEN t[e]
    ELSE IF e = Max(S) THEN Fin ELSE Min({x \in S : x > e})

\* New blocks, in order, after the last of a chain.
LEMMA ChainGrows ==
  ASSUME NEW t, NEW u, NEW ini \in Entradas, NEW c, Entera(t, ini, c),
         NEW S, S \subseteq Entradas \ {0}, S # {}, Ocupa(c) \cap S = {},
         NEW s, Ordenada(s, S), Encadenadas(u, t, c, S),
         NEW first, first = IF Len(c) = 0 THEN Min(S) ELSE ini
  PROVE  /\ Entera(u, first, c \o s)
         /\ Len(c \o s) = Len(c) + Cardinality(S)
         /\ Ocupa(c \o s) = Ocupa(c) \cup S
         /\ Sigue(c \o s, c)
<1> DEFINE d == c \o s
           B == Entradas \ {0}
<1>1. PICK m \in Nat : m = Len(c) /\ \A i \in 1..m : c[i] \in B
  BY LenProperties DEF Entera
<1>0. \A i \in 1..m : c[i] \notin S
  BY <1>1 DEF Ocupa
<1>2. PICK n \in Nat \ {0} :
        /\ n = Len(s) /\ s[1] = Min(S) /\ s[n] = Max(S)
        /\ \A i \in 1..n : s[i] \in S
        /\ \A i, j \in 1..n : s[i] = s[j] => i = j
        /\ \A i \in 1..(n - 1) : s[i] # Max(S) /\ s[i + 1] = Min({x \in S : x > s[i]})
  <2>1. S \in SUBSET Entradas
    OBVIOUS
  <2>2. /\ Len(s) \in Nat \ {0} /\ s[1] = Min(S) /\ s[Len(s)] = Max(S)
        /\ \A i \in 1..Len(s) : s[i] \in S
        /\ Distinta(s)
        /\ \A i \in 1..(Len(s) - 1) : s[i] # Max(S) /\ s[i + 1] = Min({x \in S : x > s[i]})
    BY <2>1, NextInOrder
  <2>3. PICK n \in Nat \ {0} : n = Len(s)
    BY <2>2
  <2> QED  BY <2>2, <2>3 DEF Distinta
<1>3. n = Cardinality(S)
  BY <1>2 DEF Ordenada
<1>4. /\ d \in Seq(B) /\ Len(d) = m + n
      /\ \A i \in 1..m : d[i] = c[i]
      /\ \A i \in 1..n : d[m + i] = s[i]
  <2>1. c \in Seq(B) /\ s \in Seq(B)
    BY SeqMonotonic DEF Entera, Ordenada
  <2>2. /\ d \in Seq(B) /\ Len(d) = Len(c) + Len(s)
        /\ \A i \in 1..(Len(c) + Len(s)) : d[i] = IF i <= Len(c) THEN c[i] ELSE s[i - Len(c)]
    BY <2>1, ConcatProperties
  <2> HIDE DEF d
  <2>3. \A i \in 1..(m + n) : d[i] = IF i <= m THEN c[i] ELSE s[i - m]
    BY <1>1, <1>2, <2>2
  <2>4. ASSUME NEW i \in 1..m PROVE d[i] = c[i]
    <3>1. i \in 1..(m + n) /\ i <= m
      OBVIOUS
    <3> QED  BY <2>3, <3>1
  <2>5. ASSUME NEW i \in 1..n PROVE d[m + i] = s[i]
    <3>1. m + i \in 1..(m + n) /\ ~(m + i <= m) /\ (m + i) - m = i
      OBVIOUS
    <3> QED  BY <2>3, <3>1
  <2> QED  BY <1>1, <1>2, <2>2, <2>4, <2>5
<1> HIDE DEF d
<1>5. \A k \in 1..(m + n) : \/ k \in 1..m /\ d[k] = c[k]
                            \/ k - m \in 1..n /\ d[k] = s[k - m]
  <2> TAKE k \in 1..(m + n)
  <2>1. k \in 1..m \/ (k - m \in 1..n /\ k = m + (k - m))
    OBVIOUS
  <2> QED  BY <1>4, <2>1
<1>6. \A i, j \in 1..m : c[i] = c[j] => i = j
  BY <1>1 DEF Entera, Distinta
<1>7. Distinta(d)
  <2> SUFFICES ASSUME NEW i \in 1..(m + n), NEW j \in 1..(m + n), d[i] = d[j] PROVE i = j
    BY <1>4 DEF Distinta
  <2>1. CASE i \in 1..m /\ j \in 1..m
    BY <1>4, <1>6, <2>1
  <2>2. CASE i - m \in 1..n /\ d[i] = s[i - m] /\ j - m \in 1..n /\ d[j] = s[j - m]
    <3>1. PICK a \in 1..n, b \in 1..n : a = i - m /\ b = j - m
      BY <2>2
    <3>2. d[i] = s[a] /\ d[j] = s[b]
      BY <2>2, <3>1, Zenon
    <3>3. s[a] = s[b]
      BY <3>2
    <3>4. a = b
      BY <1>2, <3>3, Zenon
    <3> QED  BY <3>1, <3>4
  <2>3. ASSUME NEW x \in 1..m, NEW y, y - m \in 1..n, d[x] = c[x], d[y] = s[y - m], d[x] = d[y]
        PROVE  FALSE
    <3>1. PICK b \in 1..n : b = y - m
      BY <2>3
    <3>2. c[x] = s[b] /\ s[b] \in S
      BY <1>2, <2>3, <3>1
    <3> QED  BY <1>0, <3>2
  <2> QED  BY <1>5, <2>1, <2>2, <2>3
<1>8. {d[i] : i \in 1..(m + n)} = {c[i] : i \in 1..m} \cup S
  <2>1. \A i \in 1..(m + n) : d[i] \in {c[j] : j \in 1..m} \cup S
    BY <1>2, <1>5
  <2>2. \A i \in 1..m : i \in 1..(m + n)
    OBVIOUS
  <2>3. \A e \in S : \E i \in 1..(m + n) : d[i] = e
    <3> TAKE e \in S
    <3>1. PICK i \in 1..n : s[i] = e
      BY <1>2 DEF Ordenada
    <3>2. m + i \in 1..(m + n)
      OBVIOUS
    <3> QED  BY <1>4, <3>1, <3>2
  <2> QED  BY <1>4, <2>1, <2>2, <2>3
<1>9. ASSUME m > 0 PROVE d[1] = ini
  <2>1. 1 \in 1..m
    BY <1>9
  <2> QED  BY <1>1, <1>4, <1>9, <2>1 DEF Entera
<1>10. ASSUME m = 0 PROVE d[1] = Min(S)
  <2>1. 1 \in 1..n /\ m + 1 = 1
    BY <1>10
  <2> QED  BY <1>2, <1>4, <2>1
<1>11. u[d[m + n]] = Fin
  <2>1. n \in 1..n /\ d[m + n] = Max(S) /\ Max(S) \in S
    BY <1>2, <1>4
  <2>2. ~(m > 0 /\ Max(S) = c[m])
    <3>1. m > 0 => m \in 1..m
      OBVIOUS
    <3> QED  BY <1>0, <2>1, <3>1
  <2> QED  BY <1>1, <2>1, <2>2 DEF Encadenadas
<1>12. ASSUME NEW k \in 1..(m + n - 1) PROVE d[k + 1] = u[d[k]]
  <2>1. CASE k < m
    <3>1. k \in 1..m /\ k + 1 \in 1..m /\ m \in 1..m /\ k # m /\ k \in 1..(m - 1)
      BY <2>1
    <3>2. c[k + 1] = t[c[k]] /\ c[k] # c[m] /\ c[k] \in Entradas /\ c[k] \notin S
      BY <1>0, <1>1, <1>6, <3>1 DEF Entera
    <3>3. u[c[k]] = t[c[k]]
      BY <1>1, <3>2 DEF Encadenadas
    <3> QED  BY <1>4, <3>1, <3>2, <3>3
  <2>2. CASE k = m
    <3>1. m > 0 /\ m \in 1..m /\ 1 \in 1..n
      BY <2>2
    <3>2. u[c[m]] = Min(S)
      BY <1>1, <3>1 DEF Encadenadas
    <3>3. d[m + 1] = s[1]
      BY <1>4, <3>1
    <3> QED  BY <1>2, <1>4, <2>2, <3>1, <3>2, <3>3
  <2>3. CASE k > m
    <3>1. PICK j \in 1..(n - 1) : k = m + j
      <4>1. k - m \in 1..(n - 1) /\ k = m + (k - m)
        BY <2>3
      <4> QED  BY <4>1
    <3>2. j \in 1..n /\ j + 1 \in 1..n /\ k + 1 = m + (j + 1)
      BY <3>1
    <3>3. d[k] = s[j] /\ d[k + 1] = s[j + 1]
      BY <1>4, <3>1, <3>2
    <3>4. s[j] \in S /\ s[j] \in Entradas /\ s[j] # Max(S)
      BY <1>2, <3>1, <3>2
    <3>5. ~(m > 0 /\ s[j] = c[m])
      <4>1. m > 0 => m \in 1..m
        OBVIOUS
      <4> QED  BY <1>0, <3>4, <4>1
    <3>6. u[s[j]] = Min({x \in S : x > s[j]})
      BY <1>1, <3>4, <3>5 DEF Encadenadas
    <3> QED  BY <1>2, <3>1, <3>3, <3>6
  <2> QED  BY <2>1, <2>2, <2>3
<1>13. Min(S) # 0
  <2>1. 1 \in 1..n
    OBVIOUS
  <2> QED  BY <1>2, <2>1
<1>14. m + n > 0
  OBVIOUS
<1>15. Entera(u, IF m = 0 THEN Min(S) ELSE ini, d)
  <2>1. Len(d) = 0 <=> (IF m = 0 THEN Min(S) ELSE ini) = 0
    BY <1>1, <1>4, <1>13, <1>14 DEF Entera
  <2>2. d[1] = IF m = 0 THEN Min(S) ELSE ini
    BY <1>9, <1>10
  <2> QED  BY <1>4, <1>7, <1>11, <1>12, <2>1, <2>2 DEF Entera
<1>16. Ocupa(d) = Ocupa(c) \cup S
  BY <1>1, <1>4, <1>8 DEF Ocupa
<1>17. Sigue(d, c)
  BY <1>1, <1>4 DEF Sigue
<1>18. Entera(u, first, d)
  BY <1>1, <1>15
<1> QED  BY <1>1, <1>3, <1>4, <1>16, <1>17, <1>18 DEF d

\* The first m blocks of a chain, the others let go.
LEMMA ChainShrinks ==
  ASSUME NEW t, NEW u, NEW ini \in Entradas, NEW c, Entera(t, ini, c), NEW m \in 0..Len(c),
         \A e \in Entradas : u[e] =
           IF m > 0 /\ e = c[m] THEN Fin
           ELSE IF \E i \in m + 1 .. Len(c) : c[i] = e THEN 0 ELSE t[e]
  PROVE  /\ Entera(u, IF m = 0 THEN 0 ELSE ini, SubSeq(c, 1, m))
         /\ Len(SubSeq(c, 1, m)) = m
         /\ \A i \in 1..m : SubSeq(c, 1, m)[i] = c[i]
<1> DEFINE d == SubSeq(c, 1, m)
           B == Entradas \ {0}
<1>1. PICK n \in Nat : n = Len(c) /\ (\A i \in 1..n : c[i] \in B) /\ m \in 0..n
  BY LenProperties DEF Entera
<1>2. d \in Seq(B) /\ Len(d) = m /\ \A i \in 1..m : d[i] = c[i]
  <2>1. m \in Nat /\ c \in Seq(B) /\ \A i \in 1..m : c[i] \in B
    BY <1>1 DEF Entera
  <2>2. /\ d \in Seq(B)
        /\ Len(d) = IF 1 <= m THEN m - 1 + 1 ELSE 0
        /\ \A i \in 1..(m - 1 + 1) : d[i] = c[1 + i - 1]
    BY <2>1, SubSeqProperties
  <2> QED  BY <2>1, <2>2
<1> HIDE DEF d
<1>3. \A i, j \in 1..n : c[i] = c[j] => i = j
  BY <1>1 DEF Entera, Distinta
<1>4. \A i \in 1..m : i \in 1..n
  BY <1>1
<1>5. Distinta(d)
  BY <1>2, <1>3, <1>4 DEF Distinta
<1>6. ASSUME m > 0 PROVE d[1] = ini /\ u[d[m]] = Fin /\ ini # 0
  <2>1. 1 \in 1..m /\ m \in 1..m /\ n > 0
    BY <1>1, <1>6
  <2>2. c[m] \in Entradas
    BY <1>1, <1>4, <2>1
  <2>3. c[1] = ini /\ ini # 0
    BY <1>1, <2>1 DEF Entera
  <2> QED  BY <1>2, <1>6, <2>1, <2>2, <2>3
<1>7. ASSUME NEW i \in 1..(m - 1) PROVE d[i + 1] = u[d[i]]
  <2>1. i \in 1..m /\ i + 1 \in 1..m /\ m \in 1..m /\ i # m /\ i \in 1..(n - 1) /\ i \in 1..n /\ m \in 1..n
    BY <1>1
  <2>2. c[i + 1] = t[c[i]] /\ c[i] # c[m] /\ c[i] \in Entradas
    BY <1>1, <1>3, <2>1 DEF Entera
  <2>3. ~ \E j \in m + 1 .. n : c[j] = c[i]
    <3>1. \A j \in m + 1 .. n : j \in 1..n /\ j # i
      BY <1>1, <2>1
    <3> QED  BY <1>3, <2>1, <3>1
  <2>4. u[c[i]] = t[c[i]]
    BY <1>1, <2>2, <2>3
  <2> QED  BY <1>2, <2>1, <2>2, <2>4
<1>8. Entera(u, IF m = 0 THEN 0 ELSE ini, d)
  <2>1. m = 0 \/ m > 0
    BY <1>1
  <2> QED  BY <1>1, <1>2, <1>5, <1>6, <1>7, <2>1 DEF Entera
<1> QED  BY <1>2, <1>8 DEF d

\* There are no more new blocks than were asked for.
LEMMA NoMoreThanAsked ==
  ASSUME NEW cant \in Nat \ {0}
  PROVE  Nuevos(cant) \in SUBSET Entradas /\ Cardinality(Nuevos(cant)) \in Nat
         /\ Cardinality(Nuevos(cant)) <= cant
<1> DEFINE N == Nuevos(cant)
<1>1. N \in SUBSET Libres /\ Libres \in SUBSET Entradas
  BY DEF Nuevos, Libres
<1>2. IsFiniteSet(N) /\ Cardinality(N) \in Nat
  BY <1>1, InOrder, FS_CardinalityType
<1>3. CASE N = {}
  <2>1. Cardinality(N) = 0
    BY <1>3, FS_EmptySet
  <2> QED  BY <1>1, <2>1
<1>4. CASE N # {}
  <2>1. PICK x \in N : \A y \in N : y <= x
    <3>1. Max(N) \in N /\ \A y \in N : y <= Max(N)
      BY <1>1, <1>4, Extremes
    <3> QED  BY <3>1
  <2> DEFINE L == {c \in Libres : c < x}
  <2>2. Cardinality(L) < cant
    BY <2>1 DEF Nuevos
  <2>3. IsFiniteSet(L) /\ Cardinality(L) \in Nat
    <3>1. L \in SUBSET Entradas
      BY <1>1
    <3> HIDE DEF L
    <3> QED  BY <3>1, InOrder, FS_CardinalityType
  <2>4. N \ {x} \subseteq L
    <3> SUFFICES ASSUME NEW y \in N, y # x PROVE y \in L
      OBVIOUS
    <3>1. y \in Nat /\ x \in Nat /\ y <= x
      BY <1>1, <2>1, Entries
    <3>2. y < x
      BY <3>1
    <3> QED  BY <1>1, <3>2
  <2> HIDE DEF N, L
  <2>5. Cardinality(N \ {x}) <= Cardinality(L)
    BY <2>3, <2>4, FS_Subset
  <2>6. Cardinality(N \ {x}) = Cardinality(N) - 1
    BY <1>2, <2>1, FS_RemoveElement
  <2>7. Cardinality(N) <= cant
    BY <1>2, <2>2, <2>3, <2>5, <2>6
  <2> QED  BY <1>1, <1>2, <2>7 DEF N
<1> QED  BY <1>3, <1>4

------------------------------------------------------------------------------
(* The files and their chains.                                               *)

\* A file that is in a table, or in a request, exists.
Existing ==
  /\ \A f \in File : open_files[f].hay => Existe(f)
  /\ \A p \in Process : \A i \in 1..Len(archivos[p]) : Existe(archivos[p][i].archivo)
  /\ llamada # SinLlamada => Existe(llamada.archivo)

\* While a file is resized the planner waits for it.
Resizing ==
  truncando # Ninguna =>
    /\ llamada # SinLlamada /\ llamada.op = "F_TRUNCATE" /\ llamada.archivo = truncando.archivo
    /\ truncando.paso \in {"fat", "igual"} => truncando.inicial = fcb[truncando.archivo].inicial
    /\ truncando.paso = "fcb" /\ CantBloques(truncando.tamanio) # 0 =>
         fcb[truncando.archivo].inicial \in {0, truncando.inicial}

\* The entries that are not free.
Tomadas == {e \in Entradas \ {0} : fat[e] # 0}

\* The chain of every file ends with the mark, and no two of them meet.
Chained ==
  SinAviso({"zeroed", "noroom"}) =>
    /\ fat[0] = Fin
    /\ \A f \in Creados : Entera(fat, Inicial(f), Bloques(f))
    /\ \A f, g \in Creados : f # g => Ocupa(Bloques(f)) \cap Ocupa(Bloques(g)) = {}

\* Every entry that is taken is in the chain of a file.
Claimed ==
  SinAviso({"zeroed", "torn", "noroom"}) => Tomadas = UNION {Ocupa(Bloques(f)) : f \in Creados}

\* A chain has the length of the size it was made for: the old one until the
\* FAT is written, the new one after that.
Sized ==
  SinAviso({"zeroed", "torn", "full", "noroom"}) =>
    /\ \A f \in Creados : ~EnTruncado(f) \/ truncando.paso \in {"fat", "igual"} =>
         Len(Bloques(f)) = CantBloques(fcb[f].tamanio)
    /\ truncando # Ninguna /\ truncando.paso \in {"igual", "fcb"} =>
         Len(Bloques(truncando.archivo)) = CantBloques(truncando.tamanio)

------------------------------------------------------------------------------
\* A size asks for a number of blocks.
LEMMA BlocksOfBytes ==
  ASSUME NEW n \in Nat
  PROVE  CantBloques(n) \in Nat
<1>1. BlockSize \in Nat /\ BlockSize > 0
  BY FatAssumption
<1>2. n + (BlockSize - 1) \in Nat
  BY <1>1
<1>3. \A a \in Nat, b \in Nat : b > 0 => a \div b \in Nat
  OBVIOUS
<1> QED  BY <1>1, <1>2, <1>3 DEF CantBloques

\* The blocks of a file are the walk over the FAT, now ...
LEMMA BlocksNow == ASSUME NEW f PROVE Bloques(f) = Recorrido(Camino(fat, Inicial(f)))
  BY DEF Bloques, Cadena, Camino, Recorrido
\* ... and after a step.
LEMMA BlocksNext == ASSUME NEW CONSTANT f PROVE Bloques(f)' = Recorrido(Camino(fat', Inicial(f)'))
  BY DEF Bloques, Cadena, Camino, Recorrido

\* They are a chain, now ...
LEMMA ChainsNow ==
  ASSUME DiskTyping, NEW f \in File
  PROVE  Inicial(f) \in Entradas /\ EsCadena(fat, Inicial(f), Bloques(f))
<1>1. fcb[f].inicial \in Entradas
  BY Entries DEF DiskTyping, SinFcb
<1>2. Inicial(f) \in Entradas
  BY <1>1 DEF DiskTyping, Inicial, Truncado, Ninguna
<1>3. fat \in Tabla
  BY DEF DiskTyping, Tabla, Valores
<1>4. Inicial(f) \in Valores
  BY <1>2 DEF Valores
<1>5. EsCadena(fat, Inicial(f), Recorrido(Camino(fat, Inicial(f))))
  BY <1>3, <1>4, ChainOf
<1> QED  BY <1>2, <1>5, BlocksNow

\* ... and after a step ...
LEMMA ChainsNext ==
  ASSUME DiskTyping', NEW CONSTANT f \in File
  PROVE  Inicial(f)' \in Entradas /\ EsCadena(fat', Inicial(f)', Bloques(f)')
<1>1. fcb'[f].inicial \in Entradas
  BY Entries DEF DiskTyping, SinFcb
<1>2. Inicial(f)' \in Entradas
  BY <1>1 DEF DiskTyping, Inicial, Truncado, Ninguna
<1>3. fat' \in Tabla
  BY DEF DiskTyping, Tabla, Valores
<1>4. Inicial(f)' \in Valores
  BY <1>2 DEF Valores
<1>5. EsCadena(fat', Inicial(f)', Recorrido(Camino(fat', Inicial(f)')))
  BY <1>3, <1>4, ChainOf
<1>6. Bloques(f)' = Recorrido(Camino(fat', Inicial(f)'))
  BY BlocksNext
<1> QED  BY <1>2, <1>5, <1>6

\* ... and the only one.
LEMMA TheChainNext ==
  ASSUME DiskTyping', NEW CONSTANT f \in File, NEW c, EsCadena(fat', Inicial(f)', c)
  PROVE  Bloques(f)' = c
<1>1. EsCadena(fat', Inicial(f)', Bloques(f)')
  BY ChainsNext
<1> QED  BY <1>1, OneChain

\* What a truncation does to the FAT.
Cambio(d, mas, menos) ==
  LET f == truncando.archivo
      c == Bloques(f)
  IN /\ fat' \in Tabla /\ truncando'.inicial \in Entradas
     /\ Entera(fat', truncando'.inicial, d)
     /\ Sigue(d, c)
     /\ Ocupa(d) = (Ocupa(c) \cup mas) \ menos
     /\ menos \subseteq Ocupa(c) /\ mas \subseteq Entradas \ {0} /\ \A e \in mas : fat[e] = 0
     /\ \A e \in Entradas : e \notin Ocupa(c) \cup mas => fat'[e] = fat[e]
     /\ \A e \in Ocupa(c) \cup mas : fat'[e] = 0 <=> e \in menos
     /\ "full" \notin avisos' => Len(d) = CantBloques(truncando.tamanio)

\* The entries of a chain that ends are taken.
LEMMA Occupied ==
  ASSUME NEW t \in Tabla, NEW ini, NEW c, Entera(t, ini, c)
  PROVE  /\ Len(c) \in Nat /\ \A i \in 1..Len(c) : c[i] \in Entradas \ {0} /\ t[c[i]] # 0
         /\ Ocupa(c) \subseteq Entradas \ {0}
         /\ \A e \in Ocupa(c) : t[e] # 0
<1>1. Len(c) \in Nat /\ \A i \in 1..Len(c) : c[i] \in Entradas \ {0}
  BY LenProperties DEF Entera
<1>2. ASSUME NEW i \in 1..Len(c) PROVE t[c[i]] # 0
  <2>1. CASE i = Len(c)
    BY <1>1, <1>2, <2>1, Entries DEF Entera, Fin
  <2>2. CASE i # Len(c)
    <3>1. i \in 1..(Len(c) - 1) /\ i + 1 \in 1..Len(c)
      BY <1>1, <2>2
    <3> QED  BY <1>1, <3>1 DEF Entera
  <2> QED  BY <2>1, <2>2
<1> QED  BY <1>1, <1>2 DEF Ocupa

\* liberar_bloques_asignados cuts the end of the chain and frees what it cut.
LEMMA TruncateFrees ==
  ASSUME DiskTyping, DiskTyping', NEW c, NEW ini \in Entradas, NEW cant \in Nat,
         c = Bloques(truncando.archivo), c = CadenaDe(truncando.archivo),
         truncando \in Truncado, truncando.inicial = ini,
         Entera(fat, ini, c), Liberar(truncando.archivo, cant),
         Len(c) - cant = CantBloques(truncando.tamanio)
  PROVE  \E d, menos : Cambio(d, {}, menos)
<1> DEFINE m == Len(c) - cant
           d == SubSeq(c, 1, m)
           menos == {c[i] : i \in m + 1 .. Len(c)}
<1>1. m \in 0..Len(c) /\ Len(c) \in Nat
  <2>1. Len(c) \in Nat
    BY LenProperties DEF Entera
  <2>2. m \in Nat
    BY BlocksOfBytes DEF Truncado
  <2> QED  BY <2>1, <2>2
<1> HIDE DEF m
<1>2. /\ fat' = [e \in Entradas |->
           IF d # <<>> /\ e = Last(d) THEN Fin
           ELSE IF \E i \in Len(d) + 1 .. Len(c) : c[i] = e THEN 0 ELSE fat[e]]
      /\ truncando' = [truncando EXCEPT !.paso = "fcb", !.inicial = IF d = <<>> THEN 0 ELSE @]
  BY DEF Liberar, m
<1>3. d \in Seq(Entradas \ {0}) /\ Len(d) = m /\ \A i \in 1..m : d[i] = c[i]
  <2>1. c \in Seq(Entradas \ {0}) /\ \A i \in 1..Len(c) : c[i] \in Entradas \ {0}
    BY LenProperties DEF Entera
  <2>2. \A i \in 1..m : c[i] \in Entradas \ {0}
    BY <1>1, <2>1
  <2>3. /\ d \in Seq(Entradas \ {0})
        /\ Len(d) = IF 1 <= m THEN m - 1 + 1 ELSE 0
        /\ \A i \in 1..(m - 1 + 1) : d[i] = c[1 + i - 1]
    BY <1>1, <2>1, <2>2, SubSeqProperties
  <2> QED  BY <1>1, <2>3
<1> HIDE DEF d
<1>4. d = <<>> <=> m = 0
  BY <1>1, <1>3, EmptySeq
<1>5. m > 0 => Last(d) = c[m]
  BY <1>1, <1>3 DEF Last
<1>6. \A e \in Entradas : fat'[e] =
        IF m > 0 /\ e = c[m] THEN Fin
        ELSE IF \E i \in m + 1 .. Len(c) : c[i] = e THEN 0 ELSE fat[e]
  BY <1>1, <1>2, <1>3, <1>4, <1>5
<1>7. Entera(fat', IF m = 0 THEN 0 ELSE ini, d)
  BY <1>1, <1>6, ChainShrinks DEF d
<1>8. truncando'.inicial = (IF m = 0 THEN 0 ELSE ini) /\ truncando'.inicial \in Entradas
  <2>1. truncando'.inicial = IF m = 0 THEN 0 ELSE ini
    BY <1>2, <1>4 DEF Truncado
  <2> QED  BY <2>1, Entries
<1>9. fat \in Tabla /\ fat' \in Tabla
  BY DEF DiskTyping, Tabla, Valores
<1>10. /\ \A i \in 1..Len(c) : c[i] \in Entradas \ {0} /\ fat[c[i]] # 0
       /\ \A i, j \in 1..Len(c) : c[i] = c[j] => i = j
  <2>1. \A i \in 1..Len(c) : c[i] \in Entradas \ {0} /\ fat[c[i]] # 0
    BY <1>9, Occupied
  <2> QED  BY <2>1 DEF Entera, Distinta
<1>11. Ocupa(d) = Ocupa(c) \ menos
  <2>1. Ocupa(d) = {c[i] : i \in 1..m}
    BY <1>3 DEF Ocupa
  <2>2. \A i \in 1..Len(c) : (i \in 1..m \/ i \in m + 1 .. Len(c)) /\ ~(i \in 1..m /\ i \in m + 1 .. Len(c))
    BY <1>1
  <2>3. \A i \in 1..m : i \in 1..Len(c)
    BY <1>1
  <2>4. \A i \in m + 1 .. Len(c) : i \in 1..Len(c)
    BY <1>1
  <2>5. Ocupa(d) \subseteq Ocupa(c) \ menos
    <3> SUFFICES ASSUME NEW i \in 1..m PROVE c[i] \in Ocupa(c) \ menos
      BY <2>1
    <3>1. i \in 1..Len(c) /\ i \notin m + 1 .. Len(c)
      BY <2>2, <2>3
    <3>2. \A j \in m + 1 .. Len(c) : c[j] # c[i]
      BY <1>10, <2>4, <3>1
    <3> QED  BY <3>1, <3>2 DEF Ocupa
  <2>6. Ocupa(c) \ menos \subseteq Ocupa(d)
    <3> SUFFICES ASSUME NEW i \in 1..Len(c), c[i] \notin menos PROVE c[i] \in Ocupa(d)
      BY DEF Ocupa
    <3>1. i \in 1..m
      BY <2>2
    <3> QED  BY <2>1, <3>1
  <2> QED  BY <2>5, <2>6
<1>12. menos \subseteq Ocupa(c)
  <2>1. \A i \in m + 1 .. Len(c) : i \in 1..Len(c)
    BY <1>1
  <2> QED  BY <2>1 DEF Ocupa
<1>13. \A e \in Entradas : e \notin Ocupa(c) => fat'[e] = fat[e]
  <2>1. m > 0 => m \in 1..Len(c)
    BY <1>1
  <2>2. \A i \in m + 1 .. Len(c) : i \in 1..Len(c)
    BY <1>1
  <2> QED  BY <1>6, <2>1, <2>2 DEF Ocupa
<1>14. \A i \in 1..Len(c) : fat'[c[i]] = 0 <=> c[i] \in menos
  <2> TAKE i \in 1..Len(c)
  <2>1. c[i] \in Entradas /\ fat[c[i]] # 0
    BY <1>10
  <2>2. CASE m > 0 /\ i = m
    <3>1. fat'[c[i]] = Fin
      BY <1>6, <2>1, <2>2
    <3>2. c[i] \notin menos
      <4>1. \A j \in m + 1 .. Len(c) : j \in 1..Len(c) /\ j # i
        BY <1>1, <2>2
      <4> QED  BY <1>10, <4>1
    <3> QED  BY <3>1, <3>2, Entries DEF Fin
  <2>3. CASE ~(m > 0 /\ i = m)
    <3>1. ~(m > 0 /\ c[i] = c[m])
      <4>1. m > 0 => m \in 1..Len(c)
        BY <1>1
      <4> QED  BY <1>10, <2>3, <4>1
    <3>2. fat'[c[i]] = IF c[i] \in menos THEN 0 ELSE fat[c[i]]
      BY <1>6, <2>1, <3>1
    <3> QED  BY <2>1, <3>2
  <2> QED  BY <2>2, <2>3
<1>15. \A e \in Ocupa(c) : fat'[e] = 0 <=> e \in menos
  BY <1>14 DEF Ocupa
<1>16. Sigue(d, c)
  BY <1>1, <1>3 DEF Sigue
<1>17. Len(d) = CantBloques(truncando.tamanio)
  BY <1>3 DEF m
<1> HIDE DEF menos
<1>18. Cambio(d, {}, menos)
  BY <1>7, <1>8, <1>9, <1>11, <1>12, <1>13, <1>15, <1>16, <1>17 DEF Cambio
<1> QED  BY <1>18

\* asignar_bloques_nuevos adds free entries, in order, at the end of the chain.
LEMMA TruncateTakes ==
  ASSUME DiskTyping, DiskTyping', NEW c, NEW ini \in Entradas, NEW cant \in Nat \ {0},
         c = Bloques(truncando.archivo), c = CadenaDe(truncando.archivo),
         truncando \in Truncado, truncando.inicial = ini, fat[0] = Fin,
         Entera(fat, ini, c), Asignar(truncando.archivo, cant),
         Len(c) + cant = CantBloques(truncando.tamanio)
  PROVE  \E d, mas : Cambio(d, mas, {})
<1> DEFINE S == Nuevos(cant)
<1>1. /\ S # {}
      /\ fat' = [e \in Entradas |->
           IF c # <<>> /\ e = Last(c) THEN Min(S)
           ELSE IF e \notin S THEN fat[e]
           ELSE IF e = Max(S) THEN Fin ELSE Min({x \in S : x > e})]
      /\ truncando' = [truncando EXCEPT !.paso = "fcb", !.inicial = IF c = <<>> THEN Min(S) ELSE @]
      /\ avisos' = IF Cardinality(S) < cant THEN avisos \cup {"full"} ELSE avisos
  BY DEF Asignar
<1>2. S \in SUBSET (Entradas \ {0}) /\ \A e \in S : fat[e] = 0
  BY Entries DEF Nuevos, Libres, Fin
<1>3. Cardinality(S) \in Nat /\ Cardinality(S) <= cant
  BY NoMoreThanAsked
<1> HIDE DEF S
<1>4. PICK s : Ordenada(s, S)
  BY <1>2, InOrder
<1> DEFINE d == c \o s
<1>5. fat \in Tabla /\ fat' \in Tabla
  BY DEF DiskTyping, Tabla, Valores
<1>6. /\ Len(c) \in Nat /\ \A i \in 1..Len(c) : c[i] \in Entradas \ {0} /\ fat[c[i]] # 0
      /\ c \in Seq(Entradas \ {0})
  <2>1. Len(c) \in Nat /\ \A i \in 1..Len(c) : c[i] \in Entradas \ {0} /\ fat[c[i]] # 0
    BY <1>5, Occupied
  <2> QED  BY <2>1 DEF Entera
<1>7. (c # <<>> <=> Len(c) > 0) /\ Last(c) = c[Len(c)]
  BY <1>6, EmptySeq DEF Last
<1>8. Encadenadas(fat', fat, c, S)
  BY <1>1, <1>7 DEF Encadenadas
<1>9. Ocupa(c) \cap S = {}
  BY <1>2, <1>6 DEF Ocupa
<1> DEFINE first == IF Len(c) = 0 THEN Min(S) ELSE ini
<1>10. /\ Entera(fat', first, d) /\ Len(d) = Len(c) + Cardinality(S)
       /\ Ocupa(d) = Ocupa(c) \cup S /\ Sigue(d, c)
  <2>1. S # {} /\ S \subseteq Entradas \ {0}
    BY <1>1, <1>2
  <2>2. PICK x : x = first
    OBVIOUS
  <2>3. x = IF Len(c) = 0 THEN Min(S) ELSE ini
    BY <2>2
  <2> HIDE DEF first, d
  <2>4. Entera(fat', x, c \o s)
    BY <1>4, <1>8, <1>9, <2>1, <2>3, ChainGrows
  <2>5. Ocupa(c \o s) = Ocupa(c) \cup S
    BY <1>4, <1>8, <1>9, <2>1, <2>3, ChainGrows
  <2>6. Sigue(c \o s, c)
    BY <1>4, <1>8, <1>9, <2>1, <2>3, ChainGrows
  <2>7. Len(c \o s) = Len(c) + Cardinality(S)
    <3>1. c \in Seq(Entradas) /\ s \in Seq(Entradas)
      BY <1>4, <1>6, <2>1, SeqMonotonic DEF Ordenada
    <3>2. Len(c \o s) = Len(c) + Len(s)
      BY <3>1, ConcatProperties
    <3> QED  BY <1>4, <3>2 DEF Ordenada
  <2> QED  BY <2>2, <2>4, <2>5, <2>6, <2>7 DEF d
<1> HIDE DEF d
<1>11. truncando'.inicial = (IF Len(c) = 0 THEN Min(S) ELSE ini) /\ truncando'.inicial \in Entradas
  <2>1. truncando'.inicial = IF Len(c) = 0 THEN Min(S) ELSE ini
    BY <1>1, <1>6, <1>7 DEF Truncado
  <2>2. Min(S) \in Entradas
    BY <1>1, <1>2, Extremes
  <2> QED  BY <2>1, <2>2
<1>12. Ocupa(d) = Ocupa(c) \cup S
  BY <1>10
<1>13. \A e \in Entradas : e \notin Ocupa(c) \cup S => fat'[e] = fat[e]
  <2>1. Len(c) > 0 => Len(c) \in 1..Len(c)
    BY <1>6
  <2> QED  BY <1>8, <2>1 DEF Ocupa, Encadenadas
<1>14. \A e \in Ocupa(c) \cup S : fat'[e] # 0
  <2>1. \A e \in Ocupa(d) : fat'[e] # 0
    BY <1>5, <1>10, Occupied
  <2> QED  BY <1>12, <2>1
<1>15. "full" \notin avisos' => Len(d) = CantBloques(truncando.tamanio)
  <2>1. "full" \notin avisos' => Cardinality(S) = cant
    BY <1>1, <1>3
  <2> QED  BY <1>10, <2>1
<1>16. Cambio(d, S, {})
  <2>1. Sigue(d, c)
    BY <1>10
  <2>2. Entera(fat', truncando'.inicial, d)
    BY <1>10, <1>11
  <2> QED  BY <1>2, <1>5, <1>11, <1>12, <1>13, <1>14, <1>15, <2>1, <2>2 DEF Cambio
<1> QED  BY <1>16

\* What the write of the FAT leaves alone.
LEMMA TruncateStep ==
  ASSUME DiskTyping, DiskTyping', Resizing, TruncarFat
  PROVE  /\ truncando \in Truncado /\ truncando' \in Truncado
         /\ truncando # Ninguna /\ truncando' # Ninguna
         /\ truncando.paso = "fat" /\ truncando'.paso \in {"igual", "fcb"}
         /\ truncando'.archivo = truncando.archivo /\ truncando'.tamanio = truncando.tamanio
         /\ truncando'.paso = "igual" => truncando'.inicial = truncando.inicial
         /\ avisos \subseteq avisos'
         /\ UNCHANGED <<fcb, bloques, swapTocado>> /\ Creados' = Creados
         /\ Inicial(truncando.archivo) = truncando.inicial
         /\ CadenaDe(truncando.archivo) = Bloques(truncando.archivo)
         /\ \A g \in File :
              Inicial(g)' = IF g = truncando.archivo THEN truncando'.inicial ELSE Inicial(g)
<1> DEFINE f == truncando.archivo
<1>1. truncando \in Truncado /\ truncando.paso = "fat" /\ truncando # Ninguna
  BY DEF TruncarFat, DiskTyping, Ninguna
<1>2. UNCHANGED <<fcb, bloques, swapTocado>>
  BY DEF TruncarFat
<1>3. Creados' = Creados
  BY <1>2 DEF Creados, Existe
<1>4. PICK cant : \/ truncando' = [truncando EXCEPT !.paso = "igual"] /\ UNCHANGED <<fat, avisos>>
                  \/ Liberar(f, -cant)
                  \/ Asignar(f, cant) \/ AsignarSinLugar(f)
  BY DEF TruncarFat
<1>5. /\ avisos \subseteq avisos'
      /\ \/ truncando' = [truncando EXCEPT !.paso = "igual"]
         \/ \E i : truncando' = [truncando EXCEPT !.paso = "fcb", !.inicial = i]
  <2>1. CASE Liberar(f, -cant)
    BY <2>1, Zenon DEF Liberar
  <2>2. CASE Asignar(f, cant)
    <3>1. avisos \subseteq avisos'
      BY <2>2 DEF Asignar
    <3>2. \E i : truncando' = [truncando EXCEPT !.paso = "fcb", !.inicial = i]
      BY <2>2, Zenon DEF Asignar
    <3> QED  BY <3>1, <3>2
  <2>3. CASE AsignarSinLugar(f)
    <3>1. avisos \subseteq avisos'
      BY <2>3 DEF AsignarSinLugar
    <3>2. \E i : truncando' = [truncando EXCEPT !.paso = "fcb", !.inicial = i]
      BY <2>3, Zenon DEF AsignarSinLugar
    <3> QED  BY <3>1, <3>2
  <2> QED  BY <1>4, <2>1, <2>2, <2>3
<1>6. /\ truncando'.paso \in {"igual", "fcb"} /\ truncando'.archivo = f
      /\ truncando'.tamanio = truncando.tamanio
      /\ truncando'.paso = "igual" => truncando'.inicial = truncando.inicial
  BY <1>1, <1>5 DEF Truncado
<1>7. truncando' # Ninguna /\ truncando' \in Truncado
  <2>1. truncando' # Ninguna
    BY <1>6 DEF Ninguna
  <2> QED  BY <2>1 DEF DiskTyping
<1>8. Inicial(f) = truncando.inicial /\ truncando.inicial = fcb[f].inicial
  BY <1>1 DEF Resizing, Inicial
<1>9. ASSUME NEW g \in File, g = f PROVE Inicial(g)' = truncando'.inicial
  <2>1. Inicial(g)' = IF truncando'.paso = "fcb" /\ truncando'.archivo = g THEN truncando'.inicial ELSE fcb'[g].inicial
    BY DEF Inicial
  <2>2. fcb'[g].inicial = truncando.inicial
    BY <1>2, <1>8, <1>9
  <2> QED  BY <1>6, <1>9, <2>1, <2>2
<1>10. ASSUME NEW g \in File, g # f PROVE Inicial(g)' = Inicial(g)
  BY <1>2, <1>6, <1>10 DEF Inicial
<1>11. CadenaDe(f) = Bloques(f)
  BY <1>8 DEF CadenaDe, Bloques
<1> QED  BY <1>1, <1>2, <1>3, <1>5, <1>6, <1>7, <1>8, <1>9, <1>10, <1>11

\* Whatever truncar_archivo does to the FAT, it is a Cambio of one chain.
LEMMA TruncateChanges ==
  ASSUME DiskTyping, DiskTyping', Resizing, Existing, Chained, TruncarFat,
         SinAviso({"zeroed", "noroom"})'
  PROVE  /\ SinAviso({"zeroed", "noroom"}) /\ truncando.archivo \in Creados
         /\ \E d, mas, menos : Cambio(d, mas, menos)
<1> DEFINE f == truncando.archivo
           c == Bloques(f)
           ini == truncando.inicial
           n == CantBloques(truncando.tamanio)
<1>1. /\ truncando \in Truncado /\ truncando' \in Truncado /\ truncando # Ninguna
      /\ truncando.paso = "fat" /\ avisos \subseteq avisos' /\ CadenaDe(f) = c
      /\ Inicial(f) = ini /\ f \in File /\ ini \in Entradas /\ truncando.tamanio \in Nat
  <2>1. truncando \in Truncado
    BY TruncateStep
  <2> QED  BY <2>1, TruncateStep DEF Truncado
<1>2. SinAviso({"zeroed", "noroom"})
  BY <1>1 DEF SinAviso
<1>3. f \in Creados
  BY <1>1 DEF Resizing, Existing, Creados
<1>4. fat[0] = Fin /\ Entera(fat, ini, c)
  BY <1>1, <1>2, <1>3 DEF Chained
<1>5. Len(c) \in Nat /\ n \in Nat
  BY <1>1, <1>4, LenProperties, BlocksOfBytes DEF Entera
<1>6. PICK cant : cant = n - Len(c) /\ cant \in Int
  BY <1>5
<1>7. \/ cant = 0 /\ truncando' = [truncando EXCEPT !.paso = "igual"] /\ UNCHANGED <<fat, avisos>>
      \/ cant < 0 /\ Liberar(f, -cant)
      \/ cant > 0 /\ (Asignar(f, cant) \/ AsignarSinLugar(f))
  BY <1>1, <1>6 DEF TruncarFat, Asignados
<1>8. CASE cant = 0 /\ truncando' = [truncando EXCEPT !.paso = "igual"] /\ UNCHANGED <<fat, avisos>>
  <2>1. truncando'.inicial = ini
    BY <1>1, <1>8 DEF Truncado
  <2>2. fat' \in Tabla /\ fat \in Tabla
    BY DEF DiskTyping, Tabla, Valores
  <2>3. \A e \in Ocupa(c) : fat[e] # 0
    BY <1>4, <2>2, Occupied
  <2>4. Len(c) = n
    BY <1>5, <1>6, <1>8
  <2>5. Sigue(c, c) /\ fat' = fat
    BY <1>8 DEF Sigue
  <2>6. Entera(fat', truncando'.inicial, c) /\ truncando'.inicial \in Entradas
    BY <1>1, <1>4, <1>8, <2>1, <2>5
  <2> HIDE DEF c, n
  <2>7. Cambio(c, {}, {})
    <3>1. Ocupa(c) = (Ocupa(c) \cup {}) \ {}
      OBVIOUS
    <3>2. \A e \in Ocupa(c) \cup {} : fat'[e] = 0 <=> e \in {}
      BY <2>3, <2>5
    <3> QED  BY <2>2, <2>4, <2>5, <2>6, <3>1, <3>2 DEF Cambio, c, n
  <2> QED  BY <1>2, <1>3, <2>7
<1>9. CASE cant < 0 /\ Liberar(f, -cant)
  <2>1. -cant \in Nat /\ Len(c) - (-cant) = n
    BY <1>5, <1>6, <1>9
  <2> HIDE DEF c, n
  <2>2. \E d, menos : Cambio(d, {}, menos)
    BY <1>1, <1>4, <1>9, <2>1, TruncateFrees DEF c, n
  <2> QED  BY <1>2, <1>3, <2>2
<1>10. CASE cant > 0 /\ Asignar(f, cant)
  <2>1. cant \in Nat \ {0} /\ Len(c) + cant = n
    BY <1>5, <1>6, <1>10
  <2>2. \E d, mas : Cambio(d, mas, {})
    BY <1>1, <1>4, <1>10, <2>1, TruncateTakes
  <2> QED  BY <1>2, <1>3, <2>2
<1>11. CASE AsignarSinLugar(f)
  <2>1. "noroom" \in avisos'
    BY <1>11 DEF AsignarSinLugar
  <2> QED  BY <2>1 DEF SinAviso
<1> QED  BY <1>7, <1>8, <1>9, <1>10, <1>11

\* The blocks of the files after a truncation.
LEMMA BlocksAfterTruncate ==
  ASSUME DiskTyping, DiskTyping', Resizing, Existing, Chained, TruncarFat,
         SinAviso({"zeroed", "noroom"}),
         NEW CONSTANT f \in File, f = truncando.archivo, f \in Creados,
         NEW d, NEW mas, NEW menos, Cambio(d, mas, menos)
  PROVE  /\ fat'[0] = Fin
         /\ Bloques(f)' = d /\ Entera(fat', Inicial(f)', d)
         /\ \A g \in Creados : g # f =>
              /\ Bloques(g)' = Bloques(g) /\ Entera(fat', Inicial(g)', Bloques(g))
              /\ mas \cap Ocupa(Bloques(g)) = {}
<1>1. f = truncando.archivo /\ f \in Creados
  OBVIOUS
<1>2. /\ Inicial(f)' = truncando'.inicial
      /\ \A g \in File : g # f => Inicial(g)' = Inicial(g)
  BY <1>1, TruncateStep
<1>3. PICK c : c = Bloques(f)
  OBVIOUS
<1>4. /\ fat' \in Tabla /\ truncando'.inicial \in Entradas
      /\ Entera(fat', truncando'.inicial, d)
      /\ mas \subseteq Entradas \ {0} /\ \A e \in mas : fat[e] = 0
      /\ \A e \in Entradas : e \notin Ocupa(c) \cup mas => fat'[e] = fat[e]
  BY <1>1, <1>3 DEF Cambio
<1>5. /\ fat[0] = Fin /\ fat \in Tabla
      /\ \A g \in Creados : Entera(fat, Inicial(g), Bloques(g))
      /\ \A g \in Creados : g # f => Ocupa(c) \cap Ocupa(Bloques(g)) = {}
  BY <1>1, <1>3 DEF Chained, DiskTyping, Tabla, Valores
<1>6. fat'[0] = Fin
  <2>1. Ocupa(c) \subseteq Entradas \ {0}
    BY <1>1, <1>3, <1>5, Occupied
  <2> QED  BY <1>4, <1>5, <2>1, Entries
<1>7. Bloques(f)' = d
  <2>1. EsCadena(fat', Inicial(f)', d)
    BY <1>2, <1>4, WholeIsChain
  <2> QED  BY <2>1, TheChainNext
<1>8. ASSUME NEW g \in Creados, g # f
      PROVE  /\ Bloques(g)' = Bloques(g) /\ Entera(fat', Inicial(g)', Bloques(g))
             /\ mas \cap Ocupa(Bloques(g)) = {}
  <2>1. PICK b : b = Bloques(g)
    OBVIOUS
  <2>2. g \in File /\ Entera(fat, Inicial(g), b) /\ Inicial(g)' = Inicial(g)
    BY <1>2, <1>5, <1>8, <2>1 DEF Creados
  <2>3. /\ \A e \in Ocupa(b) : fat[e] # 0
        /\ Ocupa(b) \subseteq Entradas \ {0}
    BY <1>5, <2>2, Occupied
  <2>4. mas \cap Ocupa(b) = {}
    BY <1>4, <2>3
  <2>5. \A e \in Ocupa(b) : fat'[e] = fat[e]
    BY <1>4, <1>5, <1>8, <2>1, <2>3, <2>4
  <2>6. \A i \in 1..Len(b) : fat'[b[i]] = fat[b[i]]
    BY <2>5 DEF Ocupa
  <2>7. Entera(fat', Inicial(g), b)
    BY <2>2, <2>6, SameWhole
  <2>8. Inicial(g)' \in Entradas
    BY <2>2, ChainsNow
  <2>9. EsCadena(fat', Inicial(g)', b)
    BY <2>2, <2>7, <2>8, WholeIsChain
  <2>10. Bloques(g)' = b
    BY <2>2, <2>9, TheChainNext
  <2> QED  BY <2>1, <2>2, <2>4, <2>7, <2>10
<1> QED  BY <1>1, <1>2, <1>4, <1>6, <1>7, <1>8

\* The chains stay apart, the entries accounted for and the lengths right.
LEMMA TruncateKeeps ==
  ASSUME DiskTyping, DiskTyping', Resizing, Existing, Chained, Claimed, Sized, TruncarFat
  PROVE  Chained' /\ Claimed' /\ Sized'
<1>1. SUFFICES ASSUME SinAviso({"zeroed", "noroom"})'
               PROVE  Chained' /\ Claimed' /\ Sized'
  BY DEF Chained, Claimed, Sized, SinAviso
<1>2. SinAviso({"zeroed", "noroom"}) /\ truncando.archivo \in Creados
  BY TruncateChanges, <1>1
<1>3. PICK d, mas, menos : Cambio(d, mas, menos)
  BY TruncateChanges, <1>1
<1>4. PICK f \in File : f = truncando.archivo /\ f \in Creados
  BY <1>2 DEF Creados
<1>5. PICK c : c = Bloques(f)
  OBVIOUS
<1>6. /\ truncando.paso = "fat" /\ truncando'.paso \in {"igual", "fcb"} /\ truncando' # Ninguna
      /\ truncando # Ninguna /\ truncando'.archivo = f /\ truncando'.tamanio = truncando.tamanio
      /\ truncando'.paso = "igual" => truncando'.inicial = truncando.inicial
      /\ avisos \subseteq avisos' /\ fcb' = fcb /\ Creados' = Creados
  BY <1>4, TruncateStep
<1>7. /\ fat'[0] = Fin /\ Bloques(f)' = d /\ Entera(fat', Inicial(f)', d)
      /\ \A g \in Creados : g # f => /\ Bloques(g)' = Bloques(g) /\ Entera(fat', Inicial(g)', Bloques(g))
                                     /\ mas \cap Ocupa(Bloques(g)) = {}
  BY <1>2, <1>3, <1>4, BlocksAfterTruncate
<1>8. /\ fat' \in Tabla /\ Ocupa(d) = (Ocupa(c) \cup mas) \ menos
      /\ menos \subseteq Ocupa(c) /\ mas \subseteq Entradas \ {0}
      /\ \A e \in Entradas : e \notin Ocupa(c) \cup mas => fat'[e] = fat[e]
      /\ \A e \in Ocupa(c) \cup mas : fat'[e] = 0 <=> e \in menos
      /\ "full" \notin avisos' => Len(d) = CantBloques(truncando.tamanio)
  BY <1>3, <1>4, <1>5 DEF Cambio
<1>9. /\ \A g, h \in Creados : g # h => Ocupa(Bloques(g)) \cap Ocupa(Bloques(h)) = {}
      /\ \A g \in Creados : Entera(fat, Inicial(g), Bloques(g))
  BY <1>2 DEF Chained
<1>10. Chained'
  <2>1. \A g \in Creados' : Entera(fat', Inicial(g)', Bloques(g)')
    BY <1>6, <1>7
  <2>2. ASSUME NEW g \in Creados, g # f PROVE Ocupa(d) \cap Ocupa(Bloques(g)) = {}
    BY <1>4, <1>5, <1>7, <1>8, <1>9, <2>2
  <2>3. \A g, h \in Creados' : g # h => Ocupa(Bloques(g)') \cap Ocupa(Bloques(h)') = {}
    <3> TAKE g, h \in Creados'
    <3> HAVE g # h
    <3>1. CASE g = f
      BY <1>6, <1>7, <2>2, <3>1
    <3>2. CASE h = f
      BY <1>6, <1>7, <2>2, <3>2
    <3>3. CASE g # f /\ h # f
      BY <1>6, <1>7, <1>9, <3>3
    <3> QED  BY <3>1, <3>2, <3>3
  <2>4. \A g, h \in Creados' : g # h => (Ocupa(Bloques(g)) \cap Ocupa(Bloques(h)))' = {}
    BY <2>3 DEF Ocupa
  <2> QED  BY <1>7, <2>1, <2>3 DEF Chained, Ocupa, Entera
<1>11. Claimed'
  <2>1. SUFFICES ASSUME SinAviso({"zeroed", "torn", "noroom"})'
                 PROVE  Tomadas' = UNION {Ocupa(Bloques(g)') : g \in Creados}
    BY <1>6 DEF Claimed, Ocupa
  <2>2. Tomadas = UNION {Ocupa(Bloques(g)) : g \in Creados}
    BY <1>6, <2>1 DEF Claimed, SinAviso
  <2>3. Tomadas' = (Tomadas \cup mas) \ menos
    <3>1. Ocupa(c) \subseteq Tomadas
      BY <1>4, <1>5, <2>2
    <3>2. \A e \in Entradas \ {0} : fat'[e] # 0 <=> (e \in Tomadas \cup mas /\ e \notin menos)
      BY <1>8, <3>1 DEF Tomadas
    <3> QED  BY <1>8, <3>2 DEF Tomadas
  <2>4. UNION {Ocupa(Bloques(g)') : g \in Creados}
          = Ocupa(d) \cup UNION {Ocupa(Bloques(g)) : g \in Creados \ {f}}
    BY <1>4, <1>7
  <2>5. UNION {Ocupa(Bloques(g)) : g \in Creados}
          = Ocupa(c) \cup UNION {Ocupa(Bloques(g)) : g \in Creados \ {f}}
    BY <1>4, <1>5
  <2>6. menos \cap UNION {Ocupa(Bloques(g)) : g \in Creados \ {f}} = {}
    BY <1>4, <1>5, <1>8, <1>9
  <2> QED  BY <1>8, <2>2, <2>3, <2>4, <2>5, <2>6
<1>12. Sized'
  <2>1. SUFFICES ASSUME SinAviso({"zeroed", "torn", "full", "noroom"})'
                 PROVE  /\ \A g \in Creados : (~EnTruncado(g))' \/ truncando'.paso \in {"fat", "igual"} =>
                             Len(Bloques(g)') = CantBloques(fcb'[g].tamanio)
                        /\ Len(Bloques(f)') = CantBloques(truncando.tamanio)
    BY <1>6 DEF Sized, CantBloques
  <2>2. Len(d) = CantBloques(truncando.tamanio)
    BY <1>8, <2>1 DEF SinAviso
  <2>3. \A g \in Creados : Len(Bloques(g)) = CantBloques(fcb[g].tamanio)
    BY <1>6, <2>1 DEF Sized, SinAviso
  <2>4. ASSUME NEW g \in Creados, (~EnTruncado(g))' \/ truncando'.paso \in {"fat", "igual"}
        PROVE  Len(Bloques(g)') = CantBloques(fcb'[g].tamanio)
    <3>1. CASE g = f
      <4>1. truncando'.paso = "igual"
        BY <1>6, <2>4, <3>1 DEF EnTruncado
      <4>2. Bloques(f)' = c
        <5>1. truncando' = [truncando EXCEPT !.paso = "igual"] /\ fat' = fat
          BY <4>1 DEF TruncarFat, Liberar, Asignar, AsignarSinLugar, DiskTyping, Ninguna, Truncado
        <5>2. Inicial(f)' = Inicial(f)
          BY <1>4, <1>6, <4>1, TruncateStep
        <5> QED  BY <1>5, <5>1, <5>2, BlocksNow, BlocksNext
      <4> QED  BY <1>5, <1>6, <2>3, <3>1, <4>2
    <3>2. CASE g # f
      BY <1>6, <1>7, <2>3, <3>2
    <3> QED  BY <3>1, <3>2
  <2> QED  BY <1>7, <2>2, <2>4
<1> QED  BY <1>10, <1>11, <1>12

------------------------------------------------------------------------------
(* What exists.                                                              *)

\* The pointer of a write is one.
Asked == llamada # SinLlamada /\ llamada.op = "F_WRITE" => llamada.arg \in Nat

\* After a close the files in the tables are those that were there, or the same.
LEMMA CloseFiles ==
  ASSUME LockTyping, Absent, Queued, NEW p \in Process, NEW f \in File, Cierre(p, f)
  PROVE  /\ llamada' = llamada
         /\ open_files' = [open_files EXCEPT ![f] = open_files'[f]]
         /\ \A q \in Process : \A i \in 1..Len(archivos'[q]) :
              \/ archivos'[q][i].archivo = f
              \/ \E j \in 1..Len(archivos[q]) : archivos'[q][i].archivo = archivos[q][j].archivo
<1>1. PICK k \in Nat, n \in Nat : Devuelto(p, f, k, n) /\ Entregado(p, f, k, n)
  BY CloseCases
<1>2. kernel = "up" /\ estado[p] = "listo" /\ llamada' = llamada
  BY CloseCases
<1>3. open_files' = [open_files EXCEPT ![f] = open_files'[f]] /\ k \in 1..Len(archivos[p])
  BY <1>1 DEF Devuelto
<1> DEFINE T == SinEntradaK(p, k)
           G == Primeros(f, n)
           r(q) == [archivo |-> f, modo |-> pending_file[q][2], puntero |-> 0]
<1>4. T \in Tablas /\ G \subseteq Process /\ \A q \in Process : q # p => T[q] = archivos[q]
  BY <1>1, <1>2, CloseTables
<1>5. T[p] = RemoveAt(archivos[p], k)
  BY DEF SinEntradaK, LockTyping, Tablas
<1> HIDE DEF T, G
<1>6. ASSUME NEW q \in Process, NEW i \in 1..Len(T[q])
      PROVE  \E j \in 1..Len(archivos[q]) : T[q][i].archivo = archivos[q][j].archivo
  <2>1. archivos[p] \in Seq(Apertura) /\ Len(archivos[p]) \in Nat
    BY LenProperties DEF LockTyping, Tablas
  <2>2. CASE q = p
    <3>1. /\ Len(T[p]) = Len(archivos[p]) - 1
          /\ \A j \in 1..(Len(archivos[p]) - 1) :
               T[p][j] = IF j < k THEN archivos[p][j] ELSE archivos[p][j + 1]
      BY <1>3, <1>5, <2>1, RemoveAtShifts
    <3>2. i \in 1..(Len(archivos[p]) - 1) /\ i \in 1..Len(archivos[p]) /\ i + 1 \in 1..Len(archivos[p])
      BY <1>6, <2>1, <2>2, <3>1
    <3>3. T[p][i] = archivos[p][i] \/ T[p][i] = archivos[p][i + 1]
      BY <3>1, <3>2
    <3> QED  BY <2>2, <3>2, <3>3
  <2>3. CASE q # p
    BY <1>4, <1>6, <2>3
  <2> QED  BY <2>2, <2>3
<1>7. ASSUME NEW q \in Process, NEW i \in 1..Len(archivos'[q])
      PROVE  \/ archivos'[q][i].archivo = f
             \/ \E j \in 1..Len(archivos[q]) : archivos'[q][i].archivo = archivos[q][j].archivo
  <2>1. archivos'[q] = T[q] \/ (q \in G /\ archivos'[q] = Append(T[q], r(q)))
    BY <1>1 DEF Entregado, T, G
  <2>2. CASE archivos'[q] = T[q]
    <3>1. i \in 1..Len(T[q]) /\ archivos'[q][i] = T[q][i]
      BY <1>7, <2>2
    <3>2. PICK j \in 1..Len(archivos[q]) : T[q][i].archivo = archivos[q][j].archivo
      BY <1>6, <3>1
    <3> QED  BY <3>1, <3>2
  <2>3. CASE archivos'[q] = Append(T[q], r(q)) /\ q \in G
    <3>1. T[q] \in Seq(Apertura) /\ pending_file[q][2] \in Modo
      <4>1. n \in 0..Len(open_files[f].cola)
        BY <1>1 DEF Devuelto
      <4> QED  BY <1>2, <1>4, <2>3, <4>1, EverybodyIsPending DEF Tablas, G
    <3>2. r(q) \in Apertura /\ r(q).archivo = f
      BY <3>1 DEF Apertura
    <3> HIDE DEF r
    <3>3. /\ Len(Append(T[q], r(q))) = Len(T[q]) + 1
          /\ Append(T[q], r(q))[Len(T[q]) + 1] = r(q)
          /\ \A j \in 1..Len(T[q]) : Append(T[q], r(q))[j] = T[q][j]
          /\ Len(T[q]) \in Nat
      BY <3>1, <3>2, AppendProperties, LenProperties
    <3>4. i = Len(T[q]) + 1 \/ i \in 1..Len(T[q])
      BY <1>7, <2>3, <3>3
    <3> QED  BY <1>6, <2>3, <3>2, <3>3, <3>4
  <2> QED  BY <2>1, <2>2, <2>3
<1> QED  BY <1>2, <1>3, <1>7

\* After an open too.
LEMMA OpenFiles ==
  ASSUME LockTyping, Absent, NEW p \in Process, NEW f \in File, NEW modo \in Modo, FOpen(p, f, modo)
  PROVE  /\ llamada' = llamada
         /\ open_files' = [open_files EXCEPT ![f] = open_files'[f]]
         /\ \A q \in Process : \A i \in 1..Len(archivos'[q]) :
              \/ archivos'[q][i].archivo = f
              \/ \E j \in 1..Len(archivos[q]) : archivos'[q][i].archivo = archivos[q][j].archivo
<1> DEFINE r == [archivo |-> f, modo |-> modo, puntero |-> 0]
<1>1. /\ llamada' = llamada
      /\ open_files' = [open_files EXCEPT ![f] = open_files'[f]]
      /\ archivos' = archivos \/ archivos' = [archivos EXCEPT ![p] = Append(@, r)]
  <2>1. llamada' = llamada
    BY DEF FOpen
  <2>2. PICK x : open_files' = [open_files EXCEPT ![f] = x]
    BY DEF FOpen
  <2>3. open_files' = [open_files EXCEPT ![f] = open_files'[f]]
    BY <2>2 DEF LockTyping
  <2>4. archivos' = archivos \/ archivos' = [archivos EXCEPT ![p] = Append(@, r)]
    BY DEF FOpen, ConArchivo
  <2> QED  BY <2>1, <2>3, <2>4
<1>2. ASSUME NEW q \in Process, NEW i \in 1..Len(archivos'[q])
      PROVE  \/ archivos'[q][i].archivo = f
             \/ \E j \in 1..Len(archivos[q]) : archivos'[q][i].archivo = archivos[q][j].archivo
  <2>1. CASE archivos'[q] = archivos[q]
    BY <1>2, <2>1
  <2>2. CASE archivos'[q] = Append(archivos[q], r)
    <3>1. archivos[q] \in Seq(Apertura) /\ r \in Apertura /\ r.archivo = f
      BY DEF LockTyping, Tablas, Apertura
    <3> HIDE DEF r
    <3>2. /\ Len(Append(archivos[q], r)) = Len(archivos[q]) + 1
          /\ Append(archivos[q], r)[Len(archivos[q]) + 1] = r
          /\ \A j \in 1..Len(archivos[q]) : Append(archivos[q], r)[j] = archivos[q][j]
          /\ Len(archivos[q]) \in Nat
      BY <3>1, AppendProperties, LenProperties
    <3>3. i = Len(archivos[q]) + 1 \/ i \in 1..Len(archivos[q])
      BY <1>2, <2>2, <3>2
    <3> QED  BY <2>2, <3>1, <3>2, <3>3
  <2>3. archivos'[q] = archivos[q] \/ archivos'[q] = Append(archivos[q], r)
    BY <1>1 DEF LockTyping, Tablas
  <2> QED  BY <2>1, <2>2, <2>3
<1> QED  BY <1>1, <1>2

\* Nothing makes a file disappear.
LEMMA ExistsStays ==
  ASSUME LockTyping, DiskTyping, [Next]_vars, NEW f \in File, Existe(f)
  PROVE  Existe(f)'
<1>1. ASSUME fcb' = fcb PROVE Existe(f)'
  BY <1>1 DEF Existe
<1>2. ASSUME NEW g \in File, Crear(g) PROVE Existe(f)'
  <2>1. [tamanio |-> 0, inicial |-> 0] # SinFcb
    BY DEF SinFcb
  <2> QED  BY <1>2, <2>1 DEF Crear, Existe, DiskTyping
<1>3. ASSUME TruncarFcb PROVE Existe(f)'
  <2>1. truncando \in Truncado
    BY <1>3 DEF TruncarFcb, DiskTyping, Ninguna
  <2>2. [tamanio |-> truncando.tamanio, inicial |-> truncando.inicial] # SinFcb
    BY <2>1 DEF SinFcb, Truncado
  <2> QED  BY <1>3, <2>2 DEF TruncarFcb, Existe, DiskTyping
<1>4. ASSUME NEW g \in File, AbrirOCrear(g) PROVE Existe(f)'
  BY <1>1, <1>2, <1>4 DEF AbrirOCrear, fatVars
<1>5. ASSUME NEW p \in carga.procesos, NEW g \in carga.archivos, Call(p, g)
      PROVE  Existe(f)'
  <2>1. g \in File
    BY FilesAssumption DEF LockTyping
  <2> QED  BY <1>1, <1>4, <1>5, <2>1 DEF Call, Open, Close, Read, Write, Seek, Truncate, fatVars
<1>6. CASE ServeTruncate
  <2>1. fcb' = fcb \/ TruncarFcb
    BY <1>6 DEF ServeTruncate, TruncarFat
  <2> QED  BY <1>1, <1>3, <2>1
<1>7. CASE ServeRead \/ ServeWrite \/ Restart \/ UNCHANGED vars \/ \E p \in carga.procesos : End(p)
  <2>1. fcb' = fcb
    BY <1>7 DEF ServeRead, Leer, ServeWrite, Escribir, Restart, Reinicio, vars, End, fatVars
  <2> QED  BY <1>1, <2>1
<1> QED  BY <1>5, <1>6, <1>7 DEF Next, Step

\* A file that was opened or created exists.
LEMMA CreatedExists ==
  ASSUME LockTyping, DiskTyping, Existing, [Next]_vars, NEW f \in File, AbrirOCrear(f)
  PROVE  Existe(f)'
<1>1. CASE Existe(f)
  BY <1>1, ExistsStays
<1>2. CASE ~Existe(f)
  <2>1. Crear(f)
    BY <1>2 DEF AbrirOCrear, Existing
  <2>2. [tamanio |-> 0, inicial |-> 0] # SinFcb
    BY DEF SinFcb
  <2> QED  BY <2>1, <2>2 DEF Crear, Existe, DiskTyping
<1> QED  BY <1>1, <1>2

\* What a process has open exists, and so do its pointers.
LEMMA OpenExists ==
  ASSUME LockTyping, Existing, NEW p \in Process, NEW f \in File, Tiene(p, f)
  PROVE  Existe(f) /\ archivos[p][Primera(p, f)].puntero \in Nat
<1>1. Primera(p, f) \in 1..Len(archivos[p]) /\ archivos[p][Primera(p, f)].archivo = f
  BY FirstPlace
<1>2. archivos[p][Primera(p, f)] \in Apertura
  BY <1>1, LenProperties DEF LockTyping, Tablas
<1> QED  BY <1>1, <1>2 DEF Existing, Apertura

\* The files in the tables and in the requests go on existing.
LEMMA ExistingKeeps ==
  ASSUME LockTyping, Absent, Queued, DiskTyping, Existing, Asked, [Next]_vars
  PROVE  Existing' /\ Asked'
<1>1. \A f \in File : Existe(f) => Existe(f)'
  BY ExistsStays
<1>2. ASSUME NEW f \in File, Existe(f)',
             open_files' = open_files \/ open_files' = [open_files EXCEPT ![f] = open_files'[f]],
             \A q \in Process : \A i \in 1..Len(archivos'[q]) :
               \/ archivos'[q][i].archivo = f
               \/ \E j \in 1..Len(archivos[q]) : archivos'[q][i].archivo = archivos[q][j].archivo
      PROVE  /\ \A g \in File : open_files'[g].hay => Existe(g)'
             /\ \A q \in Process : \A i \in 1..Len(archivos'[q]) : (Existe(archivos[q][i].archivo))'
  <2>1. \A g \in File : g # f => open_files'[g] = open_files[g]
    BY <1>2 DEF LockTyping
  <2>2. \A g \in File : open_files'[g].hay => Existe(g)'
    BY <1>1, <1>2, <2>1 DEF Existing
  <2>3. ASSUME NEW q \in Process, NEW i \in 1..Len(archivos'[q])
        PROVE  (Existe(archivos[q][i].archivo))'
    <3>1. CASE archivos'[q][i].archivo = f
      BY <1>2, <3>1 DEF Existe
    <3>2. ASSUME NEW j \in 1..Len(archivos[q]), archivos'[q][i].archivo = archivos[q][j].archivo
          PROVE  (Existe(archivos[q][i].archivo))'
      <4>1. archivos[q][j] \in Apertura
        BY LenProperties DEF LockTyping, Tablas
      <4>2. PICK g \in File : g = archivos[q][j].archivo
        BY <4>1 DEF Apertura
      <4>3. Existe(g)
        BY <4>2 DEF Existing
      <4>4. Existe(g)'
        BY <1>1, <4>3
      <4> QED  BY <3>2, <4>2, <4>4 DEF Existe
    <3> QED  BY <1>2, <3>1, <3>2
  <2> QED  BY <2>2, <2>3
<1>3. ASSUME UNCHANGED archivos
      PROVE  \A f \in File : \A q \in Process : \A i \in 1..Len(archivos'[q]) :
               \/ archivos'[q][i].archivo = f
               \/ \E j \in 1..Len(archivos[q]) : archivos'[q][i].archivo = archivos[q][j].archivo
  BY <1>3
<1>4. ASSUME llamada' = llamada
      PROVE  (llamada' # SinLlamada => Existe(llamada.archivo)') /\ Asked'
  <2>1. ASSUME llamada # SinLlamada PROVE Existe(llamada.archivo)'
    <3>1. PICK g \in File : g = llamada.archivo
      BY <2>1 DEF LockTyping
    <3>2. Existe(g)'
      BY <1>1, <2>1, <3>1 DEF Existing
    <3> QED  BY <1>4, <3>1, <3>2 DEF Existe
  <2> QED  BY <1>4, <2>1 DEF Asked
<1>5. ASSUME UNCHANGED lockVars PROVE Existing' /\ Asked'
  <2>1. \A g \in File : open_files'[g].hay => Existe(g)'
    BY <1>1, <1>5 DEF lockVars, tableVars, Existing
  <2>2. ASSUME NEW q \in Process, NEW i \in 1..Len(archivos'[q])
        PROVE  (Existe(archivos[q][i].archivo))'
    <3>1. i \in 1..Len(archivos[q]) /\ archivos' = archivos
      BY <1>5, <2>2 DEF lockVars, tableVars
    <3>2. archivos[q][i] \in Apertura
      BY <3>1, LenProperties DEF LockTyping, Tablas
    <3>3. PICK g \in File : g = archivos[q][i].archivo
      BY <3>2 DEF Apertura
    <3>4. Existe(g)'
      BY <1>1, <3>1, <3>3 DEF Existing
    <3> QED  BY <3>1, <3>3, <3>4 DEF Existe
  <2>3. llamada' = llamada
    BY <1>5 DEF lockVars
  <2> QED  BY <1>4, <2>1, <2>2, <2>3 DEF Existing
<1>6. ASSUME Respuesta PROVE Existing' /\ Asked'
  <2>1. PICK g \in File : g = llamada.archivo /\ Existe(g)
    BY <1>6 DEF Respuesta, LockTyping, Existing
  <2>2. /\ Existe(g)' /\ open_files' = [open_files EXCEPT ![g] = GetFile(g)]
        /\ archivos' = archivos /\ llamada' = SinLlamada
    BY <1>1, <1>6, <2>1 DEF Respuesta
  <2>3. open_files' = [open_files EXCEPT ![g] = open_files'[g]]
    BY <2>2 DEF LockTyping
  <2>4. /\ \A h \in File : open_files'[h].hay => Existe(h)'
        /\ \A q \in Process : \A i \in 1..Len(archivos'[q]) : (Existe(archivos[q][i].archivo))'
    BY <1>2, <1>3, <2>2, <2>3
  <2> QED  BY <2>2, <2>4 DEF Existing, Asked
<1>7. ASSUME NEW p \in carga.procesos, NEW f \in carga.archivos, Call(p, f)
      PROVE  Existing' /\ Asked'
  <2>0. p \in Process /\ f \in File /\ carga.modos \subseteq Modo /\ carga.punteros \subseteq Nat
    BY FilesAssumption DEF LockTyping
  <2>1. ASSUME NEW modo \in carga.modos, Open(p, f, modo) PROVE Existing' /\ Asked'
    <3>1. modo \in Modo /\ FOpen(p, f, modo) /\ AbrirOCrear(f)
      BY <2>0, <2>1 DEF Open
    <3>2. Existe(f)'
      BY <2>0, <3>1, CreatedExists
    <3>3. /\ llamada' = llamada
          /\ open_files' = [open_files EXCEPT ![f] = open_files'[f]]
          /\ \A q \in Process : \A i \in 1..Len(archivos'[q]) :
               \/ archivos'[q][i].archivo = f
               \/ \E j \in 1..Len(archivos[q]) : archivos'[q][i].archivo = archivos[q][j].archivo
      BY <2>0, <3>1, OpenFiles
    <3>4. /\ \A h \in File : open_files'[h].hay => Existe(h)'
          /\ \A q \in Process : \A i \in 1..Len(archivos'[q]) : (Existe(archivos[q][i].archivo))'
      BY <1>2, <2>0, <3>2, <3>3
    <3> QED  BY <1>4, <3>3, <3>4 DEF Existing
  <2>2. CASE Close(p, f)
    <3>1. FClose(p, f) /\ Existe(f)'
      BY <2>0, <2>2, CreatedExists DEF Close
    <3>2. /\ llamada' = llamada
          /\ open_files' = [open_files EXCEPT ![f] = open_files'[f]]
          /\ \A q \in Process : \A i \in 1..Len(archivos'[q]) :
               \/ archivos'[q][i].archivo = f
               \/ \E j \in 1..Len(archivos[q]) : archivos'[q][i].archivo = archivos[q][j].archivo
      <4>1. CASE Tiene(p, f)
        <5>1. Cierre(p, f)
          BY <3>1, <4>1 DEF FClose, Cierre
        <5> QED  BY <2>0, <5>1, CloseFiles
      <4>2. CASE ~Tiene(p, f)
        <5>1. /\ open_files' = [open_files EXCEPT ![f] = GetFile(f)]
              /\ archivos' = archivos /\ llamada' = llamada
          BY <3>1, <4>2 DEF FClose
        <5>2. open_files' = [open_files EXCEPT ![f] = open_files'[f]]
          BY <2>0, <5>1 DEF LockTyping
        <5> QED  BY <1>3, <2>0, <5>1, <5>2
      <4> QED  BY <4>1, <4>2
    <3>3. /\ \A h \in File : open_files'[h].hay => Existe(h)'
          /\ \A q \in Process : \A i \in 1..Len(archivos'[q]) : (Existe(archivos[q][i].archivo))'
      BY <1>2, <2>0, <3>1, <3>2
    <3> QED  BY <1>4, <3>2, <3>3 DEF Existing
  <2>3. CASE Read(p, f) \/ Write(p, f) \/ \E n \in carga.tamanios : Truncate(p, f, n)
    <3>1. /\ Tiene(p, f) /\ archivos' = archivos
          /\ llamada'.archivo = f /\ (llamada'.op = "F_WRITE" => llamada'.arg = archivos[p][Primera(p, f)].puntero)
          /\ open_files' = open_files \/ open_files' = [open_files EXCEPT ![f] = GetFile(f)]
      BY <2>3 DEF Read, Write, Truncate, FRead, FWrite, FTruncate, Pedir, tableVars
    <3>2. Existe(f)' /\ archivos[p][Primera(p, f)].puntero \in Nat
      BY <1>1, <2>0, <3>1, OpenExists
    <3>3. open_files' = open_files \/ open_files' = [open_files EXCEPT ![f] = open_files'[f]]
      BY <2>0, <3>1 DEF LockTyping
    <3>4. /\ \A h \in File : open_files'[h].hay => Existe(h)'
          /\ \A q \in Process : \A i \in 1..Len(archivos'[q]) : (Existe(archivos[q][i].archivo))'
      BY <1>2, <1>3, <2>0, <3>1, <3>2, <3>3
    <3>5. Existe(llamada.archivo)'
      BY <3>1, <3>2 DEF Existe
    <3> QED  BY <3>1, <3>2, <3>4, <3>5 DEF Existing, Asked
  <2>4. ASSUME NEW n \in carga.punteros, Seek(p, f, n) PROVE Existing' /\ Asked'
    <3>1. n \in Nat /\ FSeek(p, f, n) /\ open_files' = open_files /\ llamada' = llamada
      BY <2>0, <2>4 DEF Seek, FSeek
    <3>2. Existe(f)'
      BY <1>1, <2>0, <3>1, OpenExists DEF FSeek
    <3>3. \A q \in Process : \A i \in 1..Len(archivos'[q]) :
            \/ archivos'[q][i].archivo = f
            \/ \E j \in 1..Len(archivos[q]) : archivos'[q][i].archivo = archivos[q][j].archivo
      BY <2>0, <3>1, SeekTables
    <3>4. /\ \A h \in File : open_files'[h].hay => Existe(h)'
          /\ \A q \in Process : \A i \in 1..Len(archivos'[q]) : (Existe(archivos[q][i].archivo))'
      BY <1>2, <2>0, <3>1, <3>2, <3>3
    <3> QED  BY <1>4, <3>1, <3>4 DEF Existing
  <2> QED  BY <1>7, <2>1, <2>2, <2>3, <2>4 DEF Call
<1>8. CASE ServeTruncate \/ ServeRead \/ ServeWrite
  BY <1>5, <1>6, <1>8 DEF ServeTruncate, ServeRead, ServeWrite
<1>9. ASSUME NEW p \in carga.procesos, End(p) PROVE Existing' /\ Asked'
  <2>1. open_files' = open_files /\ archivos' = archivos /\ llamada' = llamada
    BY <1>9 DEF End, Exit, tableVars
  <2>2. \A g \in File : open_files'[g].hay => Existe(g)'
    BY <1>1, <2>1 DEF Existing
  <2>3. ASSUME NEW q \in Process, NEW i \in 1..Len(archivos'[q])
        PROVE  (Existe(archivos[q][i].archivo))'
    <3>1. i \in 1..Len(archivos[q])
      BY <2>1, <2>3
    <3>2. archivos[q][i] \in Apertura
      BY <3>1, LenProperties DEF LockTyping, Tablas
    <3>3. PICK g \in File : g = archivos[q][i].archivo
      BY <3>2 DEF Apertura
    <3>4. Existe(g)'
      BY <1>1, <3>1, <3>3 DEF Existing
    <3> QED  BY <2>1, <3>3, <3>4 DEF Existe
  <2> QED  BY <1>4, <2>1, <2>2, <2>3 DEF Existing
<1>10. CASE Restart
  <2>1. \A p \in Process : archivos'[p] = <<>> /\ Len(archivos'[p]) = 0
    BY <1>10, EmptySeq DEF Restart
  <2>2. /\ \A f \in File : ~open_files'[f].hay
        /\ llamada' = SinLlamada
    BY <1>10 DEF Restart, SinEntrada
  <2>3. \A p \in Process : \A i \in 1..Len(archivos'[p]) : FALSE
    BY <2>1
  <2> QED  BY <2>2, <2>3 DEF Existing, Asked
<1>11. CASE UNCHANGED vars
  BY <1>5, <1>11 DEF vars
<1> QED  BY <1>7, <1>8, <1>9, <1>10, <1>11 DEF Next, Step

------------------------------------------------------------------------------
(* A resize, from the request to the answer.                                 *)

\* A resize that is under way goes on until it is answered.
LEMMA TruncateResizes ==
  ASSUME DiskTyping, DiskTyping', Resizing, TruncarFat, UNCHANGED lockVars
  PROVE  Resizing'
<1>1. PICK f \in File : f = truncando.archivo
  BY TruncateStep DEF Truncado
<1>2. PICK c : c = CadenaDe(f)
  OBVIOUS
<1>3. /\ truncando \in Truncado /\ truncando # Ninguna /\ truncando.paso = "fat" /\ fcb' = fcb
      /\ truncando'.paso \in {"igual", "fcb"} /\ truncando'.archivo = f
      /\ truncando'.tamanio = truncando.tamanio
      /\ truncando'.paso = "igual" => truncando'.inicial = truncando.inicial
      /\ c = Bloques(f) /\ Inicial(f) = truncando.inicial
  BY <1>1, <1>2, TruncateStep
<1>4. truncando.inicial = fcb[f].inicial /\ llamada' = llamada
      /\ llamada # SinLlamada /\ llamada.op = "F_TRUNCATE" /\ llamada.archivo = f
  BY <1>1, <1>3 DEF Resizing, lockVars
<1>5. PICK n \in Nat : n = CantBloques(truncando.tamanio)
  BY <1>3, BlocksOfBytes DEF Truncado
<1>6. EsCadena(fat, truncando.inicial, c) /\ truncando.inicial \in Entradas
  BY <1>3, ChainsNow
<1>7. c \in Seq(Entradas \ {0}) /\ Len(c) \in Nat /\ (Len(c) = 0 => truncando.inicial = 0)
  BY <1>6, LenProperties, Entries DEF EsCadena
<1>8. c = <<>> <=> Len(c) = 0
  BY <1>7, EmptySeq
<1>9. ASSUME n # 0, truncando'.paso = "fcb" PROVE truncando.inicial \in {0, truncando'.inicial}
  <2>1. PICK cant : cant = n - Len(c)
    OBVIOUS
  <2>2. \/ truncando' = [truncando EXCEPT !.paso = "igual"]
        \/ cant < 0 /\ Liberar(f, -cant)
        \/ Asignar(f, cant) \/ AsignarSinLugar(f)
    BY <1>1, <1>2, <1>5, <2>1 DEF TruncarFat, Asignados
  <2>3. CASE truncando' = [truncando EXCEPT !.paso = "igual"]
    BY <1>3, <1>9, <2>3 DEF Truncado
  <2>4. CASE cant < 0 /\ Liberar(f, -cant)
    <3>1. PICK q : /\ q = SubSeq(c, 1, Len(c) - (-cant))
                   /\ truncando' = [truncando EXCEPT !.paso = "fcb", !.inicial = IF q = <<>> THEN 0 ELSE @]
      BY <1>2, <2>4 DEF Liberar
    <3>2. Len(c) - (-cant) = n /\ n \in 1..Len(c)
      BY <1>7, <1>9, <2>1, <2>4
    <3>3. Len(q) = n
      <4>1. \A i \in 1..n : c[i] \in Entradas \ {0}
        BY <1>7, <3>2, LenProperties
      <4>2. Len(q) = IF 1 <= n THEN n - 1 + 1 ELSE 0
        BY <1>7, <3>1, <3>2, <4>1, SubSeqProperties
      <4> QED  BY <3>2, <4>2
    <3>4. q # <<>>
      BY <1>9, <3>3, EmptySeq
    <3> QED  BY <1>3, <3>1, <3>4 DEF Truncado
  <2>5. CASE Asignar(f, cant) \/ AsignarSinLugar(f)
    <3>1. \E i : truncando' = [truncando EXCEPT !.paso = "fcb", !.inicial = IF c = <<>> THEN i ELSE @]
      <4>1. CASE Asignar(f, cant)
        BY <1>2, <4>1, Zenon DEF Asignar
      <4>2. CASE AsignarSinLugar(f)
        BY <1>2, <4>2, Zenon DEF AsignarSinLugar
      <4> QED  BY <2>5, <4>1, <4>2
    <3>2. CASE c = <<>>
      BY <1>7, <1>8, <3>2
    <3>3. CASE c # <<>>
      BY <1>3, <3>1, <3>3 DEF Truncado
    <3> QED  BY <3>2, <3>3
  <2> QED  BY <2>2, <2>3, <2>4, <2>5
<1>10. truncando'.paso = "fcb" /\ CantBloques(truncando'.tamanio) # 0 =>
         fcb'[truncando'.archivo].inicial \in {0, truncando'.inicial}
  BY <1>3, <1>4, <1>5, <1>9
<1>11. truncando'.paso \in {"fat", "igual"} => truncando'.inicial = fcb'[truncando'.archivo].inicial
  BY <1>3, <1>4
<1> QED  BY <1>3, <1>4, <1>10, <1>11 DEF Resizing, CantBloques

\* When the planner waits for no resize there is none.
LEMMA FreeMeansDone ==
  ASSUME Resizing, llamada = SinLlamada \/ llamada.op # "F_TRUNCATE"
  PROVE  truncando = Ninguna
BY DEF Resizing

\* No step starts a second resize, or changes the FCB under the first.
LEMMA ResizingKeeps ==
  ASSUME LockTyping, DiskTyping, DiskTyping', Resizing, [Next]_vars
  PROVE  Resizing'
<1>1. ASSUME truncando' = Ninguna PROVE Resizing'
  BY <1>1 DEF Resizing
<1>2. ASSUME UNCHANGED <<truncando, fcb, llamada>> PROVE Resizing'
  BY <1>2 DEF Resizing, CantBloques
<1>3. ASSUME NEW p \in carga.procesos, NEW f \in carga.archivos, Call(p, f)
      PROVE  Resizing'
  <2>0. llamada = SinLlamada
    BY <1>3 DEF Call, Open, Close, Read, Write, Seek, Truncate, FOpen, FClose, FRead, FWrite, FSeek,
                FTruncate, Atiende
  <2>1. truncando = Ninguna /\ f \in File
    BY <2>0, FreeMeansDone, FilesAssumption DEF LockTyping
  <2>2. CASE \E n \in carga.tamanios : Truncate(p, f, n)
    <3>1. PICK n : Truncate(p, f, n)
      BY <2>2
    <3>2. /\ truncando' = [paso |-> "fat", archivo |-> f, tamanio |-> n, inicial |-> fcb[f].inicial]
          /\ fcb' = fcb
          /\ llamada' = [op |-> "F_TRUNCATE", pid |-> p, archivo |-> f, arg |-> n]
      BY <3>1 DEF Truncate, EmpezarTruncar, FTruncate, Pedir
    <3>3. llamada' # SinLlamada
      BY <3>2 DEF SinLlamada
    <3> QED  BY <3>2, <3>3 DEF Resizing
  <2>3. CASE ~ \E n \in carga.tamanios : Truncate(p, f, n)
    <3>1. truncando' = truncando
      BY <1>3, <2>3 DEF Call, Open, Close, Read, Write, Seek, AbrirOCrear, Crear, fatVars
    <3> QED  BY <1>1, <2>1, <3>1
  <2> QED  BY <2>2, <2>3
<1>4. CASE ServeTruncate
  <2>1. CASE TruncarFat /\ UNCHANGED lockVars
    BY <2>1, TruncateResizes
  <2>2. CASE TruncarFcb
    BY <1>1, <2>2 DEF TruncarFcb
  <2> QED  BY <1>4, <2>1, <2>2 DEF ServeTruncate
<1>5. CASE ServeRead \/ ServeWrite
  <2>1. llamada.op # "F_TRUNCATE" /\ truncando' = truncando
    BY <1>5 DEF ServeRead, ServeWrite, Leer, Escribir, fatVars
  <2> QED  BY <1>1, <2>1, FreeMeansDone
<1>6. CASE Restart
  BY <1>1, <1>6 DEF Restart, Reinicio
<1>7. ASSUME NEW p \in carga.procesos, End(p) PROVE Resizing'
  BY <1>2, <1>7 DEF End, Exit, fatVars
<1>8. CASE UNCHANGED vars
  BY <1>2, <1>8 DEF vars, fatVars, lockVars
<1> QED  BY <1>3, <1>4, <1>5, <1>6, <1>7, <1>8 DEF Next, Step

------------------------------------------------------------------------------
\* The same FAT and first block give the same blocks.
LEMMA SameBlocks ==
  ASSUME NEW CONSTANT f, fat' = fat, Inicial(f)' = Inicial(f)
  PROVE  Bloques(f)' = Bloques(f)
BY BlocksNow, BlocksNext

\* No chain changes.
Quieto ==
  /\ fat' = fat /\ avisos \subseteq avisos'
  /\ \A f \in File : Inicial(f)' = Inicial(f)

LEMMA NothingMoves ==
  ASSUME Quieto
  PROVE  \A f \in File : Bloques(f)' = Bloques(f)
<1> TAKE f \in File
<1>1. fat' = fat /\ Inicial(f)' = Inicial(f)
  BY DEF Quieto
<1> QED  BY <1>1, SameBlocks

\* A file without a first block has none.
LEMMA EmptyChain ==
  ASSUME DiskTyping, NEW f \in File, Inicial(f) = 0
  PROVE  Bloques(f) = <<>> /\ Ocupa(Bloques(f)) = {} /\ Len(Bloques(f)) = 0
<1>1. EsCadena(fat, 0, Bloques(f))
  BY ChainsNow
<1>2. Bloques(f) \in Seq(Entradas \ {0}) /\ Len(Bloques(f)) = 0
  BY <1>1 DEF EsCadena
<1> QED  BY <1>2, EmptySeq DEF Ocupa

LEMMA NoBlocks == \A t : Entera(t, 0, <<>>)
<1>1. <<>> \in Seq(Entradas \ {0}) /\ Len(<<>>) = 0
  BY EmptySeq
<1> QED  BY <1>1 DEF Entera, Distinta

\* When no chain changes, what is said of them stays, whoever is created.
LEMMA QuietKeeps ==
  ASSUME DiskTyping, Chained, Claimed, Quieto, Creados \subseteq Creados',
         \A f \in Creados' : f \in Creados \/ Inicial(f) = 0
  PROVE  Chained' /\ Claimed'
<1>1. /\ \A f \in File : Bloques(f)' = Bloques(f) /\ Inicial(f)' = Inicial(f)
      /\ fat' = fat /\ avisos \subseteq avisos' /\ Creados' \subseteq File
  BY NothingMoves DEF Quieto, Creados
<1>2. \A f \in Creados' : f \notin Creados => Bloques(f) = <<>> /\ Ocupa(Bloques(f)) = {} /\ Inicial(f) = 0
  BY <1>1, EmptyChain
<1>3. Chained'
  <2>1. SUFFICES ASSUME SinAviso({"zeroed", "noroom"})'
                 PROVE  /\ fat'[0] = Fin
                        /\ \A f \in Creados' : Entera(fat', Inicial(f)', Bloques(f)')
                        /\ \A f, g \in Creados' : f # g => Ocupa(Bloques(f)') \cap Ocupa(Bloques(g)') = {}
    BY DEF Chained, Entera, Ocupa, Distinta
  <2>2. /\ fat[0] = Fin
        /\ \A f \in Creados : Entera(fat, Inicial(f), Bloques(f))
        /\ \A f, g \in Creados : f # g => Ocupa(Bloques(f)) \cap Ocupa(Bloques(g)) = {}
    BY <1>1, <2>1 DEF Chained, SinAviso
  <2>3. ASSUME NEW f \in Creados' PROVE Entera(fat', Inicial(f)', Bloques(f)')
    <3>1. Entera(fat, Inicial(f), Bloques(f))
      BY <1>2, <2>2, NoBlocks
    <3> QED  BY <1>1, <3>1
  <2>4. ASSUME NEW f \in Creados', NEW g \in Creados', f # g
        PROVE  Ocupa(Bloques(f)') \cap Ocupa(Bloques(g)') = {}
    <3>1. Ocupa(Bloques(f)) \cap Ocupa(Bloques(g)) = {}
      BY <1>2, <2>2, <2>4
    <3> QED  BY <1>1, <3>1
  <2> QED  BY <1>1, <2>2, <2>3, <2>4
<1>4. Claimed'
  <2>1. SUFFICES ASSUME SinAviso({"zeroed", "torn", "noroom"})'
                 PROVE  Tomadas' = UNION {Ocupa(Bloques(f)') : f \in Creados'}
    BY DEF Claimed, Ocupa
  <2>2. Tomadas = UNION {Ocupa(Bloques(f)) : f \in Creados}
    BY <1>1, <2>1 DEF Claimed, SinAviso
  <2>3. UNION {Ocupa(Bloques(f)') : f \in Creados'} = UNION {Ocupa(Bloques(f)) : f \in Creados'}
    BY <1>1
  <2>4. UNION {Ocupa(Bloques(f)) : f \in Creados'} = UNION {Ocupa(Bloques(f)) : f \in Creados}
    BY <1>2
  <2>5. Tomadas' = Tomadas
    BY <1>1 DEF Tomadas
  <2> QED  BY <2>2, <2>3, <2>4, <2>5
<1> QED  BY <1>3, <1>4

------------------------------------------------------------------------------
(* The steps on the chains.                                                  *)

\* A step that writes neither the FAT nor a FCB.
LEMMA UntouchedKeeps ==
  ASSUME DiskTyping, Chained, Claimed, Sized, UNCHANGED <<fat, fcb, truncando>>, avisos \subseteq avisos'
  PROVE  /\ Chained' /\ Claimed' /\ Sized'
         /\ Quieto /\ Creados' = Creados
<1>1. Quieto /\ Creados' = Creados
  BY DEF Quieto, Inicial, Creados, Existe
<1>2. Chained' /\ Claimed'
  BY <1>1, QuietKeeps
<1>3. Sized'
  <2>1. \A f \in File : Bloques(f)' = Bloques(f)
    BY <1>1, NothingMoves
  <2>2. truncando # Ninguna => truncando.archivo \in File
    BY DEF DiskTyping, Truncado
  <2>3. SUFFICES ASSUME SinAviso({"zeroed", "torn", "full", "noroom"})'
                 PROVE  /\ \A f \in Creados : ~EnTruncado(f) \/ truncando.paso \in {"fat", "igual"} =>
                             Len(Bloques(f)') = CantBloques(fcb[f].tamanio)
                        /\ truncando # Ninguna /\ truncando.paso \in {"igual", "fcb"} =>
                             Len(Bloques(truncando.archivo)') = CantBloques(truncando.tamanio)
    BY <1>1 DEF Sized, CantBloques, EnTruncado
  <2>4. /\ \A f \in Creados : ~EnTruncado(f) \/ truncando.paso \in {"fat", "igual"} =>
             Len(Bloques(f)) = CantBloques(fcb[f].tamanio)
        /\ truncando # Ninguna /\ truncando.paso \in {"igual", "fcb"} =>
             Len(Bloques(truncando.archivo)) = CantBloques(truncando.tamanio)
    BY <2>3 DEF Sized, SinAviso
  <2> QED  BY <2>1, <2>2, <2>4 DEF Creados
<1> QED  BY <1>1, <1>2, <1>3

\* An empty file asks for no block.
LEMMA NoBlocksForNothing == CantBloques(0) = 0
<1>1. BlockSize \in Nat /\ BlockSize > 0
  BY FatAssumption
<1>2. (0 + (BlockSize - 1)) \div BlockSize = 0
  BY <1>1
<1> QED  BY <1>2 DEF CantBloques

\* A file that is created has no blocks.
LEMMA CreateKeeps ==
  ASSUME DiskTyping, Chained, Claimed, Sized, truncando = Ninguna,
         NEW CONSTANT f \in File, ~Existe(f), Crear(f)
  PROVE  /\ Chained' /\ Claimed' /\ Sized'
         /\ Quieto /\ Creados' = Creados \cup {f} /\ f \notin Creados /\ Inicial(f) = 0
<1>1. /\ fcb' = [fcb EXCEPT ![f] = [tamanio |-> 0, inicial |-> 0]]
      /\ UNCHANGED <<fat, bloques, truncando, swapTocado, avisos>>
  BY DEF Crear
<1>2. [tamanio |-> 0, inicial |-> 0] # SinFcb /\ fcb[f] = SinFcb
  BY DEF SinFcb, Existe
<1>3. \A g \in File : g # f => fcb'[g] = fcb[g]
  BY <1>1 DEF DiskTyping
<1>4. fcb'[f] = [tamanio |-> 0, inicial |-> 0]
  BY <1>1 DEF DiskTyping
<1>5. Creados' = Creados \cup {f} /\ f \notin Creados
  <2>1. \A g \in File : fcb'[g] # SinFcb <=> g = f \/ fcb[g] # SinFcb
    BY <1>2, <1>3, <1>4
  <2> QED  BY <1>2, <2>1 DEF Creados, Existe
<1>6. truncando.paso = "none" /\ truncando'.paso = "none" /\ truncando' = Ninguna
  BY <1>1 DEF Ninguna
<1>7. \A g \in File : Inicial(g) = fcb[g].inicial
  BY <1>6 DEF Inicial
<1>8. \A g \in File : Inicial(g)' = fcb'[g].inicial
  BY <1>6 DEF Inicial
<1>9. Inicial(f) = 0 /\ Inicial(f)' = 0
  BY <1>2, <1>4, <1>7, <1>8 DEF SinFcb
<1>10. \A g \in File : Inicial(g)' = Inicial(g)
  BY <1>3, <1>7, <1>8, <1>9
<1>11. Quieto
  BY <1>1, <1>10 DEF Quieto
<1>12. Chained' /\ Claimed'
  BY <1>5, <1>9, <1>11, QuietKeeps
<1>13. Sized'
  <2>1. \A g \in File : Bloques(g)' = Bloques(g)
    BY <1>11, NothingMoves
  <2>2. Len(Bloques(f)) = 0 /\ CantBloques(0) = 0
    BY <1>9, EmptyChain, NoBlocksForNothing
  <2>3. SUFFICES ASSUME SinAviso({"zeroed", "torn", "full", "noroom"})
                 PROVE  \A g \in Creados' : Len(Bloques(g)') = CantBloques(fcb'[g].tamanio)
    BY <1>1, <1>6 DEF Sized, CantBloques, EnTruncado, SinAviso
  <2>4. \A g \in Creados : Len(Bloques(g)) = CantBloques(fcb[g].tamanio)
    BY <2>3 DEF Sized, EnTruncado
  <2> QED  BY <1>3, <1>4, <1>5, <2>1, <2>2, <2>4 DEF Creados
<1> QED  BY <1>5, <1>9, <1>11, <1>12, <1>13

\* The request is read: nothing on disk has changed.
LEMMA BeginTruncateKeeps ==
  ASSUME DiskTyping, Chained, Claimed, Sized, truncando = Ninguna,
         NEW CONSTANT f \in File, NEW CONSTANT n, EmpezarTruncar(f, n), UNCHANGED <<fat, fcb, avisos>>
  PROVE  /\ Chained' /\ Claimed' /\ Sized'
         /\ Quieto /\ Creados' = Creados
<1>1. truncando' = [paso |-> "fat", archivo |-> f, tamanio |-> n, inicial |-> fcb[f].inicial]
  BY DEF EmpezarTruncar
<1>2. Quieto /\ Creados' = Creados
  BY <1>1 DEF Quieto, Inicial, Creados, Existe, Ninguna
<1>3. Chained' /\ Claimed'
  BY <1>2, QuietKeeps
<1>4. Sized'
  <2>1. \A g \in File : Bloques(g)' = Bloques(g)
    BY <1>2, NothingMoves
  <2>2. SUFFICES ASSUME SinAviso({"zeroed", "torn", "full", "noroom"})
                 PROVE  \A g \in Creados : Len(Bloques(g)') = CantBloques(fcb[g].tamanio)
    BY <1>1, <1>2 DEF Sized, CantBloques, SinAviso
  <2>3. \A g \in Creados : Len(Bloques(g)) = CantBloques(fcb[g].tamanio)
    BY <2>2 DEF Sized, EnTruncado
  <2> QED  BY <2>1, <2>3 DEF Creados
<1> QED  BY <1>2, <1>3, <1>4

\* The FCB is saved.
LEMMA SaveKeeps ==
  ASSUME DiskTyping, Existing, Resizing, Chained, Claimed, Sized, TruncarFcb
  PROVE  /\ Chained' /\ Claimed' /\ Sized'
         /\ Quieto /\ Creados' = Creados
<1>1. /\ truncando.paso \in {"igual", "fcb"} /\ truncando' = Ninguna
      /\ UNCHANGED <<fat, bloques, swapTocado, avisos>>
  BY DEF TruncarFcb
<1>2. truncando # Ninguna /\ truncando \in Truncado
  BY <1>1 DEF DiskTyping, Ninguna
<1>3. PICK f \in File : f = truncando.archivo
  BY <1>2 DEF Truncado
<1>4. f \in Creados /\ (truncando.paso = "igual" => truncando.inicial = fcb[f].inicial)
  BY <1>2, <1>3 DEF Resizing, Existing, Creados
<1>5. /\ fcb'[f] = [tamanio |-> truncando.tamanio, inicial |-> truncando.inicial]
      /\ \A g \in File : g # f => fcb'[g] = fcb[g]
  BY <1>3 DEF TruncarFcb, DiskTyping
<1>6. fcb'[f] # SinFcb /\ fcb[f] # SinFcb
  BY <1>2, <1>4, <1>5 DEF SinFcb, Truncado, Creados, Existe
<1>7. Creados' = Creados
  <2>1. \A g \in File : fcb'[g] # SinFcb <=> fcb[g] # SinFcb
    BY <1>5, <1>6
  <2> QED  BY <2>1 DEF Creados, Existe
<1>8. \A g \in File : Inicial(g)' = fcb'[g].inicial
  BY <1>1 DEF Inicial, Ninguna
<1>9. \A g \in File : g # f => Inicial(g) = fcb[g].inicial
  BY <1>3 DEF Inicial
<1>10. Inicial(f) = truncando.inicial
  BY <1>1, <1>3, <1>4 DEF Inicial
<1>11. \A g \in File : Inicial(g)' = Inicial(g)
  BY <1>5, <1>8, <1>9, <1>10
<1>12. Quieto
  BY <1>1, <1>11 DEF Quieto
<1>13. Chained' /\ Claimed'
  BY <1>7, <1>12, QuietKeeps
<1>14. Sized'
  <2>1. \A g \in File : Bloques(g)' = Bloques(g)
    BY <1>12, NothingMoves
  <2>2. SUFFICES ASSUME SinAviso({"zeroed", "torn", "full", "noroom"})
                 PROVE  \A g \in Creados : Len(Bloques(g)') = CantBloques(fcb'[g].tamanio)
    BY <1>1, <1>7 DEF Sized, CantBloques, SinAviso
  <2>3. /\ \A g \in Creados : g # f => Len(Bloques(g)) = CantBloques(fcb[g].tamanio)
        /\ Len(Bloques(f)) = CantBloques(truncando.tamanio)
    BY <1>1, <1>2, <1>3, <2>2 DEF Sized, EnTruncado
  <2> QED  BY <1>5, <2>1, <2>3 DEF Creados
<1> QED  BY <1>7, <1>12, <1>13, <1>14

\* A truncation is cut short.
LEMMA CutShortKeeps ==
  ASSUME DiskTyping, Resizing, Chained, Claimed, Sized, Reinicio
  PROVE  /\ Chained' /\ Claimed' /\ Sized'
         /\ truncando.paso # "fcb" => Quieto /\ Creados' = Creados
<1>1. truncando' = Ninguna /\ UNCHANGED <<fat, fcb, bloques, swapTocado>>
      /\ avisos' = IF truncando.paso # "fcb" THEN avisos
                   ELSE avisos \cup {IF CantBloques(truncando.tamanio) = 0 THEN "zeroed" ELSE "torn"}
  BY DEF Reinicio
<1>2. Creados' = Creados /\ avisos \subseteq avisos'
  BY <1>1 DEF Creados, Existe
<1>3. \A g \in File : Inicial(g)' = fcb[g].inicial
  BY <1>1 DEF Inicial, Ninguna
<1>4. CASE truncando.paso # "fcb"
  <2>1. \A g \in File : Inicial(g) = fcb[g].inicial
    BY <1>4 DEF Inicial
  <2>2. Quieto
    BY <1>1, <1>2, <1>3, <2>1 DEF Quieto
  <2>3. Chained' /\ Claimed'
    BY <1>2, <2>2, QuietKeeps
  <2>4. Sized'
    <3>1. \A g \in File : Bloques(g)' = Bloques(g)
      BY <2>2, NothingMoves
    <3>2. SUFFICES ASSUME SinAviso({"zeroed", "torn", "full", "noroom"})
                   PROVE  \A g \in Creados : Len(Bloques(g)') = CantBloques(fcb[g].tamanio)
      BY <1>1, <1>2, <1>4 DEF Sized, CantBloques, SinAviso
    <3>3. truncando = Ninguna \/ truncando.paso \in {"fat", "igual"}
      BY <1>4 DEF DiskTyping, Truncado
    <3>4. \A g \in Creados : Len(Bloques(g)) = CantBloques(fcb[g].tamanio)
      BY <3>2, <3>3 DEF Sized, EnTruncado
    <3> QED  BY <3>1, <3>4 DEF Creados
  <2> QED  BY <1>2, <2>2, <2>3, <2>4
<1>5. CASE truncando.paso = "fcb"
  <2>1. "zeroed" \in avisos' \/ "torn" \in avisos'
    BY <1>1, <1>5
  <2>2. Claimed' /\ Sized'
    BY <2>1 DEF Claimed, Sized, SinAviso
  <2>3. Chained'
    <3>1. SUFFICES ASSUME SinAviso({"zeroed", "noroom"})'
                   PROVE  /\ fat'[0] = Fin
                          /\ \A g \in Creados' : Entera(fat', Inicial(g)', Bloques(g)')
                          /\ \A g, h \in Creados' : g # h => Ocupa(Bloques(g)') \cap Ocupa(Bloques(h)') = {}
      BY DEF Chained, Entera, Ocupa, Distinta
    <3>2. /\ fat[0] = Fin
          /\ \A g \in Creados : Entera(fat, Inicial(g), Bloques(g))
          /\ \A g, h \in Creados : g # h => Ocupa(Bloques(g)) \cap Ocupa(Bloques(h)) = {}
      BY <1>2, <3>1 DEF Chained, SinAviso
    <3>3. CantBloques(truncando.tamanio) # 0
      BY <1>1, <1>5, <3>1 DEF SinAviso
    <3>4. truncando # Ninguna /\ truncando \in Truncado
      BY <1>5 DEF DiskTyping, Ninguna
    <3>5. PICK f \in File : f = truncando.archivo
      BY <3>4 DEF Truncado
    <3>6. fcb[f].inicial \in {0, truncando.inicial}
      BY <1>5, <3>3, <3>4, <3>5 DEF Resizing
    <3>7. Inicial(f) = truncando.inicial /\ \A g \in File : g # f => Inicial(g) = fcb[g].inicial
      BY <1>5, <3>5 DEF Inicial
    <3>8. \A g \in File : Inicial(g)' = Inicial(g) \/ Inicial(g)' = 0
      BY <1>3, <3>6, <3>7
    <3>9. ASSUME NEW g \in Creados
          PROVE  Entera(fat', Inicial(g)', Bloques(g)') /\ Ocupa(Bloques(g)') \subseteq Ocupa(Bloques(g))
      <4>0. g \in File
        BY DEF Creados
      <4>1. CASE Inicial(g)' = Inicial(g)
        <5>1. Bloques(g)' = Bloques(g)
          BY <1>1, <4>1, SameBlocks
        <5> QED  BY <1>1, <3>2, <4>1, <5>1
      <4>2. CASE Inicial(g)' = 0
        <5>1. Entera(fat, 0, <<>>) /\ 0 \in Entradas
          BY NoBlocks, Entries
        <5>2. EsCadena(fat, 0, <<>>)
          BY <5>1, WholeIsChain
        <5>3. DiskTyping'
          BY <1>1, <1>2 DEF DiskTyping
        <5>4. Bloques(g)' = <<>>
          BY <1>1, <4>0, <4>2, <5>2, <5>3, TheChainNext
        <5>5. Ocupa(<<>>) = {}
          BY EmptySeq DEF Ocupa
        <5> QED  BY <1>1, <4>2, <5>1, <5>4, <5>5
      <4> QED  BY <3>8, <4>0, <4>1, <4>2
    <3> QED  BY <1>1, <1>2, <3>2, <3>9
  <2> QED  BY <1>5, <2>2, <2>3
<1> QED  BY <1>4, <1>5

\* Every step keeps what is said of the chains.
LEMMA ChainsKeep ==
  ASSUME LockTyping, DiskTyping, DiskTyping', Existing, Resizing, Chained, Claimed, Sized, [Next]_vars
  PROVE  Chained' /\ Claimed' /\ Sized'
<1>1. ASSUME UNCHANGED <<fat, fcb, truncando>>, avisos \subseteq avisos' PROVE Chained' /\ Claimed' /\ Sized'
  BY <1>1, UntouchedKeeps
<1>2. ASSUME UNCHANGED fatVars PROVE Chained' /\ Claimed' /\ Sized'
  BY <1>1, <1>2 DEF fatVars
<1>3. ASSUME NEW p \in carga.procesos, NEW f \in carga.archivos, Call(p, f)
      PROVE  Chained' /\ Claimed' /\ Sized'
  <2>0. llamada = SinLlamada
    BY <1>3 DEF Call, Open, Close, Read, Write, Seek, Truncate, FOpen, FClose, FRead, FWrite, FSeek,
                FTruncate, Atiende
  <2>1. truncando = Ninguna /\ f \in File
    BY <2>0, FreeMeansDone, FilesAssumption DEF LockTyping
  <2>2. ASSUME NEW n \in carga.tamanios, Truncate(p, f, n) PROVE Chained' /\ Claimed' /\ Sized'
    <3>1. EmpezarTruncar(f, n) /\ UNCHANGED <<fat, fcb, avisos>>
      BY <2>2 DEF Truncate
    <3> QED  BY <2>1, <3>1, BeginTruncateKeeps
  <2>3. CASE AbrirOCrear(f)
    <3>1. CASE UNCHANGED fatVars
      BY <1>2, <3>1
    <3>2. CASE ~Existe(f) /\ Crear(f)
      BY <2>1, <3>2, CreateKeeps
    <3> QED  BY <2>3, <3>1, <3>2 DEF AbrirOCrear
  <2> QED  BY <1>2, <1>3, <2>2, <2>3 DEF Call, Open, Close, Read, Write, Seek
<1>4. CASE ServeTruncate
  BY <1>4, TruncateKeeps, SaveKeeps DEF ServeTruncate
<1>5. CASE ServeRead
  BY <1>2, <1>5 DEF ServeRead, Leer
<1>6. CASE ServeWrite
  BY <1>1, <1>6 DEF ServeWrite, Escribir
<1>7. CASE Restart
  BY <1>7, CutShortKeeps DEF Restart
<1>8. ASSUME NEW p \in carga.procesos, End(p) PROVE Chained' /\ Claimed' /\ Sized'
  BY <1>2, <1>8 DEF End
<1>9. CASE UNCHANGED vars
  BY <1>2, <1>9 DEF vars
<1> QED  BY <1>3, <1>4, <1>5, <1>6, <1>7, <1>8, <1>9 DEF Next, Step

------------------------------------------------------------------------------
(* The blocks of swap, and the invariant.                                    *)

\* The history only grows, and only a write may touch swap.
LEMMA NoticesStay ==
  ASSUME [Next]_vars
  PROVE  avisos \subseteq avisos' /\ (swapTocado' # swapTocado => ServeWrite)
<1>1. ASSUME UNCHANGED <<avisos, swapTocado>>
      PROVE  avisos \subseteq avisos' /\ (swapTocado' # swapTocado => ServeWrite)
  BY <1>1
<1>2. ASSUME NEW p \in carga.procesos, NEW f \in carga.archivos, Call(p, f)
      PROVE  UNCHANGED <<avisos, swapTocado>>
  BY <1>2 DEF Call, Open, Close, Read, Write, Seek, Truncate, AbrirOCrear, Crear, fatVars
<1>3. CASE ServeTruncate
  <2>1. CASE TruncarFat
    <3>1. PICK f, cant : UNCHANGED avisos \/ Liberar(f, -cant) \/ Asignar(f, cant) \/ AsignarSinLugar(f)
      BY <2>1 DEF TruncarFat
    <3>2. avisos \subseteq avisos'
      BY <3>1 DEF Liberar, Asignar, AsignarSinLugar
    <3> QED  BY <2>1, <3>2 DEF TruncarFat
  <2>2. CASE TruncarFcb
    BY <1>1, <2>2 DEF TruncarFcb
  <2> QED  BY <1>3, <2>1, <2>2 DEF ServeTruncate
<1>4. CASE ServeRead
  BY <1>1, <1>4 DEF ServeRead, Leer, fatVars
<1>5. CASE ServeWrite
  BY <1>5 DEF ServeWrite, Escribir
<1>6. CASE Restart
  BY <1>6 DEF Restart, Reinicio
<1>7. ASSUME NEW p \in carga.procesos, End(p) PROVE UNCHANGED <<avisos, swapTocado>>
  BY <1>7 DEF End, fatVars
<1>8. CASE UNCHANGED vars
  BY <1>1, <1>8 DEF vars, fatVars
<1> QED  BY <1>1, <1>2, <1>3, <1>4, <1>5, <1>6, <1>7, <1>8 DEF Next, Step

\* A write inside the size of its file ends at a block of the file.
LEMMA WriteIsInside ==
  ASSUME LockTyping, DiskTyping, Existing, Asked, Resizing, Sized,
         SinAviso({"zeroed", "torn", "full", "noroom"}),
         llamada # SinLlamada, llamada.op = "F_WRITE",
         NEW f \in File, f = llamada.archivo, NEW n, n = llamada.arg \div BlockSize,
         n < CantBloques(fcb[f].tamanio)
  PROVE  Fin \notin BloqueDe(f, n)
<1>1. truncando = Ninguna /\ f \in Creados
  BY DEF Resizing, Existing, Creados
<1>2. Inicial(f) = fcb[f].inicial
  BY <1>1 DEF Inicial, Ninguna
<1>3. n \in Nat
  <2>1. llamada.arg \in Nat /\ BlockSize \in Nat /\ BlockSize > 0
    BY FatAssumption DEF Asked
  <2> QED  BY <2>1
<1>4. PICK c : c = Bloques(f)
  OBVIOUS
<1>5. EsCadena(fat, fcb[f].inicial, c) /\ fcb[f].inicial \in Valores
  BY <1>2, <1>4, ChainsNow DEF Valores
<1>6. n < Len(c)
  BY <1>1, <1>4 DEF Sized, EnTruncado
<1>7. fat \in Tabla
  BY DEF DiskTyping, Tabla, Valores
<1>8. CaminoB(fat, fcb[f].inicial, n)[n] = {c[n + 1]}
  BY <1>3, <1>5, <1>6, <1>7, BlockOfChain
<1>9. c[n + 1] \in Entradas
  <2>1. c \in Seq(Entradas \ {0}) /\ Len(c) \in Nat
    BY <1>5, LenProperties DEF EsCadena
  <2>2. n + 1 \in 1..Len(c)
    BY <1>3, <1>6, <2>1
  <2> QED  BY <2>1, <2>2, LenProperties
<1> QED  BY <1>8, <1>9, BlockNow, Entries

\* A write that touches swap was past the end, or came after trouble.
LEMMA SwapKeeps ==
  ASSUME LockTyping, DiskTyping, Existing, Asked, Resizing, Sized, SwapUntouched, [Next]_vars
  PROVE  SwapUntouched'
<1>1. SUFFICES ASSUME swapTocado', SinAviso({"pastend", "full", "torn", "zeroed", "noroom"})'
               PROVE  FALSE
  BY DEF SwapUntouched
<1>2. avisos \subseteq avisos'
  BY NoticesStay
<1>3. SinAviso({"pastend", "full", "torn", "zeroed", "noroom"})
  BY <1>1, <1>2 DEF SinAviso
<1>4. ~swapTocado
  BY <1>3 DEF SwapUntouched
<1>5. ServeWrite
  BY <1>1, <1>4, NoticesStay
<1>6. PICK d \in Data : Escribir(llamada.archivo, llamada.arg, d)
  BY <1>5 DEF ServeWrite
<1>7. llamada.op = "F_WRITE" /\ llamada # SinLlamada
  BY <1>5 DEF ServeWrite, Respuesta
<1>8. PICK f \in File : f = llamada.archivo
  BY <1>7 DEF LockTyping
<1>9. PICK n : n = llamada.arg \div BlockSize
  OBVIOUS
<1>10. Fin \in BloqueDe(f, n)
  BY <1>1, <1>4, <1>6, <1>8, <1>9 DEF Escribir
<1>11. n < CantBloques(fcb[f].tamanio)
  BY <1>1, <1>6, <1>8, <1>9 DEF Escribir, SinAviso
<1>12. SinAviso({"zeroed", "torn", "full", "noroom"})
  BY <1>3 DEF SinAviso
<1> QED  BY <1>7, <1>8, <1>9, <1>10, <1>11, <1>12, WriteIsInside

------------------------------------------------------------------------------
\* The invariant: the locks, and what is on disk.
DiskInv ==
  /\ LockInv /\ DiskTyping /\ Existing /\ Asked /\ Resizing
  /\ Chained /\ Claimed /\ Sized /\ SwapUntouched

LEMMA DiskStarts ==
  ASSUME Init
  PROVE  DiskInv
<1>1. LockInv /\ DiskTyping
  BY LocksAtFirst, DiskAtFirst
<1>2. /\ \A f \in File : ~open_files[f].hay /\ ~Existe(f)
      /\ \A p \in Process : archivos[p] = <<>>
      /\ llamada = SinLlamada /\ truncando = Ninguna /\ ~swapTocado
      /\ fat = [e \in Entradas |-> IF e = 0 THEN Fin ELSE 0]
  BY DEF Init, LocksInit, FatInit, SinEntrada, Existe
<1>3. Creados = {}
  BY <1>2 DEF Creados
<1>4. Existing /\ Asked
  <2>1. \A p \in Process : \A i \in 1..Len(archivos[p]) : FALSE
    BY <1>2, EmptySeq
  <2> QED  BY <1>2, <2>1 DEF Existing, Asked
<1>5. Resizing /\ SwapUntouched
  BY <1>2 DEF Resizing, SwapUntouched
<1>6. fat[0] = Fin /\ Tomadas = {}
  BY <1>2, Entries DEF Tomadas
<1>7. Chained /\ Claimed /\ Sized
  BY <1>2, <1>3, <1>6 DEF Chained, Claimed, Sized
<1> QED  BY <1>1, <1>4, <1>5, <1>7 DEF DiskInv

LEMMA DiskStays ==
  ASSUME DiskInv, [Next]_vars
  PROVE  DiskInv'
<1>1. LockInv /\ LockTyping /\ Absent /\ Queued
  BY DEF DiskInv, LockInv
<1>2. LockInv'
  BY <1>1, LocksKeep
<1>3. DiskTyping'
  BY <1>1, DiskKeeps DEF DiskInv
<1>4. Existing' /\ Asked'
  BY <1>1, ExistingKeeps DEF DiskInv
<1>5. Resizing'
  BY <1>1, <1>3, ResizingKeeps DEF DiskInv
<1>6. Chained' /\ Claimed' /\ Sized'
  BY <1>1, <1>3, ChainsKeep DEF DiskInv
<1>7. SwapUntouched'
  BY <1>1, SwapKeeps DEF DiskInv
<1> QED  BY <1>2, <1>3, <1>4, <1>5, <1>6, <1>7 DEF DiskInv

LEMMA DiskAlways == Spec => []DiskInv
<1>1. Init => DiskInv
  BY DiskStarts
<1>2. DiskInv /\ [Next]_vars => DiskInv'
  BY DiskStays
<1> QED  BY <1>1, <1>2, PTL DEF Spec

\* Occupied blocks are those of the sequence, as a range.
LEMMA RangeOfChain ==
  ASSUME DiskTyping, NEW f \in File
  PROVE  /\ Range(Bloques(f)) = Ocupa(Bloques(f))
         /\ Len(Bloques(f)) \in Nat /\ (Bloques(f) # <<>> <=> Len(Bloques(f)) > 0)
<1>1. PICK c : c = Bloques(f)
  OBVIOUS
<1>2. c \in Seq(Entradas \ {0})
  BY <1>1, ChainsNow DEF EsCadena
<1>3. Len(c) \in Nat /\ DOMAIN c = 1..Len(c) /\ (c # <<>> <=> Len(c) > 0)
  BY <1>2, LenProperties, EmptySeq
<1> QED  BY <1>1, <1>3 DEF Range, Ocupa

\* No two files share a block and the last block of each is marked, unless a
\* truncation to nothing was cut short, or there was no entry to give.
THEOREM FilesDoNotShareBlocks == Spec => []ChainsDisjoint
<1>1. ASSUME DiskInv PROVE ChainsDisjoint
  <2>1. SUFFICES ASSUME SinAviso({"zeroed", "noroom"})
                 PROVE  /\ \A f \in Creados : Bloques(f) # <<>> => fat[Last(Bloques(f))] = Fin
                        /\ \A f, g \in Creados : f # g => Range(Bloques(f)) \cap Range(Bloques(g)) = {}
    BY DEF ChainsDisjoint
  <2>2. /\ \A f \in Creados : Entera(fat, Inicial(f), Bloques(f))
        /\ \A f, g \in Creados : f # g => Ocupa(Bloques(f)) \cap Ocupa(Bloques(g)) = {}
    BY <1>1, <2>1 DEF DiskInv, Chained
  <2>3. ASSUME NEW f \in Creados PROVE f \in File /\ Range(Bloques(f)) = Ocupa(Bloques(f))
    BY <1>1, RangeOfChain DEF Creados, DiskInv
  <2>4. ASSUME NEW f \in Creados, Bloques(f) # <<>> PROVE fat[Last(Bloques(f))] = Fin
    <3>1. Len(Bloques(f)) > 0
      BY <1>1, <2>3, <2>4, RangeOfChain DEF DiskInv
    <3> QED  BY <2>2, <3>1 DEF Entera, Last
  <2>5. ASSUME NEW f \in Creados, NEW g \in Creados, f # g
        PROVE  Range(Bloques(f)) \cap Range(Bloques(g)) = {}
    BY <2>2, <2>3, <2>5
  <2> QED  BY <2>4, <2>5
<1> QED  BY <1>1, DiskAlways, PTL

\* Every entry that is taken is of a file, unless a truncation was cut short.
THEOREM NoEntryIsLost == Spec => []NoLeak
<1>1. ASSUME DiskInv PROVE NoLeak
  <2>1. \A f \in Creados : Range(Bloques(f)) = Ocupa(Bloques(f))
    BY <1>1, RangeOfChain DEF Creados, DiskInv
  <2>2. UNION {Range(Bloques(f)) : f \in Creados} = UNION {Ocupa(Bloques(f)) : f \in Creados}
    BY <2>1
  <2>3. SinAviso({"zeroed", "torn", "noroom"}) => Tomadas = UNION {Ocupa(Bloques(f)) : f \in Creados}
    BY <1>1 DEF DiskInv, Claimed
  <2> QED  BY <2>2, <2>3 DEF NoLeak, Tomadas
<1> QED  BY <1>1, DiskAlways, PTL

\* A file that is not being resized has the blocks that its size asks for.
THEOREM SizesAreThoseAsked == Spec => []SizeMatches
<1>1. ASSUME DiskInv PROVE SizeMatches
  BY <1>1 DEF DiskInv, Sized, SizeMatches
<1> QED  BY <1>1, DiskAlways, PTL

\* A block of swap is written only once a rule of the filesystem was broken.
THEOREM SwapIsLeftAlone == Spec => []SwapUntouched
<1>1. DiskInv => SwapUntouched
  BY DEF DiskInv
<1> QED  BY <1>1, DiskAlways, PTL

------------------------------------------------------------------------------
(* The refinement of FileStore.                                             *)

\* What a file holds.
Bytes(f) == [i \in DOMAIN Bloques(f) |-> bloques[Bloques(f)[i]]]

\* The mapping, file by file, now ...
LEMMA ContentsNow ==
  /\ DOMAIN Contenido = File /\ Contenido = [f \in File |-> Contenido[f]]
  /\ \A f \in File : Contenido[f] = IF f \in Creados THEN Bytes(f) ELSE Ausente
BY DEF Contenido, Bytes, Creados

\* ... and after a step.
LEMMA ContentsNext ==
  /\ DOMAIN Contenido' = File /\ Contenido' = [f \in File |-> Contenido'[f]]
  /\ \A f \in File : Contenido'[f] = IF f \in Creados' THEN Bytes(f)' ELSE Ausente
BY DEF Contenido, Bytes, Creados

\* The contents of a file are a sequence of data, one block after another ...
LEMMA BytesNow ==
  ASSUME DiskTyping, NEW f \in File
  PROVE  /\ Bytes(f) \in [1..Len(Bloques(f)) -> Data] /\ Bytes(f) \in Seq(Data) /\ Bytes(f) # Ausente
         /\ \A i \in 1..Len(Bloques(f)) : Bytes(f)[i] = bloques[Bloques(f)[i]]
         /\ DOMAIN Bytes(f) = 1..Len(Bloques(f)) /\ Len(Bloques(f)) \in 0..BlockCount
<1>1. PICK c : c = Bloques(f)
  OBVIOUS
<1>2. EsCadena(fat, Inicial(f), c)
  BY <1>1, ChainsNow
<1>3. c \in Seq(Entradas \ {0}) /\ Len(c) <= BlockCount
  BY <1>2 DEF EsCadena
<1>4. Len(c) \in Nat /\ DOMAIN c = 1..Len(c) /\ \A i \in 1..Len(c) : c[i] \in Entradas
  BY <1>3, LenProperties
<1>5. Bytes(f) = [i \in 1..Len(c) |-> bloques[c[i]]]
  BY <1>1, <1>4 DEF Bytes
<1>6. Bytes(f) \in [1..Len(c) -> Data]
  BY <1>4, <1>5 DEF DiskTyping
<1>7. Bytes(f) \in Seq(Data)
  BY <1>4, <1>6, IsASeq
<1> QED  BY <1>1, <1>3, <1>4, <1>5, <1>6, <1>7, FilesAssumption, Entries

\* ... and so they are after a step.
LEMMA BytesNext ==
  ASSUME DiskTyping', NEW CONSTANT f \in File
  PROVE  /\ Bytes(f)' \in [1..Len(Bloques(f)') -> Data] /\ Bytes(f)' \in Seq(Data) /\ Bytes(f)' # Ausente
         /\ \A i \in 1..Len(Bloques(f)') : Bytes(f)'[i] = bloques'[Bloques(f)'[i]]
         /\ DOMAIN Bytes(f)' = 1..Len(Bloques(f)') /\ Len(Bloques(f)') \in 0..BlockCount
<1>1. PICK c : c = Bloques(f)'
  OBVIOUS
<1>2. EsCadena(fat', Inicial(f)', c)
  BY <1>1, ChainsNext
<1>3. c \in Seq(Entradas \ {0}) /\ Len(c) <= BlockCount
  BY <1>2 DEF EsCadena
<1>4. Len(c) \in Nat /\ DOMAIN c = 1..Len(c) /\ \A i \in 1..Len(c) : c[i] \in Entradas
  BY <1>3, LenProperties
<1>5. Bytes(f)' = [i \in 1..Len(c) |-> bloques'[c[i]]]
  BY <1>1, <1>4 DEF Bytes
<1>6. Bytes(f)' \in [1..Len(c) -> Data]
  BY <1>4, <1>5 DEF DiskTyping
<1>7. Bytes(f)' \in Seq(Data)
  BY <1>4, <1>6, IsASeq
<1> QED  BY <1>1, <1>3, <1>4, <1>5, <1>6, <1>7, FilesAssumption, Entries

\* No chain and no block changes: neither do the contents.
LEMMA SameContents ==
  ASSUME Quieto, Creados' = Creados, bloques' = bloques
  PROVE  Contenido' = Contenido
<1>1. \A f \in File : Bytes(f)' = Bytes(f)
  BY NothingMoves DEF Bytes
<1>2. \A f \in File : Contenido'[f] = Contenido[f]
  BY <1>1, ContentsNow, ContentsNext
<1> QED  BY <1>2, ContentsNow, ContentsNext

\* crear_archivo is Create.
LEMMA StoreCreates ==
  ASSUME DiskTyping, NEW CONSTANT f \in File, Quieto, bloques' = bloques,
         Creados' = Creados \cup {f}, f \notin Creados, Inicial(f) = 0
  PROVE  Store!Create(f)
<1>1. \A g \in File : Bytes(g)' = Bytes(g)
  BY NothingMoves DEF Bytes
<1>2. Bloques(f) = <<>> /\ Len(Bloques(f)) = 0
  BY EmptyChain
<1>3. Bytes(f) = <<>>
  BY <1>2, BytesNow, EmptySeq
<1>4. Contenido[f] = Ausente /\ Contenido' = [Contenido EXCEPT ![f] = <<>>]
  BY <1>1, <1>3, ContentsNow, ContentsNext
<1> QED  BY <1>4 DEF Store!Create

\* The write of the FAT is Resize: what stays in the file keeps its place.
LEMMA StoreResizes ==
  ASSUME DiskTyping, DiskTyping', Resizing, Existing, Chained, TruncarFat,
         SinAviso({"zeroed", "noroom"})'
  PROVE  \E f \in File : Store!Resize(f)
<1>1. SinAviso({"zeroed", "noroom"}) /\ truncando.archivo \in Creados
  BY TruncateChanges
<1>2. PICK d, mas, menos : Cambio(d, mas, menos)
  BY TruncateChanges
<1>3. PICK f \in File : f = truncando.archivo /\ f \in Creados
  BY <1>1 DEF Creados
<1>4. PICK c : c = Bloques(f)
  OBVIOUS
<1>5. Sigue(d, c)
  BY <1>2, <1>3, <1>4 DEF Cambio
<1>6. /\ Bloques(f)' = d
      /\ \A g \in Creados : g # f => Bloques(g)' = Bloques(g)
  BY <1>1, <1>2, <1>3, BlocksAfterTruncate
<1>7. Creados' = Creados /\ bloques' = bloques
  BY TruncateStep
<1>8. Contenido[f] = Bytes(f) /\ Contenido'[f] = Bytes(f)'
  BY <1>3, <1>7, ContentsNow, ContentsNext
<1>9. \A g \in Creados : g # f => Bytes(g)' = Bytes(g)
  BY <1>6, <1>7 DEF Bytes
<1>10. Contenido' = [Contenido EXCEPT ![f] = Contenido'[f]]
  BY <1>7, <1>9, ContentsNow, ContentsNext
<1>11. Contenido[f] # Ausente /\ Contenido'[f] # Ausente
  BY <1>8, BytesNow, BytesNext
<1>12. \E n \in 0..BlockCount : Contenido'[f] \in [1..n -> Data]
  BY <1>8, BytesNext
<1>13. \A i \in DOMAIN Contenido[f] \cap DOMAIN Contenido'[f] : Contenido'[f][i] = Contenido[f][i]
  <2>1. /\ DOMAIN Contenido[f] = 1..Len(c) /\ DOMAIN Contenido'[f] = 1..Len(d)
        /\ \A i \in 1..Len(c) : Contenido[f][i] = bloques[c[i]]
        /\ \A i \in 1..Len(d) : Contenido'[f][i] = bloques[d[i]]
    BY <1>4, <1>6, <1>7, <1>8, BytesNow, BytesNext
  <2>2. Len(d) \in Nat
    BY <1>6, BytesNext
  <2>3. \A i \in 1..Len(c) : i \in 1..Len(d) => d[i] = c[i]
    BY <1>5, <2>2 DEF Sigue
  <2> QED  BY <2>1, <2>3
<1>14. Store!Resize(f)
  BY <1>10, <1>11, <1>12, <1>13 DEF Store!Resize
<1> QED  BY <1>14

\* A block that is written is of one file, at one place, or of none.
LEMMA StoreWrites ==
  ASSUME DiskTyping, DiskTyping', Chained, SinAviso({"zeroed", "noroom"}),
         Quieto, Creados' = Creados, NEW b, NEW d \in Data, bloques' = [bloques EXCEPT ![b] = d]
  PROVE  (\E f \in File : Store!Write(f)) \/ Contenido' = Contenido
<1>1. /\ \A f \in Creados : Entera(fat, Inicial(f), Bloques(f))
      /\ \A f, g \in Creados : f # g => Ocupa(Bloques(f)) \cap Ocupa(Bloques(g)) = {}
  BY DEF Chained
<1>2. /\ \A f \in File : Bloques(f)' = Bloques(f)
      /\ Creados \subseteq File
  BY NothingMoves DEF Creados
<1>3. ASSUME NEW f \in Creados
      PROVE  /\ Bytes(f) \in [1..Len(Bloques(f)) -> Data]
             /\ Bytes(f)' \in [1..Len(Bloques(f)) -> Data]
             /\ \A i \in 1..Len(Bloques(f)) :
                  /\ Bytes(f)[i] = bloques[Bloques(f)[i]]
                  /\ Bytes(f)'[i] = IF Bloques(f)[i] = b THEN d ELSE bloques[Bloques(f)[i]]
  <2>1. /\ Bytes(f) \in [1..Len(Bloques(f)) -> Data]
        /\ Bytes(f)' \in [1..Len(Bloques(f)) -> Data]
        /\ \A i \in 1..Len(Bloques(f)) :
             Bytes(f)[i] = bloques[Bloques(f)[i]] /\ Bytes(f)'[i] = bloques'[Bloques(f)[i]]
    BY <1>2, BytesNow, BytesNext
  <2>2. \A i \in 1..Len(Bloques(f)) : Bloques(f)[i] \in Entradas
    BY <1>1, LenProperties DEF Entera
  <2>3. \A e \in Entradas : bloques'[e] = IF e = b THEN d ELSE bloques[e]
    BY DEF DiskTyping
  <2> QED  BY <2>1, <2>2, <2>3
<1>4. ASSUME NEW f \in Creados, b \notin Ocupa(Bloques(f)) PROVE Bytes(f)' = Bytes(f)
  <2>1. \A i \in 1..Len(Bloques(f)) : Bloques(f)[i] # b
    BY <1>4 DEF Ocupa
  <2>2. \A i \in 1..Len(Bloques(f)) : Bytes(f)'[i] = Bytes(f)[i]
    BY <1>3, <2>1
  <2> QED  BY <1>3, <2>2
<1>5. CASE \A f \in Creados : b \notin Ocupa(Bloques(f))
  <2>1. \A f \in File : Contenido'[f] = Contenido[f]
    BY <1>4, <1>5, ContentsNow, ContentsNext
  <2> QED  BY <2>1, ContentsNow, ContentsNext
<1>6. ASSUME NEW f \in Creados, b \in Ocupa(Bloques(f)) PROVE Store!Write(f)
  <2>1. PICK i \in 1..Len(Bloques(f)) : Bloques(f)[i] = b
    BY <1>6 DEF Ocupa
  <2>2. \A j \in 1..Len(Bloques(f)) : Bloques(f)[j] = b => j = i
    BY <1>1, <2>1 DEF Entera, Distinta
  <2>3. \A j \in 1..Len(Bloques(f)) : Bytes(f)'[j] = IF j = i THEN d ELSE Bytes(f)[j]
    BY <1>3, <2>1, <2>2
  <2>4. Bytes(f)' = [Bytes(f) EXCEPT ![i] = d]
    BY <1>3, <2>3
  <2>5. \A g \in Creados : g # f => Bytes(g)' = Bytes(g)
    BY <1>1, <1>4, <1>6
  <2>6. Contenido' = [Contenido EXCEPT ![f] = Bytes(f)']
    BY <1>2, <2>5, ContentsNow, ContentsNext
  <2>7. Contenido[f] = Bytes(f) /\ Contenido[f] # Ausente /\ f \in File
    BY <1>2, BytesNow, ContentsNow
  <2>8. Contenido' = [Contenido EXCEPT ![f][i] = d]
    BY <2>4, <2>6, <2>7
  <2>9. i \in DOMAIN Contenido[f]
    BY <1>3, <2>1, <2>7
  <2> QED  BY <2>7, <2>8, <2>9 DEF Store!Write
<1> QED  BY <1>2, <1>5, <1>6

\* What the filesystem does is what FileStore allows, or changes no contents.
LEMMA StoreSteps ==
  ASSUME DiskInv, DiskInv', [Next]_vars, avisos' \cap {"zeroed", "torn", "noroom", "pastend"} = {}
  PROVE  Store!Next \/ Contenido' = Contenido
<1>0. /\ LockTyping /\ DiskTyping /\ DiskTyping' /\ Existing /\ Resizing /\ Chained /\ Claimed /\ Sized
      /\ SinAviso({"zeroed", "noroom"}) /\ SinAviso({"zeroed", "noroom"})'
  BY NoticesStay DEF DiskInv, LockInv, SinAviso
<1>1. ASSUME UNCHANGED fatVars PROVE Contenido' = Contenido
  <2>1. Quieto /\ Creados' = Creados /\ bloques' = bloques
    BY <1>0, <1>1, UntouchedKeeps DEF fatVars
  <2> QED  BY <2>1, SameContents
<1>2. ASSUME NEW p \in carga.procesos, NEW f \in carga.archivos, Call(p, f)
      PROVE  Store!Next \/ Contenido' = Contenido
  <2>0. llamada = SinLlamada
    BY <1>2 DEF Call, Open, Close, Read, Write, Seek, Truncate, FOpen, FClose, FRead, FWrite, FSeek,
                FTruncate, Atiende
  <2>1. truncando = Ninguna /\ f \in File
    BY <1>0, <2>0, FreeMeansDone, FilesAssumption DEF LockTyping
  <2>2. ASSUME NEW n \in carga.tamanios, Truncate(p, f, n) PROVE Contenido' = Contenido
    <3>1. EmpezarTruncar(f, n) /\ UNCHANGED <<fat, fcb, bloques, avisos>>
      BY <2>2 DEF Truncate
    <3>2. Quieto /\ Creados' = Creados
      BY <1>0, <2>1, <3>1, BeginTruncateKeeps
    <3> QED  BY <3>1, <3>2, SameContents
  <2>3. CASE AbrirOCrear(f)
    <3>1. CASE UNCHANGED fatVars
      BY <1>1, <3>1
    <3>2. CASE ~Existe(f) /\ Crear(f)
      <4>1. Quieto /\ Creados' = Creados \cup {f} /\ f \notin Creados /\ Inicial(f) = 0
        BY <1>0, <2>1, <3>2, CreateKeeps
      <4>2. Store!Create(f)
        BY <1>0, <2>1, <3>2, <4>1, StoreCreates DEF Crear
      <4> QED  BY <2>1, <4>2 DEF Store!Next
    <3> QED  BY <2>3, <3>1, <3>2 DEF AbrirOCrear
  <2> QED  BY <1>1, <1>2, <2>2, <2>3 DEF Call, Open, Close, Read, Write, Seek
<1>3. CASE ServeTruncate
  <2>1. CASE TruncarFat
    BY <1>0, <2>1, StoreResizes DEF Store!Next
  <2>2. CASE TruncarFcb
    <3>1. Quieto /\ Creados' = Creados
      BY <1>0, <2>2, SaveKeeps
    <3> QED  BY <2>2, <3>1, SameContents DEF TruncarFcb
  <2> QED  BY <1>3, <2>1, <2>2 DEF ServeTruncate
<1>4. CASE ServeRead
  BY <1>1, <1>4 DEF ServeRead, Leer
<1>5. CASE ServeWrite
  <2>1. PICK d \in Data : Escribir(llamada.archivo, llamada.arg, d)
    BY <1>5 DEF ServeWrite
  <2>2. UNCHANGED <<fat, fcb, truncando>> /\ avisos \subseteq avisos'
    BY <2>1 DEF Escribir
  <2>3. Quieto /\ Creados' = Creados
    BY <1>0, <2>2, UntouchedKeeps
  <2>4. bloques' = bloques \/ \E b : bloques' = [bloques EXCEPT ![b] = d]
    BY <2>1 DEF Escribir
  <2>5. CASE bloques' = bloques
    BY <2>3, <2>5, SameContents
  <2>6. ASSUME NEW b, bloques' = [bloques EXCEPT ![b] = d] PROVE Store!Next \/ Contenido' = Contenido
    BY <1>0, <2>3, <2>6, StoreWrites DEF Store!Next
  <2> QED  BY <2>4, <2>5, <2>6
<1>6. CASE Restart
  <2>1. Reinicio
    BY <1>6 DEF Restart
  <2>2. truncando.paso # "fcb"
    <3>1. truncando.paso = "fcb" => "zeroed" \in avisos' \/ "torn" \in avisos'
      BY <2>1 DEF Reinicio
    <3> QED  BY <3>1
  <2>3. Quieto /\ Creados' = Creados
    BY <1>0, <2>1, <2>2, CutShortKeeps
  <2> QED  BY <2>1, <2>3, SameContents DEF Reinicio
<1>7. ASSUME NEW p \in carga.procesos, End(p) PROVE Contenido' = Contenido
  BY <1>1, <1>7 DEF End
<1>8. CASE UNCHANGED vars
  BY <1>1, <1>8 DEF vars
<1> QED  BY <1>2, <1>3, <1>4, <1>5, <1>6, <1>7, <1>8 DEF Next, Step

\* The filesystem does what FileStore promises, as long as no write is past the
\* end and every truncation has its blocks.
THEOREM FilesAreStored == Spec => IsFileStore
<1>1. Init => Store!Init
  BY DEF Init, FatInit, Store!Init, Contenido, Existe
<1>2. DiskInv /\ DiskInv' /\ [Next]_vars =>
        [avisos' \cap {"zeroed", "torn", "noroom", "pastend"} = {} => Store!Next]_Contenido
  BY StoreSteps
<1> QED  BY <1>1, <1>2, DiskAlways, PTL DEF Spec, IsFileStore

==============================================================================
