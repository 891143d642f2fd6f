----------------------------- MODULE PagingProofs -----------------------------
(* Paged memory, proved for any processes, sizes, frames and blocks.        *)
EXTENDS Paging, QueueLemmas, FiniteSetTheorems, TLAPS

------------------------------------------------------------------------------
(* Numbers of a finite set of naturals by rank.                              *)
LEMMA RankIsStrict ==
  ASSUME NEW F, IsFiniteSet(F), F \subseteq Nat, NEW b \in F, NEW c \in F, b < c
  PROVE  Cardinality({d \in F : d < b}) < Cardinality({d \in F : d < c})
<1> DEFINE B == {d \in F : d < b}
           C == {d \in F : d < c}
<1>1. IsFiniteSet(B) /\ IsFiniteSet(C)
  BY FS_Subset
<1>2. B \cup {b} \subseteq C /\ b \notin B
  <2>1. \A d \in F : d < b => d < c
    OBVIOUS
  <2>2. ~(b < b)
    OBVIOUS
  <2> QED  BY <2>1, <2>2
<1>3. Cardinality(B \cup {b}) = Cardinality(B) + 1 /\ IsFiniteSet(B \cup {b})
  BY <1>1, <1>2, FS_AddElement
<1>4. Cardinality(B \cup {b}) <= Cardinality(C)
  BY <1>1, <1>2, FS_Subset
<1>5. Cardinality(B) \in Nat /\ Cardinality(C) \in Nat
  BY <1>1, FS_CardinalityType
<1> QED  BY <1>3, <1>4, <1>5

(* Addresses *)
LEMMA PageOfAddress ==
  ASSUME NEW n \in Nat, NEW k \in Nat \ {0}, NEW a \in 0..(n * k - 1)
  PROVE  a \div k \in 0..(n - 1) /\ a - (a \div k) * k \in 0..(k - 1)
<1>1. a \in Nat /\ n * k \in Nat /\ a < n * k
  OBVIOUS
<1>2. k * (a \div k) <= a /\ a < k * (a \div k) + k
  BY <1>1
<1>3. a \div k \in Nat /\ a \div k < n
  BY <1>1
<1>4. PICK d \in Nat : d = a \div k
  BY <1>3
<1>5. a - d * k \in 0..(k - 1)
  BY <1>1, <1>2, <1>4
<1> QED  BY <1>3, <1>4, <1>5

LEMMA AddressOfFrame ==
  ASSUME NEW n \in Nat, NEW k \in Nat \ {0}, NEW m \in 0..(n - 1), NEW o \in 0..(k - 1)
  PROVE  m * k + o \in 0..(n * k - 1)
<1>1. m * k \in Nat /\ m * k + k = (m + 1) * k
  OBVIOUS
<1>2. (m + 1) * k <= n * k
  OBVIOUS
<1> QED  BY <1>1, <1>2

------------------------------------------------------------------------------
(* The inductive invariants.                                                *)

Entrada == [marco : Marcos, presencia : BOOLEAN, modificado : BOOLEAN, swap : Bloques]
Acceso == [st : {"idle", "mov", "mark", "file", "fault"}, pagina : Pagina \cup {Nadie},
           uso : Usos, dir : 0 .. config.marcos * PageSize - 1]
Carga == [st : {"idle", "asked", "lock", "out", "in"}, pagina : Pagina \cup {Nadie},
          marco : Marcos, pos : Bloques, dato : Pagina \cup {Nadie}]

Setup == config \in Configuraciones
Stages == estado \in [Process -> {"nuevo", "vivo", "sinSwap", "sinMarcos", "fin"}]
Tables == paginas \in [Pagina -> Entrada]
Ages == /\ orden \in Seq(Pagina) /\ IsInjective(orden)
        /\ \A x \in Pagina : EnMemoria(x) => x \in ToSet(orden)
Waiting == pendientes \in Seq(Pagina) /\ Len(pendientes) <= MaxPending
Frames == ocupados \subseteq Marcos /\ enMarco \in [Marcos -> Pagina \cup {Nadie}]
Blocks == bitarray \subseteq Bloques /\ enBloque \in [Bloques -> Pagina \cup {Nadie}]
Accessing == /\ cpu \in Acceso
             /\ cpu.st # "idle" => cpu.pagina \in Pagina
Loading == /\ loader \in Carga
           /\ loader.st # "idle" => loader.pagina \in Pagina
           /\ loader.st = "idle" => loader.pagina = Nadie
Rest == lock \in {"free", "held", "lost"} /\ causas \subseteq Causas

(* Types; the page being served or asked for is one; a present page has an   *)
(* age.                                                                      *)
Typing == /\ Setup /\ Stages /\ Tables /\ Ages /\ Waiting /\ Frames /\ Blocks
          /\ Accessing /\ Loading /\ Rest

ConMarco(x) == estado[PidDe(x)] \in {"vivo", "sinSwap"} /\ paginas[x].presencia
Cargando == loader.st \in {"out", "in"}
Esperando == cpu.st \in {"mov", "mark", "fault"}

(* The order of the steps of an access and of a load: the process whose word *)
(* is read or written lives, the page being loaded is not present, and the   *)
(* process that waits for it does not execute.                               *)
Turns ==
  /\ Esperando => estado[PidDe(cpu.pagina)] = "vivo"
  /\ cpu.st = "fault" => ~paginas[cpu.pagina].presencia
  /\ loader.st # "idle" => ~paginas[loader.pagina].presencia
  /\ Esperando /\ loader.st # "idle" => PidDe(cpu.pagina) # PidDe(loader.pagina)
  /\ cpu.st = "mark" => cpu.uso = "MOV_OUT"

(* A frame in use is that of a present page or of the load under way.        *)
Tenido(m) == \/ \E x \in Pagina : ConMarco(x) /\ paginas[x].marco = m
             \/ Cargando /\ loader.marco = m
Held == "orphan" \notin causas => \A m \in ocupados : Tenido(m)

(* Frames have one page, and the load under way a frame of its own.          *)
Apart ==
  SinCausa({"clean", "orphan"}) =>
    /\ \A x, y \in Pagina :
         ConMarco(x) /\ ConMarco(y) /\ paginas[x].marco = paginas[y].marco => x = y
    /\ \A x \in Pagina : ConMarco(x) => paginas[x].marco \in ocupados
    /\ Cargando => \A x \in Pagina : ConMarco(x) => paginas[x].marco # loader.marco

(* The contents of every live page, and of the block being written.          *)
Kept ==
  SinCausa({"clean", "stale", "spill", "full", "orphan"}) =>
    /\ loader.st = "out" => \E v \in Vivas : /\ paginas[v].swap = loader.pos /\ loader.dato = v
                                             /\ ~paginas[v].presencia
    /\ \A x \in Vivas : paginas[x].presencia => enMarco[paginas[x].marco] = x
    /\ \A x \in Vivas : ~paginas[x].presencia =>
         \/ enBloque[paginas[x].swap] = x
         \/ loader.st = "out" /\ loader.pos = paginas[x].swap /\ loader.dato = x

(* Writes are marked: with nothing wrong, what waits to be marked is the     *)
(* page the CPU is writing, and the mark finds it by its frame.              *)
Marked ==
  causas = {} =>
    /\ pendientes = IF cpu.st \in {"mov", "mark"} /\ cpu.uso = "MOV_OUT"
                    THEN <<cpu.pagina>> ELSE <<>>
    /\ cpu.st = "mark" => paginas[cpu.pagina].marco = espacio_obtener_frame(cpu.dir)
    /\ \A x \in Vivas : paginas[x].presencia /\ enBloque[paginas[x].swap] # x
         => paginas[x].modificado \/ (cpu.st = "mark" /\ cpu.pagina = x)

------------------------------------------------------------------------------
(* Pages and addresses.                                                     *)

LEMMA Pages ==
  /\ \A p \in Process : \A i \in 0 .. PageCount[p] - 1 : <<p, i>> \in Pagina
  /\ \A x \in Pagina : /\ PidDe(x) \in Process /\ x[2] \in 0 .. PageCount[PidDe(x)] - 1
                       /\ x = <<PidDe(x), x[2]>>
  /\ Nadie \notin Pagina
<1>1. ASSUME NEW p \in Process, NEW i \in 0 .. PageCount[p] - 1
      PROVE  <<p, i>> \in Pagina
  BY <1>1 DEF Pagina
<1>2. ASSUME NEW x \in Pagina
      PROVE  /\ PidDe(x) \in Process /\ x[2] \in 0 .. PageCount[PidDe(x)] - 1
             /\ x = <<PidDe(x), x[2]>>
  <2>1. PICK p \in Process : x \in {p} \X (0 .. PageCount[p] - 1)
    BY <1>2 DEF Pagina
  <2> QED  BY <2>1 DEF PidDe
<1>3. Nadie \notin Pagina
  <2>1. SUFFICES ASSUME Nadie \in Pagina PROVE FALSE
    OBVIOUS
  <2>2. PICK p \in Process : Nadie \in {p} \X (0 .. PageCount[p] - 1)
    BY <2>1 DEF Pagina
  <2> QED  BY <2>2 DEF Nadie
<1> QED  BY <1>1, <1>2, <1>3

LEMMA Sizes ==
  ASSUME Setup
  PROVE  /\ config.marcos \in Nat \ {0} /\ config.bloques \in Nat \ {0}
         /\ 0 \in Marcos /\ 0 \in Bloques
         /\ Marcos \subseteq Nat /\ Bloques \subseteq Nat
<1>1. config.marcos \in FrameCounts /\ config.bloques \in SwapSizes
  BY DEF Setup, Configuraciones
<1>2. FrameCounts \subseteq Nat \ {0} /\ SwapSizes \subseteq Nat \ {0}
  BY PagingAssumption
<1>3. config.marcos \in Nat \ {0} /\ config.bloques \in Nat \ {0}
  BY <1>1, <1>2
<1> QED  BY <1>3 DEF Marcos, Bloques

\* The bits never cleared are those of blocks (inicializar_swap).
LEMMA BasuraEnBloques ==
  ASSUME Setup
  PROVE  config.basura \subseteq Bloques
<1>1. PICK n \in Nat : n = config.bloques /\ config.basura \subseteq ConBit(n) .. n - 1
  BY PagingAssumption DEF Setup, Configuraciones
<1>2. n \div Byte \in Nat /\ Byte \in Nat
  BY PagingAssumption
<1>3. ConBit(n) \in Nat
  <2>1. \A a, b \in Nat : a * b \in Nat
    OBVIOUS
  <2> QED  BY <1>2, <2>1 DEF ConBit
<1>4. ConBit(n) .. n - 1 \subseteq 0 .. n - 1
  BY <1>3
<1> QED  BY <1>1, <1>4 DEF Bloques

\* The address of a program is that of a page of the process, and its frame
\* turns it into an address of the user space (mmu.c).
LEMMA Addresses ==
  ASSUME NEW p \in Process, NEW dir \in Direccion[p]
  PROVE  /\ <<p, obtener_numero_pagina(dir)>> \in Pagina
         /\ Setup => \A m \in Marcos :
              traduccion_logica_a_fisica(dir, m) \in 0 .. config.marcos * PageSize - 1
<1>1. /\ PageCount[p] \in Nat /\ PageSize \in Nat \ {0}
      /\ dir \in 0 .. PageCount[p] * PageSize - 1
  BY PagingAssumption
<1>2. PICK n \in Nat : n = PageCount[p]
  BY <1>1
<1>3. dir \in 0 .. n * PageSize - 1
  BY <1>1, <1>2
<1>4. /\ dir \div PageSize \in 0 .. n - 1
      /\ dir - (dir \div PageSize) * PageSize \in 0 .. PageSize - 1
  BY <1>1, <1>3, PageOfAddress
<1>5. <<p, obtener_numero_pagina(dir)>> \in Pagina
  BY <1>2, <1>4, Pages DEF obtener_numero_pagina
<1>6. ASSUME Setup, NEW m \in Marcos
      PROVE  traduccion_logica_a_fisica(dir, m) \in 0 .. config.marcos * PageSize - 1
  <2>1. PICK k \in Nat : k = config.marcos
    BY <1>6, Sizes
  <2>2. m \in 0 .. k - 1
    BY <1>6, <2>1 DEF Marcos
  <2>3. PICK o \in 0 .. PageSize - 1 : o = obtener_desplazamiento(dir)
    BY <1>4 DEF obtener_desplazamiento, obtener_numero_pagina
  <2>4. m * PageSize + o \in 0 .. k * PageSize - 1
    BY <1>1, <2>2, AddressOfFrame
  <2> QED  BY <2>1, <2>3, <2>4 DEF traduccion_logica_a_fisica
<1> QED  BY <1>5, <1>6

\* The free blocks of swap have different ranks, so a page gets one that no
\* other page gets (asignar_bloques_swap).
LEMMA Ranks ==
  ASSUME Setup
  PROVE  /\ \A b \in Libres : Rango(b) \in Nat
         /\ \A b, c \in Libres : Rango(b) = Rango(c) => b = c
<1>1. IsFiniteSet(Libres) /\ Libres \subseteq Nat
  <2>1. IsFiniteSet(Bloques) /\ Bloques \subseteq Nat
    <3>1. PICK k \in Nat : k = config.bloques
      BY Sizes
    <3>2. IsFiniteSet(0 .. k - 1) /\ 0 .. k - 1 \subseteq Nat
      BY FS_Interval
    <3> QED  BY <3>1, <3>2 DEF Bloques
  <2> QED  BY <2>1, FS_Subset DEF Libres
<1>2. ASSUME NEW b \in Libres PROVE Rango(b) \in Nat
  <2>1. IsFiniteSet({c \in Libres : c < b})
    BY <1>1, FS_Subset
  <2> QED  BY <2>1, FS_CardinalityType DEF Rango
<1>3. ASSUME NEW b \in Libres, NEW c \in Libres, b < c PROVE Rango(b) < Rango(c)
  BY <1>1, <1>3, RankIsStrict DEF Rango
<1>4. ASSUME NEW b \in Libres, NEW c \in Libres, Rango(b) = Rango(c) PROVE b = c
  <2>1. b < c \/ c < b \/ b = c
    BY <1>1
  <2>2. ~(Rango(b) < Rango(c)) /\ ~(Rango(c) < Rango(b))
    BY <1>2, <1>4
  <2> QED  BY <1>3, <2>1, <2>2
<1> QED  BY <1>2, <1>4

LEMMA Positions ==
  ASSUME Setup, NEW i
  PROVE  /\ PosicionSwap(i) \in Bloques
         /\ ~SinBloque(i) => PosicionSwap(i) \in Libres /\ Rango(PosicionSwap(i)) = i
BY Sizes DEF PosicionSwap, SinBloque, Libres

LEMMA Recent ==
  ASSUME NEW x \in Pagina, orden \in Seq(Pagina), IsInjective(orden)
  PROVE  /\ Reciente(x) \in Seq(Pagina) /\ IsInjective(Reciente(x))
         /\ ToSet(Reciente(x)) = ToSet(orden) \cup {x}
<1>1. PICK q \in Seq(Pagina) : /\ q = RemoveFirst(orden, x) /\ IsInjective(q)
                               /\ ToSet(q) = ToSet(orden) \ {x}
  BY RemoveFirstRemoves
<1>2. /\ Append(q, x) \in Seq(Pagina) /\ IsInjective(Append(q, x))
      /\ ToSet(Append(q, x)) = ToSet(q) \cup {x}
  BY <1>1, AppendAdds
<1> QED  BY <1>1, <1>2 DEF Reciente

\* The victim is a present page (encontrar_pagina_FIFO, encontrar_pagina_LRU).
LEMMA Victim ==
  ASSUME Ages, \E x \in Pagina : EnMemoria(x)
  PROVE  Victima \in Pagina /\ EnMemoria(Victima)
<1> DEFINE I == {i \in 1 .. Len(orden) : EnMemoria(orden[i])}
<1>1. Len(orden) \in Nat /\ \A i \in 1 .. Len(orden) : orden[i] \in Pagina
  BY LenProperties DEF Ages
<1>2. I # {} /\ I \subseteq Nat
  BY <1>1, Members DEF Ages
<1>3. PICK i \in I : i = Min(I)
  BY <1>2, LeastNumber
<1>4. Victima = orden[i]
  BY <1>2, <1>3 DEF Victima, SelectInSeq
<1> QED  BY <1>1, <1>3, <1>4

LEMMA FreeFrame ==
  ASSUME Setup, Marcos \ ocupados # {}
  PROVE  FrameLibre \in Marcos \ ocupados
<1>1. Marcos \ ocupados \subseteq Nat
  BY Sizes
<1> QED  BY <1>1, LeastNumber DEF FrameLibre

------------------------------------------------------------------------------
(* Types.                                                                   *)

\* espacio_escribir_valor, wherever it is called from.
LEMMA WritesTypes ==
  ASSUME Typing, NEW x \in Pagina, NEW m, NEW ms, NEW toda \in BOOLEAN,
         Escritura(x, m, ms, toda), config' = config
  PROVE  /\ enMarco' \in [Marcos -> Pagina \cup {Nadie}]
         /\ enBloque' \in [Bloques -> Pagina \cup {Nadie}]
         /\ Loading'
<1>1. enMarco' \in [Marcos -> Pagina \cup {Nadie}]
  BY DEF Typing, Frames, Escritura
<1>2. enBloque' \in [Bloques -> Pagina \cup {Nadie}]
  BY DEF Typing, Blocks, Escritura
<1>3. loader' = [loader EXCEPT !.dato = Nadie] \/ loader' = loader
  BY DEF Escritura
<1>4. Loading'
  BY <1>3 DEF Typing, Loading, Carga, Marcos, Bloques
<1> QED  BY <1>1, <1>2, <1>4

LEMMA IdleTypes ==
  ASSUME Setup
  PROVE  CpuIdle \in Acceso /\ LoaderIdle \in Carga /\ EntradaNueva \in Entrada
<1>1. 0 \in 0 .. config.marcos * PageSize - 1
  <2>1. PICK k \in Nat \ {0} : k = config.marcos
    BY Sizes
  <2>2. PICK t \in Nat \ {0} : t = PageSize
    BY PagingAssumption
  <2>3. k * t > 0 /\ k * t \in Nat
    OBVIOUS
  <2> QED  BY <2>1, <2>2, <2>3
<1> QED  BY <1>1, Sizes DEF CpuIdle, Acceso, Usos, LoaderIdle, Carga, EntradaNueva, Entrada

LEMMA NewProcessTypes ==
  ASSUME NEW p \in Process, Typing, NewProcess(p)
  PROVE  Typing'
<1>1. Setup'
  BY DEF Typing, Setup, NewProcess, GenerarTabla, AsignarBloques, EntradaNueva, memoryVars, swapVars
<1>2. Stages'
  BY DEF Typing, Stages, NewProcess, GenerarTabla, AsignarBloques, EntradaNueva, memoryVars, swapVars
<1>3. Tables'
  <2>1. ASSUME NEW i PROVE [EntradaNueva EXCEPT !.swap = PosicionSwap(i)] \in Entrada
    <3>1. PosicionSwap(i) \in Bloques /\ EntradaNueva \in Entrada
      BY Positions, IdleTypes DEF Typing
    <3> QED  BY <3>1 DEF Entrada
  <2> QED  BY <2>1 DEF Typing, Tables, NewProcess, GenerarTabla, Entrada, Marcos, Bloques
<1>4. Ages'
  BY DEF Typing, Ages, EnMemoria, TieneTabla, NewProcess, GenerarTabla, AsignarBloques, EntradaNueva, memoryVars, swapVars
<1>5. Waiting'
  BY DEF Typing, Waiting, NewProcess, GenerarTabla, AsignarBloques, EntradaNueva, memoryVars, swapVars
<1>6. Frames'
  BY DEF Typing, Frames, Marcos, NewProcess, GenerarTabla, AsignarBloques, EntradaNueva, memoryVars, swapVars
<1>7. Blocks'
  <2>1. \A b \in Libres : Rango(b) < PageCount[p] => <<p, Rango(b)>> \in Pagina
    BY Ranks, Pages, PagingAssumption DEF Typing
  <2> QED  BY <2>1 DEF Typing, Blocks, Bloques, NewProcess, AsignarBloques, Libres, swapVars
<1>8. Accessing'
  BY DEF Typing, Accessing, Acceso, NewProcess, GenerarTabla, AsignarBloques, EntradaNueva, memoryVars, swapVars
<1>9. Loading'
  BY DEF Typing, Loading, Carga, Marcos, Bloques, NewProcess, GenerarTabla, AsignarBloques, EntradaNueva, memoryVars, swapVars
<1>10. Rest'
  BY DEF Typing, Rest, Causas, NewProcess, GenerarTabla, AsignarBloques, EntradaNueva, memoryVars, swapVars
<1> QED  BY <1>1, <1>2, <1>3, <1>4, <1>5, <1>6, <1>7, <1>8, <1>9, <1>10 DEF Typing

LEMMA FrameRequestTypes ==
  ASSUME NEW p \in Process, NEW uso \in Usos, NEW dir \in Direccion[p],
         Typing, FrameRequest(p, dir, uso)
  PROVE  Typing'
<1> DEFINE x == <<p, obtener_numero_pagina(dir)>>
<1>0. x \in Pagina
  BY Addresses
<1>1. Setup'
  BY DEF Typing, Setup, FrameRequest, ObtenerMarco, CpuIdle, memoryVars, swapVars
<1>2. Stages'
  BY DEF Typing, Stages, FrameRequest, ObtenerMarco, CpuIdle, memoryVars, swapVars
<1>3. Tables'
  BY DEF Typing, Tables, Entrada, Marcos, Bloques, FrameRequest, ObtenerMarco, CpuIdle, memoryVars, swapVars
<1>4. Ages'
  <2>1. orden' = orden \/ orden' = Reciente(x)
    BY DEF FrameRequest, ObtenerMarco
  <2>2. estado' = estado /\ paginas' = paginas
    BY DEF FrameRequest
  <2> QED  BY <1>0, <2>1, <2>2, Recent DEF Typing, Ages, EnMemoria, TieneTabla
<1>5. Waiting'
  <2>1. \/ pendientes' = pendientes
        \/ pendientes' = Append(pendientes, x) /\ Len(pendientes) < MaxPending
    BY DEF FrameRequest, ObtenerMarco
  <2>2. MaxPending \in Nat /\ Len(pendientes) \in Nat
    BY PagingAssumption, LenProperties DEF Typing, Waiting
  <2>3. Append(pendientes, x) \in Seq(Pagina) /\ Len(Append(pendientes, x)) = Len(pendientes) + 1
    BY <1>0, AppendAdds DEF Typing, Waiting
  <2>4. PICK n \in Nat : n = Len(pendientes)
    BY <2>2
  <2>5. n < MaxPending => n + 1 <= MaxPending
    BY <2>2
  <2> QED  BY <2>1, <2>3, <2>4, <2>5 DEF Typing, Waiting
<1>6. Frames'
  BY DEF Typing, Frames, Marcos, FrameRequest, ObtenerMarco, CpuIdle, memoryVars, swapVars
<1>7. Blocks'
  BY DEF Typing, Blocks, Bloques, FrameRequest, ObtenerMarco, CpuIdle, memoryVars, swapVars
<1>8. Accessing'
  <2>1. config' = config
    BY DEF FrameRequest
  <2>2. CASE EnMemoria(x)
    <3>1. PICK d \in 0 .. config.marcos * PageSize - 1 :
            d = traduccion_logica_a_fisica(dir, paginas[x].marco)
      BY <1>0, Addresses DEF Typing, Tables, Entrada
    <3>2. PICK st \in {"mov", "file"} : cpu' = [st |-> st, pagina |-> x, uso |-> uso, dir |-> d]
      BY <2>2, <3>1 DEF FrameRequest
    <3> HIDE DEF x
    <3> QED  BY <1>0, <2>1, <3>2 DEF Accessing, Acceso
  <2>3. CASE ~EnMemoria(x)
    <3>1. cpu' = [CpuIdle EXCEPT !.st = "fault", !.pagina = x]
      BY <2>3 DEF FrameRequest
    <3> HIDE DEF x
    <3> QED  BY <1>0, <2>1, <3>1, IdleTypes DEF Accessing, Acceso, Typing
  <2> QED  BY <2>2, <2>3
<1>9. Loading'
  BY DEF Typing, Loading, Carga, Marcos, Bloques, FrameRequest, ObtenerMarco, CpuIdle, memoryVars, swapVars
<1>10. Rest'
  BY DEF Typing, Rest, Causas, FrameRequest, ObtenerMarco, CpuIdle, memoryVars, swapVars
<1> QED  BY <1>1, <1>2, <1>3, <1>4, <1>5, <1>6, <1>7, <1>8, <1>9, <1>10 DEF Typing

LEMMA MovInTypes ==
  ASSUME Typing, MovIn
  PROVE  Typing'
<1>1. Setup'
  BY DEF Typing, Setup, MovIn, CpuIdle, memoryVars, swapVars
<1>2. Stages'
  BY DEF Typing, Stages, MovIn, CpuIdle, memoryVars, swapVars
<1>3. Tables'
  BY DEF Typing, Tables, Entrada, Marcos, Bloques, MovIn, CpuIdle, memoryVars, swapVars
<1>4. Ages'
  BY DEF Typing, Ages, EnMemoria, TieneTabla, MovIn, CpuIdle, memoryVars, swapVars
<1>5. Waiting'
  BY DEF Typing, Waiting, MovIn, CpuIdle, memoryVars, swapVars
<1>6. Frames'
  BY DEF Typing, Frames, Marcos, MovIn, CpuIdle, memoryVars, swapVars
<1>7. Blocks'
  BY DEF Typing, Blocks, Bloques, MovIn, CpuIdle, memoryVars, swapVars
<1>8. Accessing'
  <2>1. config' = config /\ cpu' = CpuIdle
    BY DEF MovIn
  <2>2. CpuIdle \in Acceso /\ CpuIdle.st = "idle"
    BY IdleTypes DEF Typing, CpuIdle
  <2> QED  BY <2>1, <2>2 DEF Accessing, Acceso
<1>9. Loading'
  BY DEF Typing, Loading, Carga, Marcos, Bloques, MovIn, CpuIdle, memoryVars, swapVars
<1>10. Rest'
  BY DEF Typing, Rest, Causas, MovIn, CpuIdle, memoryVars, swapVars
<1> QED  BY <1>1, <1>2, <1>3, <1>4, <1>5, <1>6, <1>7, <1>8, <1>9, <1>10 DEF Typing

LEMMA MovOutTypes ==
  ASSUME Typing, MovOut
  PROVE  Typing'
<1>0. /\ config' = config /\ cpu' = [cpu EXCEPT !.st = "mark"] /\ cpu.pagina \in Pagina
      /\ Escritura(cpu.pagina, espacio_obtener_frame(cpu.dir),
                   {espacio_obtener_frame(cpu.dir)}, PageSize = 1)
  <2>1. cpu.st = "mov" /\ cpu.pagina \in Pagina
    <3>1. cpu.st = "mov"
      BY DEF MovOut
    <3> QED  BY <3>1 DEF Typing, Accessing
  <2> QED  BY <2>1 DEF MovOut
<1>1. Setup'
  BY DEF Typing, Setup, MovOut, Escritura, memoryVars, swapVars
<1>2. Stages'
  BY DEF Typing, Stages, MovOut, Escritura, memoryVars, swapVars
<1>3. Tables'
  BY DEF Typing, Tables, Entrada, Marcos, Bloques, MovOut, Escritura, memoryVars, swapVars
<1>4. Ages'
  BY DEF Typing, Ages, EnMemoria, TieneTabla, MovOut, Escritura, memoryVars, swapVars
<1>5. Waiting'
  BY DEF Typing, Waiting, MovOut, Escritura, memoryVars, swapVars
<1>6. Frames'
  <2>1. ocupados' = ocupados
    BY DEF MovOut
  <2> QED  BY <1>0, <2>1, WritesTypes DEF Typing, Frames, Marcos
<1>7. Blocks'
  <2>1. bitarray' = bitarray
    BY DEF MovOut
  <2> QED  BY <1>0, <2>1, WritesTypes DEF Typing, Blocks, Bloques
<1>8. Accessing'
  BY <1>0 DEF Typing, Accessing, Acceso
<1>9. Loading'
  BY <1>0, WritesTypes
<1>10. Rest'
  BY DEF Typing, Rest, Causas, MovOut, Escritura, memoryVars, swapVars
<1> QED  BY <1>1, <1>2, <1>3, <1>4, <1>5, <1>6, <1>7, <1>8, <1>9, <1>10 DEF Typing

LEMMA MarkTypes ==
  ASSUME Typing, Mark
  PROVE  Typing'
<1>0. \/ \E i \in DOMAIN pendientes :
            /\ pendientes' = RemoveAt(pendientes, i)
            /\ \/ paginas' = [paginas EXCEPT ![pendientes[i]].modificado = TRUE]
               \/ paginas' = paginas
      \/ pendientes' = pendientes /\ paginas' = paginas
  BY DEF Mark, PrimerasPendientes
<1>00. /\ config' = config /\ estado' = estado /\ orden' = orden /\ DOMAIN pendientes = 1 .. Len(pendientes)
       /\ Len(pendientes) \in Nat /\ \A i \in DOMAIN pendientes : pendientes[i] \in Pagina
  BY LenProperties DEF Mark, Typing, Waiting
<1>1. Setup'
  BY DEF Typing, Setup, Mark, CpuIdle, memoryVars, swapVars
<1>2. Stages'
  BY DEF Typing, Stages, Mark, CpuIdle, memoryVars, swapVars
<1>3. Tables'
  <2>1. CASE paginas' = paginas
    BY <1>00, <2>1 DEF Typing, Tables, Entrada, Marcos, Bloques
  <2>2. ASSUME NEW y \in Pagina, paginas' = [paginas EXCEPT ![y].modificado = TRUE]
        PROVE  Tables'
    BY <1>00, <2>2 DEF Typing, Tables, Entrada, Marcos, Bloques
  <2> QED  BY <1>0, <1>00, <2>1, <2>2
<1>4. Ages'
  <2>0. paginas' = paginas \/ \E y \in Pagina : paginas' = [paginas EXCEPT ![y].modificado = TRUE]
    BY <1>0, <1>00
  <2>1. \A y \in Pagina : paginas'[y].presencia = paginas[y].presencia
    BY <2>0 DEF Typing, Tables, Entrada
  <2> QED  BY <1>00, <2>1 DEF Typing, Ages, EnMemoria, TieneTabla
<1>5. Waiting'
  <2>1. CASE pendientes' = pendientes
    BY <2>1 DEF Typing, Waiting
  <2>2. CASE \E i \in 1 .. Len(pendientes) : pendientes' = RemoveAt(pendientes, i)
    <3>1. MaxPending \in Nat
      BY PagingAssumption
    <3> QED  BY <1>00, <2>2, <3>1, RemoveAtRemoves DEF Typing, Waiting
  <2> QED  BY <1>0, <1>00, <2>1, <2>2
<1>6. Frames'
  BY DEF Typing, Frames, Marcos, Mark, CpuIdle, memoryVars, swapVars
<1>7. Blocks'
  BY DEF Typing, Blocks, Bloques, Mark, CpuIdle, memoryVars, swapVars
<1>8. Accessing'
  <2>1. config' = config /\ cpu' = CpuIdle
    BY DEF Mark
  <2>2. CpuIdle \in Acceso /\ CpuIdle.st = "idle"
    BY IdleTypes DEF Typing, CpuIdle
  <2> QED  BY <2>1, <2>2 DEF Accessing, Acceso
<1>9. Loading'
  BY DEF Typing, Loading, Carga, Marcos, Bloques, Mark, CpuIdle, memoryVars, swapVars
<1>10. Rest'
  BY DEF Typing, Rest, Causas, Mark, CpuIdle, memoryVars, swapVars
<1> QED  BY <1>1, <1>2, <1>3, <1>4, <1>5, <1>6, <1>7, <1>8, <1>9, <1>10 DEF Typing

LEMMA FileTransferTypes ==
  ASSUME Typing, FileTransfer
  PROVE  Typing'
<1>0. \/ \E ms : Escritura(cpu.pagina, espacio_obtener_frame(cpu.dir), ms, cpu.dir % PageSize = 0)
      \/ UNCHANGED <<enMarco, enBloque, loader>>
  BY DEF FileTransfer
<1>00. config' = config /\ ocupados' = ocupados /\ bitarray' = bitarray /\ cpu.pagina \in Pagina
  <2>1. cpu.st = "file" /\ cpu.pagina \in Pagina
    <3>1. cpu.st = "file"
      BY DEF FileTransfer
    <3> QED  BY <3>1 DEF Typing, Accessing
  <2> QED  BY <2>1 DEF FileTransfer
<1>1. Setup'
  BY DEF Typing, Setup, FileTransfer, Escritura, CpuIdle, memoryVars, swapVars
<1>2. Stages'
  BY DEF Typing, Stages, FileTransfer, Escritura, CpuIdle, memoryVars, swapVars
<1>3. Tables'
  BY DEF Typing, Tables, Entrada, Marcos, Bloques, FileTransfer, Escritura, CpuIdle, memoryVars, swapVars
<1>4. Ages'
  BY DEF Typing, Ages, EnMemoria, TieneTabla, FileTransfer, Escritura, CpuIdle, memoryVars, swapVars
<1>5. Waiting'
  BY DEF Typing, Waiting, FileTransfer, Escritura, CpuIdle, memoryVars, swapVars
<1>6. Frames'
  BY <1>0, <1>00, WritesTypes DEF Typing, Frames, Marcos
<1>7. Blocks'
  BY <1>0, <1>00, WritesTypes DEF Typing, Blocks, Bloques
<1>8. Accessing'
  <2>1. config' = config /\ cpu' = CpuIdle
    BY DEF FileTransfer
  <2>2. CpuIdle \in Acceso /\ CpuIdle.st = "idle"
    BY IdleTypes DEF Typing, CpuIdle
  <2> QED  BY <2>1, <2>2 DEF Accessing, Acceso
<1>9. Loading'
  <2>1. CASE loader' = loader
    BY <1>00, <2>1 DEF Typing, Loading, Carga, Marcos, Bloques
  <2> QED  BY <1>0, <1>00, <2>1, WritesTypes
<1>10. Rest'
  BY DEF Typing, Rest, Causas, FileTransfer, Escritura, CpuIdle, memoryVars, swapVars
<1> QED  BY <1>1, <1>2, <1>3, <1>4, <1>5, <1>6, <1>7, <1>8, <1>9, <1>10 DEF Typing

LEMMA PageFaultTypes ==
  ASSUME Typing, PageFault
  PROVE  Typing'
<1>1. Setup'
  BY DEF Typing, Setup, PageFault, Pedido, LoaderIdle, CpuIdle, memoryVars, swapVars
<1>2. Stages'
  BY DEF Typing, Stages, PageFault, Pedido, LoaderIdle, CpuIdle, memoryVars, swapVars
<1>3. Tables'
  BY DEF Typing, Tables, Entrada, Marcos, Bloques, PageFault, Pedido, LoaderIdle, CpuIdle, memoryVars, swapVars
<1>4. Ages'
  BY DEF Typing, Ages, EnMemoria, TieneTabla, PageFault, Pedido, LoaderIdle, CpuIdle, memoryVars, swapVars
<1>5. Waiting'
  BY DEF Typing, Waiting, PageFault, Pedido, LoaderIdle, CpuIdle, memoryVars, swapVars
<1>6. Frames'
  BY DEF Typing, Frames, Marcos, PageFault, Pedido, LoaderIdle, CpuIdle, memoryVars, swapVars
<1>7. Blocks'
  BY DEF Typing, Blocks, Bloques, PageFault, Pedido, LoaderIdle, CpuIdle, memoryVars, swapVars
<1>8. Accessing'
  <2>1. config' = config /\ cpu' = CpuIdle
    BY DEF PageFault
  <2>2. CpuIdle \in Acceso /\ CpuIdle.st = "idle"
    BY IdleTypes DEF Typing, CpuIdle
  <2> QED  BY <2>1, <2>2 DEF Accessing, Acceso
<1>9. Loading'
  <2>1. /\ loader' = [LoaderIdle EXCEPT !.st = "asked", !.pagina = cpu.pagina]
        /\ cpu.pagina \in Pagina /\ config' = config
    <3>1. cpu.st = "fault" /\ cpu.pagina \in Pagina
      <4>1. cpu.st = "fault"
        BY DEF PageFault
      <4> QED  BY <4>1 DEF Typing, Accessing
    <3> QED  BY <3>1 DEF PageFault, Pedido
  <2>2. LoaderIdle \in Carga
    BY IdleTypes DEF Typing
  <2> QED  BY <2>1, <2>2 DEF Loading, Carga, Marcos, Bloques
<1>10. Rest'
  BY DEF Typing, Rest, Causas, PageFault, Pedido, LoaderIdle, CpuIdle, memoryVars, swapVars
<1> QED  BY <1>1, <1>2, <1>3, <1>4, <1>5, <1>6, <1>7, <1>8, <1>9, <1>10 DEF Typing

LEMMA BuscarTypes ==
  ASSUME Typing, Buscar
  PROVE  Typing'
<1>1. Setup'
  BY DEF Typing, Setup, Buscar, Respondido, LoaderIdle, memoryVars, swapVars
<1>2. Stages'
  BY DEF Typing, Stages, Buscar, Respondido, LoaderIdle, memoryVars, swapVars
<1>3. Tables'
  BY DEF Typing, Tables, Entrada, Marcos, Bloques, Buscar, Respondido, LoaderIdle, memoryVars, swapVars
<1>4. Ages'
  BY DEF Typing, Ages, EnMemoria, TieneTabla, Buscar, Respondido, LoaderIdle, memoryVars, swapVars
<1>5. Waiting'
  BY DEF Typing, Waiting, Buscar, Respondido, LoaderIdle, memoryVars, swapVars
<1>6. Frames'
  BY DEF Typing, Frames, Marcos, Buscar, Respondido, LoaderIdle, memoryVars, swapVars
<1>7. Blocks'
  BY DEF Typing, Blocks, Bloques, Buscar, Respondido, LoaderIdle, memoryVars, swapVars
<1>8. Accessing'
  BY DEF Typing, Accessing, Acceso, Buscar, Respondido, LoaderIdle, memoryVars, swapVars
<1>9. Loading'
  <2>1. config' = config /\ (loader' = [loader EXCEPT !.st = "lock"] \/ loader' = LoaderIdle)
    BY DEF Buscar, Respondido
  <2>2. loader.st = "asked"
    BY DEF Buscar
  <2>3. LoaderIdle \in Carga /\ LoaderIdle.st = "idle" /\ LoaderIdle.pagina = Nadie
    BY IdleTypes DEF Typing, LoaderIdle
  <2> QED  BY <2>1, <2>2, <2>3 DEF Typing, Loading, Carga, Marcos, Bloques
<1>10. Rest'
  BY DEF Typing, Rest, Causas, Buscar, Respondido, LoaderIdle, memoryVars, swapVars
<1> QED  BY <1>1, <1>2, <1>3, <1>4, <1>5, <1>6, <1>7, <1>8, <1>9, <1>10 DEF Typing

LEMMA ElegirMarcoTypes ==
  ASSUME Typing, ElegirMarco
  PROVE  Typing'
<1>0. config' = config /\ estado' = estado /\ loader.st = "lock"
  BY DEF ElegirMarco
<1>00. \/ UNCHANGED <<paginas, orden>>
       \/ \E v \in Pagina : RemoverPagina(v)
  BY Victim DEF ElegirMarco, Reemplazar, Typing
<1>1. Setup'
  BY DEF Typing, Setup, ElegirMarco, Reemplazar, RemoverPagina, Respondido, LoaderIdle, memoryVars, swapVars
<1>2. Stages'
  BY DEF Typing, Stages, ElegirMarco, Reemplazar, RemoverPagina, Respondido, LoaderIdle, memoryVars, swapVars
<1>3. Tables'
  BY ZenonT(40), <1>0, <1>00 DEF RemoverPagina, Typing, Tables, Entrada, Marcos, Bloques
<1>4. Ages'
  <2>1. CASE UNCHANGED <<paginas, orden>>
    BY <1>0, <2>1 DEF Typing, Ages, EnMemoria, TieneTabla
  <2>2. ASSUME NEW v \in Pagina, RemoverPagina(v)
        PROVE  Ages'
    <3>1. /\ orden' \in Seq(Pagina) /\ IsInjective(orden')
          /\ ToSet(orden') = ToSet(orden) \ {v}
      BY <2>2, RemoveFirstRemoves DEF RemoverPagina, Typing, Ages
    <3>2. /\ ~paginas'[v].presencia
          /\ \A x \in Pagina : x # v => paginas'[x] = paginas[x]
      BY <2>2 DEF RemoverPagina, Typing, Tables, Entrada
    <3> QED  BY <1>0, <3>1, <3>2 DEF Typing, Ages, EnMemoria, TieneTabla
  <2> QED  BY <1>00, <2>1, <2>2
<1>5. Waiting'
  BY DEF Typing, Waiting, ElegirMarco, Reemplazar, RemoverPagina, Respondido, LoaderIdle, memoryVars, swapVars
<1>6. Frames'
  BY DEF Typing, Frames, Marcos, ElegirMarco, Reemplazar, RemoverPagina, Respondido, LoaderIdle, memoryVars, swapVars
<1>7. Blocks'
  BY DEF Typing, Blocks, Bloques, ElegirMarco, Reemplazar, RemoverPagina, Respondido, LoaderIdle, memoryVars, swapVars
<1>8. Accessing'
  BY DEF Typing, Accessing, Acceso, ElegirMarco, Reemplazar, RemoverPagina, Respondido, LoaderIdle, memoryVars, swapVars
<1>9. Loading'
  <2>1. \/ loader' = [loader EXCEPT !.st = "in", !.marco = FrameLibre] /\ FrameLibre \in Marcos
        \/ \E v \in Pagina :
             \/ loader' = [loader EXCEPT !.st = "out", !.marco = paginas[v].marco,
                             !.pos = paginas[v].swap, !.dato = enMarco[paginas[v].marco]]
             \/ loader' = [loader EXCEPT !.st = "in", !.marco = paginas[v].marco]
        \/ loader' = LoaderIdle
    <3>1. CASE Marcos \ ocupados # {}
      BY <3>1, FreeFrame DEF Typing, ElegirMarco, Respondido
    <3>2. CASE Marcos \subseteq ocupados /\ \E x \in Pagina : EnMemoria(x)
      <4>1. Victima \in Pagina /\ Reemplazar(Victima)
        BY <3>2, Victim DEF Typing, ElegirMarco
      <4> QED  BY <4>1 DEF Reemplazar
    <3>3. CASE Marcos \subseteq ocupados /\ \A x \in Pagina : ~EnMemoria(x)
      BY <3>3 DEF ElegirMarco, Respondido
    <3> QED  BY <3>1, <3>2, <3>3
  <2>2. LoaderIdle \in Carga /\ LoaderIdle.st = "idle" /\ LoaderIdle.pagina = Nadie
    BY IdleTypes DEF Typing, LoaderIdle
  <2>3. \A v \in Pagina : /\ paginas[v].marco \in Marcos /\ paginas[v].swap \in Bloques
                          /\ enMarco[paginas[v].marco] \in Pagina \cup {Nadie}
    BY DEF Typing, Tables, Entrada, Frames
  <2>4. loader' \in Carga
    BY <1>0, <2>1, <2>2, <2>3 DEF Typing, Loading, Carga
  <2>5. (loader'.pagina = loader.pagina /\ loader'.st # "idle") \/ loader' = LoaderIdle
    BY <2>1 DEF Typing, Loading, Carga
  <2>6. Carga' = Carga
    BY <1>0 DEF Carga, Marcos, Bloques
  <2> QED  BY <1>0, <2>2, <2>4, <2>5, <2>6 DEF Typing, Loading
<1>10. Rest'
  BY DEF Typing, Rest, Causas, ElegirMarco, Reemplazar, RemoverPagina, Respondido, LoaderIdle, memoryVars, swapVars
<1> QED  BY <1>1, <1>2, <1>3, <1>4, <1>5, <1>6, <1>7, <1>8, <1>9, <1>10 DEF Typing

LEMMA SwapOutTypes ==
  ASSUME Typing, SwapOut
  PROVE  Typing'
<1>1. Setup'
  BY DEF Typing, Setup, SwapOut, EscribirBloque, memoryVars, swapVars
<1>2. Stages'
  BY DEF Typing, Stages, SwapOut, EscribirBloque, memoryVars, swapVars
<1>3. Tables'
  BY DEF Typing, Tables, Entrada, Marcos, Bloques, SwapOut, EscribirBloque, memoryVars, swapVars
<1>4. Ages'
  BY DEF Typing, Ages, EnMemoria, TieneTabla, SwapOut, EscribirBloque, memoryVars, swapVars
<1>5. Waiting'
  BY DEF Typing, Waiting, SwapOut, EscribirBloque, memoryVars, swapVars
<1>6. Frames'
  BY DEF Typing, Frames, Marcos, SwapOut, EscribirBloque, memoryVars, swapVars
<1>7. Blocks'
  <2>1. /\ config' = config /\ bitarray' = bitarray
        /\ enBloque' = [enBloque EXCEPT ![loader.pos] = loader.dato]
    BY DEF SwapOut, EscribirBloque
  <2>2. loader.dato \in Pagina \cup {Nadie}
    BY DEF Typing, Loading, Carga
  <2> QED  BY <2>1, <2>2 DEF Typing, Blocks, Bloques
<1>8. Accessing'
  BY DEF Typing, Accessing, Acceso, SwapOut, EscribirBloque, memoryVars, swapVars
<1>9. Loading'
  BY DEF Typing, Loading, Carga, Marcos, Bloques, SwapOut, EscribirBloque, memoryVars, swapVars
<1>10. Rest'
  BY DEF Typing, Rest, Causas, SwapOut, EscribirBloque, memoryVars, swapVars
<1> QED  BY <1>1, <1>2, <1>3, <1>4, <1>5, <1>6, <1>7, <1>8, <1>9, <1>10 DEF Typing

LEMMA SwapInTypes ==
  ASSUME Typing, SwapIn
  PROVE  Typing'
<1> DEFINE x == loader.pagina
<1>0. /\ config' = config /\ estado' = estado /\ loader.st = "in" /\ loader' = LoaderIdle
      /\ ocupados' = ocupados \cup {loader.marco}
      /\ x \in Pagina /\ loader.marco \in Marcos
  BY DEF SwapIn, Respondido, Typing, Loading, Carga
<1>00. \/ UNCHANGED <<paginas, orden>> /\ enMarco' = [enMarco EXCEPT ![loader.marco] = Nadie]
       \/ CargarPagina(x, loader.marco)
          /\ enMarco' = [enMarco EXCEPT ![loader.marco] = enBloque[paginas[x].swap]]
  BY DEF SwapIn, LeerBloque
<1> HIDE DEF x
<1>1. Setup'
  BY DEF Typing, Setup, SwapIn, CargarPagina, LeerBloque, Respondido, LoaderIdle, memoryVars, swapVars
<1>2. Stages'
  BY DEF Typing, Stages, SwapIn, CargarPagina, LeerBloque, Respondido, LoaderIdle, memoryVars, swapVars
<1>3. Tables'
  <2>0. Marcos' = Marcos /\ Bloques' = Bloques /\ Entrada' = Entrada
    BY <1>0 DEF Marcos, Bloques, Entrada
  <2>1. CASE CargarPagina(x, loader.marco)
    <3>1. paginas' \in [Pagina -> Entrada]
      BY ZenonT(40), <1>0, <2>1 DEF CargarPagina, Typing, Tables, Entrada
    <3> QED  BY <2>0, <3>1 DEF Tables
  <2>2. CASE UNCHANGED <<paginas, orden>>
    BY <2>0, <2>2 DEF Typing, Tables
  <2> QED  BY <1>00, <2>1, <2>2
<1>4. Ages'
  <2>1. CASE UNCHANGED <<paginas, orden>>
    BY <1>0, <2>1 DEF Typing, Ages, EnMemoria, TieneTabla
  <2>2. CASE CargarPagina(x, loader.marco)
    <3>1. /\ orden' \in Seq(Pagina) /\ IsInjective(orden')
          /\ ToSet(orden') = ToSet(orden) \cup {x}
      BY <1>0, <2>2, Recent DEF CargarPagina, Typing, Ages
    <3>2. \A y \in Pagina : y # x => paginas'[y] = paginas[y]
      BY <2>2 DEF CargarPagina, Typing, Tables, Entrada
    <3> QED  BY <1>0, <3>1, <3>2 DEF Typing, Ages, EnMemoria, TieneTabla
  <2> QED  BY <1>00, <2>1, <2>2
<1>5. Waiting'
  BY DEF Typing, Waiting, SwapIn, CargarPagina, LeerBloque, Respondido, LoaderIdle, memoryVars, swapVars
<1>6. Frames'
  <2>1. enBloque[paginas[x].swap] \in Pagina \cup {Nadie}
    BY <1>0 DEF Typing, Tables, Entrada, Blocks
  <2> QED  BY <1>0, <1>00, <2>1 DEF Typing, Frames, Marcos
<1>7. Blocks'
  BY DEF Typing, Blocks, Bloques, SwapIn, CargarPagina, LeerBloque, Respondido, LoaderIdle, memoryVars, swapVars
<1>8. Accessing'
  BY DEF Typing, Accessing, Acceso, SwapIn, CargarPagina, LeerBloque, Respondido, LoaderIdle, memoryVars, swapVars
<1>9. Loading'
  <2>1. LoaderIdle \in Carga /\ LoaderIdle.st = "idle" /\ LoaderIdle.pagina = Nadie
    BY IdleTypes DEF Typing, LoaderIdle
  <2> QED  BY <1>0, <2>1 DEF Loading, Carga, Marcos, Bloques
<1>10. Rest'
  BY DEF Typing, Rest, Causas, SwapIn, CargarPagina, LeerBloque, Respondido, LoaderIdle, memoryVars, swapVars
<1> QED  BY <1>1, <1>2, <1>3, <1>4, <1>5, <1>6, <1>7, <1>8, <1>9, <1>10 DEF Typing

LEMMA LiberarSwapTypes ==
  ASSUME NEW p \in Process, Typing, LiberarSwap(p)
  PROVE  Typing'
<1>1. Setup'
  BY DEF Typing, Setup, LiberarSwap, memoryVars, swapVars
<1>2. Stages'
  BY DEF Typing, Stages, LiberarSwap, memoryVars, swapVars
<1>3. Tables'
  BY DEF Typing, Tables, Entrada, Marcos, Bloques, LiberarSwap, memoryVars, swapVars
<1>4. Ages'
  BY DEF Typing, Ages, EnMemoria, TieneTabla, LiberarSwap, memoryVars, swapVars
<1>5. Waiting'
  BY DEF Typing, Waiting, LiberarSwap, memoryVars, swapVars
<1>6. Frames'
  BY DEF Typing, Frames, Marcos, LiberarSwap, memoryVars, swapVars
<1>7. Blocks'
  BY DEF Typing, Blocks, Bloques, LiberarSwap, memoryVars, swapVars
<1>8. Accessing'
  BY DEF Typing, Accessing, Acceso, LiberarSwap, memoryVars, swapVars
<1>9. Loading'
  BY DEF Typing, Loading, Carga, Marcos, Bloques, LiberarSwap, memoryVars, swapVars
<1>10. Rest'
  BY DEF Typing, Rest, Causas, LiberarSwap, memoryVars, swapVars
<1> QED  BY <1>1, <1>2, <1>3, <1>4, <1>5, <1>6, <1>7, <1>8, <1>9, <1>10 DEF Typing

LEMMA LiberarMarcosTypes ==
  ASSUME NEW p \in Process, Typing, LiberarMarcos(p)
  PROVE  Typing'
<1>1. Setup'
  BY DEF Typing, Setup, LiberarMarcos, memoryVars, swapVars
<1>2. Stages'
  BY DEF Typing, Stages, LiberarMarcos, memoryVars, swapVars
<1>3. Tables'
  BY DEF Typing, Tables, Entrada, Marcos, Bloques, LiberarMarcos, memoryVars, swapVars
<1>4. Ages'
  BY DEF Typing, Ages, EnMemoria, TieneTabla, LiberarMarcos, memoryVars, swapVars
<1>5. Waiting'
  BY DEF Typing, Waiting, LiberarMarcos, memoryVars, swapVars
<1>6. Frames'
  BY DEF Typing, Frames, Marcos, LiberarMarcos, memoryVars, swapVars
<1>7. Blocks'
  BY DEF Typing, Blocks, Bloques, LiberarMarcos, memoryVars, swapVars
<1>8. Accessing'
  BY DEF Typing, Accessing, Acceso, LiberarMarcos, memoryVars, swapVars
<1>9. Loading'
  BY DEF Typing, Loading, Carga, Marcos, Bloques, LiberarMarcos, memoryVars, swapVars
<1>10. Rest'
  BY DEF Typing, Rest, Causas, LiberarMarcos, memoryVars, swapVars
<1> QED  BY <1>1, <1>2, <1>3, <1>4, <1>5, <1>6, <1>7, <1>8, <1>9, <1>10 DEF Typing

LEMMA DestruirTablaTypes ==
  ASSUME NEW p \in Process, Typing, DestruirTabla(p)
  PROVE  Typing'
<1>1. Setup'
  BY DEF Typing, Setup, DestruirTabla, DeVivos, EntradaNueva, memoryVars, swapVars
<1>2. Stages'
  BY DEF Typing, Stages, DestruirTabla, DeVivos, EntradaNueva, memoryVars, swapVars
<1>3. Tables'
  <2>1. EntradaNueva \in Entrada
    BY IdleTypes DEF Typing
  <2> QED  BY <2>1 DEF Typing, Tables, Entrada, Marcos, Bloques, DestruirTabla
<1>4. Ages'
  BY DEF Typing, Ages, EnMemoria, TieneTabla, DestruirTabla, DeVivos, EntradaNueva, memoryVars, swapVars
<1>5. Waiting'
  BY DEF Typing, Waiting, DestruirTabla, DeVivos, EntradaNueva, memoryVars, swapVars
<1>6. Frames'
  BY DEF Typing, Frames, Marcos, DestruirTabla, DeVivos, EntradaNueva, memoryVars, swapVars
<1>7. Blocks'
  BY DEF Typing, Blocks, Bloques, DestruirTabla, DeVivos, EntradaNueva, memoryVars, swapVars
<1>8. Accessing'
  BY DEF Typing, Accessing, Acceso, DestruirTabla, DeVivos, EntradaNueva, memoryVars, swapVars
<1>9. Loading'
  BY DEF Typing, Loading, Carga, Marcos, Bloques, DestruirTabla, DeVivos, EntradaNueva, memoryVars, swapVars
<1>10. Rest'
  BY DEF Typing, Rest, Causas, DestruirTabla, DeVivos, EntradaNueva, memoryVars, swapVars
<1> QED  BY <1>1, <1>2, <1>3, <1>4, <1>5, <1>6, <1>7, <1>8, <1>9, <1>10 DEF Typing

LEMMA InitTypes == Init => Typing
<1> SUFFICES ASSUME Init PROVE Typing
  OBVIOUS
<1>1. Setup /\ CpuIdle \in Acceso /\ LoaderIdle \in Carga /\ EntradaNueva \in Entrada
  BY IdleTypes DEF Init, Setup
<1>2. Tables
  BY <1>1 DEF Init, Tables
<1>3. Ages /\ Waiting
  <2>1. <<>> \in Seq(Pagina) /\ Len(<<>>) = 0 /\ IsInjective(<<>>)
    BY DEF IsInjective
  <2>2. MaxPending \in Nat
    BY PagingAssumption
  <2>3. \A x \in Pagina : ~EnMemoria(x)
    BY Pages DEF Init, EnMemoria, TieneTabla, EntradaNueva
  <2> QED  BY <2>1, <2>2, <2>3 DEF Init, Ages, Waiting
<1>4. Accessing /\ Loading
  BY <1>1 DEF Init, Accessing, Loading, CpuIdle, LoaderIdle
<1>5. Frames /\ Blocks
  <2>1. config.basura \subseteq Bloques
    BY <1>1, BasuraEnBloques
  <2> QED  BY <2>1 DEF Init, Frames, Blocks
<1>6. Stages /\ Rest
  BY DEF Init, Stages, Rest
<1> QED  BY <1>1, <1>2, <1>3, <1>4, <1>5, <1>6 DEF Typing

LEMMA NextTypes == Typing /\ [Next]_vars => Typing'
<1> SUFFICES ASSUME Typing, [Next]_vars PROVE Typing'
  OBVIOUS
<1>1. CASE \E p \in Process : NewProcess(p)
  BY <1>1, NewProcessTypes
<1>2. CASE \E p \in Process, uso \in Usos : \E dir \in Direccion[p] : FrameRequest(p, dir, uso)
  BY <1>2, FrameRequestTypes
<1>3. CASE Access
  BY <1>3, MovInTypes, MovOutTypes, MarkTypes, FileTransferTypes DEF Access
<1>4. CASE Load
  BY <1>4, PageFaultTypes, BuscarTypes, ElegirMarcoTypes, SwapOutTypes, SwapInTypes DEF Load
<1>5. CASE Terminate
  BY <1>5, LiberarSwapTypes, LiberarMarcosTypes, DestruirTablaTypes DEF Terminate
<1>6. CASE UNCHANGED vars
  BY <1>6 DEF vars, memoryVars, swapVars, Typing, Setup, Stages, Tables, Ages, Waiting, Frames,
     Blocks, Accessing, Loading, Rest, Entrada, Acceso, Carga, Marcos, Bloques, EnMemoria, TieneTabla
<1> QED  BY <1>1, <1>2, <1>3, <1>4, <1>5, <1>6 DEF Next

------------------------------------------------------------------------------
(* What the steps do, page by page.                                         *)

LEMMA NewProcessStep ==
  ASSUME Typing, NEW p \in Process, NewProcess(p)
  PROVE  /\ estado[p] = "nuevo" /\ estado' = [estado EXCEPT ![p] = "vivo"]
         /\ \A x \in Pagina : PidDe(x) = p => ~paginas'[x].presencia
         /\ \A x \in Pagina : PidDe(x) # p => paginas'[x] = paginas[x]
         /\ causas \subseteq causas'
BY DEF NewProcess, GenerarTabla, EntradaNueva, Typing, Tables

LEMMA FrameRequestStep ==
  ASSUME Typing, NEW p \in Process, NEW uso \in Usos, NEW dir \in Direccion[p],
         FrameRequest(p, dir, uso)
  PROVE  /\ cpu.st = "idle" /\ estado[p] = "vivo"
         /\ loader.st # "idle" => PidDe(loader.pagina) # p
         /\ \E x \in Pagina :
              /\ PidDe(x) = p
              /\ \/ /\ EnMemoria(x) /\ ObtenerMarco(x, uso) /\ cpu'.st \in {"mov", "file"}
                    /\ cpu'.pagina = x /\ cpu'.uso = uso
                    /\ cpu'.st = "mov" <=> uso \in {"MOV_IN", "MOV_OUT"}
                    /\ uso = "F_WRITE" => "leftover" \in causas'
                 \/ /\ ~EnMemoria(x) /\ cpu' = [CpuIdle EXCEPT !.st = "fault", !.pagina = x]
                    /\ pendientes' = pendientes
         /\ causas \subseteq causas'
<1> DEFINE x == <<p, obtener_numero_pagina(dir)>>
<1>1. x \in Pagina /\ PidDe(x) = p
  BY Addresses DEF PidDe
<1>2. cpu.st = "idle" /\ estado[p] = "vivo" /\ causas \subseteq causas'
  BY DEF FrameRequest, PuedeEjecutar
<1>3. loader.st # "idle" => PidDe(loader.pagina) # p
  BY DEF FrameRequest, PuedeEjecutar, Typing, Loading
<1>4. CASE EnMemoria(x)
  <2>1. PICK d : d = traduccion_logica_a_fisica(dir, paginas[x].marco)
    OBVIOUS
  <2>2. /\ ObtenerMarco(x, uso)
        /\ uso = "F_WRITE" => "leftover" \in causas'
        /\ cpu' = [st |-> IF uso \in {"MOV_IN", "MOV_OUT"} THEN "mov" ELSE "file",
                   pagina |-> x, uso |-> uso, dir |-> d]
    BY <1>4, <2>1 DEF FrameRequest
  <2> HIDE DEF x
  <2> QED  BY <1>1, <1>2, <1>3, <1>4, <2>2
<1>5. CASE ~EnMemoria(x)
  <2>1. cpu' = [CpuIdle EXCEPT !.st = "fault", !.pagina = x] /\ pendientes' = pendientes
    BY <1>5 DEF FrameRequest
  <2> HIDE DEF x
  <2> QED  BY <1>1, <1>2, <1>3, <1>5, <2>1
<1> QED  BY <1>4, <1>5

\* escribir_valor marks a page and touches nothing else of the tables.
LEMMA MarkStep ==
  ASSUME Typing, Mark
  PROVE  /\ cpu.st = "mark" /\ cpu' = CpuIdle
         /\ \A x \in Pagina : /\ paginas'[x].presencia = paginas[x].presencia
                              /\ paginas'[x].marco = paginas[x].marco
                              /\ paginas'[x].swap = paginas[x].swap
                              /\ paginas[x].modificado => paginas'[x].modificado
<1>1. \/ \E i \in DOMAIN pendientes : paginas' = [paginas EXCEPT ![pendientes[i]].modificado = TRUE]
      \/ paginas' = paginas
  BY DEF Mark, PrimerasPendientes
<1>2. \A i \in DOMAIN pendientes : pendientes[i] \in Pagina
  BY LenProperties DEF Typing, Waiting
<1>3. ASSUME NEW y \in Pagina, paginas' = [paginas EXCEPT ![y].modificado = TRUE]
      PROVE  \A x \in Pagina : /\ paginas'[x].presencia = paginas[x].presencia
                               /\ paginas'[x].marco = paginas[x].marco
                               /\ paginas'[x].swap = paginas[x].swap
                               /\ paginas[x].modificado => paginas'[x].modificado
  BY <1>3 DEF Typing, Tables, Entrada
<1> QED  BY <1>1, <1>2, <1>3 DEF Mark

\* A write reaches the loader only through the contents on their way out.
LEMMA WriteStep ==
  ASSUME Typing, NEW x, NEW m, NEW ms, NEW toda, Escritura(x, m, ms, toda)
  PROVE  /\ loader'.st = loader.st /\ loader'.pagina = loader.pagina
         /\ loader'.marco = loader.marco /\ loader'.pos = loader.pos
         /\ loader'.dato = IF loader.dato = x THEN Nadie ELSE loader.dato
BY DEF Escritura, Typing, Loading, Carga

LEMMA MovOutStep ==
  ASSUME Typing, MovOut
  PROVE  /\ cpu.st = "mov" /\ cpu.uso = "MOV_OUT" /\ cpu.pagina \in Pagina
         /\ cpu'.st = "mark" /\ cpu'.pagina = cpu.pagina /\ cpu'.uso = cpu.uso /\ cpu'.dir = cpu.dir
         /\ Escritura(cpu.pagina, espacio_obtener_frame(cpu.dir),
                      {espacio_obtener_frame(cpu.dir)}, PageSize = 1)
         /\ "stale" \in causas' \/ Vigente(cpu.pagina, espacio_obtener_frame(cpu.dir))
         /\ causas \subseteq causas'
         /\ loader'.st = loader.st /\ loader'.pagina = loader.pagina
         /\ loader'.marco = loader.marco /\ loader'.pos = loader.pos
         /\ loader'.dato = IF loader.dato = cpu.pagina THEN Nadie ELSE loader.dato
<1>1. /\ cpu.st = "mov" /\ cpu.uso = "MOV_OUT" /\ cpu' = [cpu EXCEPT !.st = "mark"]
      /\ Escritura(cpu.pagina, espacio_obtener_frame(cpu.dir),
                   {espacio_obtener_frame(cpu.dir)}, PageSize = 1)
      /\ "stale" \in causas' \/ Vigente(cpu.pagina, espacio_obtener_frame(cpu.dir))
      /\ causas \subseteq causas'
  BY DEF MovOut
<1>2. cpu \in Acceso /\ cpu.pagina \in Pagina
  BY <1>1 DEF Typing, Accessing
<1>3. cpu'.st = "mark" /\ cpu'.pagina = cpu.pagina /\ cpu'.uso = cpu.uso /\ cpu'.dir = cpu.dir
  BY <1>1, <1>2 DEF Acceso
<1> QED  BY <1>1, <1>2, <1>3, WriteStep

LEMMA FileTransferStep ==
  ASSUME Typing, FileTransfer
  PROVE  /\ cpu.st = "file" /\ cpu' = CpuIdle /\ cpu.pagina \in Pagina
         /\ \/ UNCHANGED <<enMarco, enBloque, loader, causas>>
            \/ \E m, ms : /\ Escritura(cpu.pagina, m, ms, cpu.dir % PageSize = 0)
                          /\ "stale" \in causas' \/ Vigente(cpu.pagina, m)
                          /\ "spill" \in causas' \/ ms = {m}
                          /\ "stale" \in causas' \/ "unmarked" \in causas' \/ paginas[cpu.pagina].modificado
         /\ causas \subseteq causas'
         /\ loader'.st = loader.st /\ loader'.pagina = loader.pagina
         /\ loader'.marco = loader.marco /\ loader'.pos = loader.pos
<1>1. cpu.st = "file" /\ cpu' = CpuIdle
  BY DEF FileTransfer
<1>2. cpu.pagina \in Pagina
  BY <1>1 DEF Typing, Accessing
<1> DEFINE m == espacio_obtener_frame(cpu.dir)
           ms == {espacio_obtener_frame(cpu.dir + i) : i \in 0 .. PageSize - 1} \cap Marcos
<1>3. CASE cpu.uso = "F_READ"
  <2>1. /\ Escritura(cpu.pagina, m, ms, cpu.dir % PageSize = 0)
        /\ causas' = causas \cup (IF Vigente(cpu.pagina, m) THEN {} ELSE {"stale"})
                            \cup (IF ms = {m} THEN {} ELSE {"spill"})
                            \cup (IF ~Vigente(cpu.pagina, m) \/ paginas[cpu.pagina].modificado
                                  THEN {} ELSE {"unmarked"})
    BY <1>3 DEF FileTransfer
  <2> HIDE DEF m, ms
  <2>2. /\ "stale" \in causas' \/ Vigente(cpu.pagina, m)
        /\ "spill" \in causas' \/ ms = {m}
        /\ "stale" \in causas' \/ "unmarked" \in causas' \/ paginas[cpu.pagina].modificado
        /\ causas \subseteq causas'
    BY <2>1
  <2> QED  BY <1>1, <1>2, <2>1, <2>2, WriteStep
<1>4. CASE cpu.uso # "F_READ"
  BY <1>1, <1>2, <1>4 DEF FileTransfer
<1> QED  BY <1>3, <1>4

\* remover_pagina_memoria, obtener_frame_libre and the early return.
LEMMA ElegirMarcoStep ==
  ASSUME Typing, ElegirMarco
  PROVE  /\ loader.st = "lock" /\ loader.pagina \in Pagina /\ causas \subseteq causas'
         /\ \/ /\ \E m \in Marcos \ ocupados :
                    loader' = [loader EXCEPT !.st = "in", !.marco = m]
               /\ UNCHANGED <<paginas, causas>> /\ lock' = "held"
            \/ \E v \in Pagina :
                 /\ Marcos \subseteq ocupados /\ lock' = "held"
                 /\ EnMemoria(v)
                 /\ estado[PidDe(v)] = "vivo" \/ "orphan" \in causas'
                 /\ \/ /\ paginas' = [paginas EXCEPT ![v].presencia = FALSE]
                       /\ loader' = [loader EXCEPT !.st = "out", !.marco = paginas[v].marco,
                            !.pos = paginas[v].swap, !.dato = enMarco[paginas[v].marco]]
                    \/ /\ ~paginas[v].modificado /\ "clean" \in causas' /\ paginas' = paginas
                       /\ loader' = [loader EXCEPT !.st = "in", !.marco = paginas[v].marco]
            \/ /\ Marcos \subseteq ocupados /\ \A x \in Pagina : ~EnMemoria(x)
               /\ UNCHANGED <<paginas, causas>> /\ lock' = "lost" /\ loader' = LoaderIdle
<1>1. loader.st = "lock" /\ loader.pagina \in Pagina
  <2>1. loader.st = "lock"
    BY DEF ElegirMarco
  <2> QED  BY <2>1 DEF Typing, Loading
<1>2. CASE Marcos \ ocupados # {}
  <2>1. /\ loader' = [loader EXCEPT !.st = "in", !.marco = FrameLibre]
        /\ UNCHANGED <<paginas, causas>> /\ lock' = "held"
    BY <1>2 DEF ElegirMarco
  <2> QED  BY <1>1, <1>2, <2>1, FreeFrame DEF Typing
<1>3. CASE Marcos \subseteq ocupados /\ \E x \in Pagina : EnMemoria(x)
  <2>1. PICK v \in Pagina : v = Victima /\ EnMemoria(v)
    BY <1>3, Victim DEF Typing
  <2>2. Reemplazar(v) /\ lock' = "held"
    BY <1>3, <2>1 DEF ElegirMarco
  <2>3. causas \subseteq causas' /\ (estado[PidDe(v)] = "vivo" \/ "orphan" \in causas')
    BY <2>2 DEF Reemplazar
  <2> QED  BY <1>1, <1>3, <2>1, <2>2, <2>3 DEF Reemplazar, RemoverPagina
<1>4. CASE Marcos \subseteq ocupados /\ \A x \in Pagina : ~EnMemoria(x)
  BY <1>1, <1>4 DEF ElegirMarco, Respondido
<1> QED  BY <1>2, <1>3, <1>4

LEMMA ElegirMarcoKeeps ==
  ASSUME Typing, ElegirMarco
  PROVE  /\ loader' = LoaderIdle \/ loader'.pagina = loader.pagina
         /\ \A x \in Pagina : /\ paginas'[x].presencia => paginas[x].presencia
                              /\ paginas'[x].marco = paginas[x].marco
                              /\ paginas'[x].swap = paginas[x].swap
                              /\ paginas'[x].modificado = paginas[x].modificado
<1> DEFINE Keeps == \A x \in Pagina : /\ paginas'[x].presencia => paginas[x].presencia
                                      /\ paginas'[x].marco = paginas[x].marco
                                      /\ paginas'[x].swap = paginas[x].swap
                                      /\ paginas'[x].modificado = paginas[x].modificado
<1>1. loader \in Carga
  BY DEF Typing, Loading
<1>2. CASE /\ \E m \in Marcos \ ocupados : loader' = [loader EXCEPT !.st = "in", !.marco = m]
           /\ paginas' = paginas
  BY <1>1, <1>2 DEF Carga
<1>3. ASSUME NEW v \in Pagina,
             \/ /\ paginas' = [paginas EXCEPT ![v].presencia = FALSE]
                /\ loader' = [loader EXCEPT !.st = "out", !.marco = paginas[v].marco,
                     !.pos = paginas[v].swap, !.dato = enMarco[paginas[v].marco]]
             \/ /\ paginas' = paginas
                /\ loader' = [loader EXCEPT !.st = "in", !.marco = paginas[v].marco]
      PROVE  loader'.pagina = loader.pagina /\ Keeps
  <2>1. loader'.pagina = loader.pagina
    BY <1>1, <1>3 DEF Carga
  <2>2. Keeps
    BY <1>3 DEF Typing, Tables, Entrada
  <2> QED  BY <2>1, <2>2
<1>4. CASE loader' = LoaderIdle /\ paginas' = paginas
  BY <1>4
<1> QED  BY <1>2, <1>3, <1>4, ElegirMarcoStep

\* swap_in and cargar_pagina_en_memoria.
LEMMA SwapInStep ==
  ASSUME Typing, SwapIn
  PROVE  /\ loader.st = "in" /\ loader' = LoaderIdle /\ loader.pagina \in Pagina
         /\ loader.marco \in Marcos /\ ocupados' = ocupados \cup {loader.marco} /\ lock' = "free"
         /\ \A y \in Pagina : y # loader.pagina => paginas'[y] = paginas[y]
         /\ paginas'[loader.pagina].swap = paginas[loader.pagina].swap
         /\ causas \subseteq causas'
         /\ \/ /\ paginas'[loader.pagina].presencia /\ paginas'[loader.pagina].marco = loader.marco
               /\ ~paginas'[loader.pagina].modificado
               /\ enMarco' = [enMarco EXCEPT ![loader.marco] = enBloque[paginas[loader.pagina].swap]]
               /\ TieneTabla(loader.pagina)
            \/ /\ paginas' = paginas /\ ~TieneTabla(loader.pagina)
         /\ estado[PidDe(loader.pagina)] = "vivo" \/ "orphan" \in causas'
<1>1. loader.st = "in"
  BY DEF SwapIn
<1>2. loader.pagina \in Pagina /\ loader.marco \in Marcos
  BY <1>1 DEF Typing, Loading, Carga
<1>3. PICK x \in Pagina : x = loader.pagina
  BY <1>2
<1>4. CASE TieneTabla(x)
  <2>1. /\ CargarPagina(x, loader.marco)
        /\ enMarco' = [enMarco EXCEPT ![loader.marco] = enBloque[paginas[x].swap]]
    BY <1>3, <1>4 DEF SwapIn, LeerBloque
  <2>2. /\ paginas'[x].presencia /\ paginas'[x].marco = loader.marco /\ ~paginas'[x].modificado
        /\ paginas'[x].swap = paginas[x].swap
        /\ \A y \in Pagina : y # x => paginas'[y] = paginas[y]
    BY <2>1 DEF CargarPagina, Typing, Tables, Entrada
  <2> QED  BY <1>1, <1>2, <1>3, <1>4, <2>1, <2>2 DEF SwapIn, Respondido
<1>5. CASE ~TieneTabla(x)
  <2>1. paginas' = paginas
    BY <1>3, <1>5 DEF SwapIn
  <2> QED  BY <1>1, <1>2, <1>3, <1>5, <2>1 DEF SwapIn, Respondido
<1> QED  BY <1>4, <1>5

LEMMA DestruirTablaStep ==
  ASSUME Typing, NEW p \in Process, DestruirTabla(p)
  PROVE  /\ estado[p] = "sinMarcos" /\ estado' = [estado EXCEPT ![p] = "fin"]
         /\ \A x \in Pagina : PidDe(x) = p => ~paginas'[x].presencia
         /\ \A x \in Pagina : PidDe(x) # p => paginas'[x] = paginas[x]
BY DEF DestruirTabla, EntradaNueva, Typing, Tables

------------------------------------------------------------------------------
(* The order of the steps.                                                  *)

LEMMA NextTurns ==
  ASSUME Typing, Turns, [Next]_vars
  PROVE  Turns'
<1>1. ASSUME NEW p \in Process, NewProcess(p)
      PROVE  Turns'
  <2>1. Esperando => cpu.pagina \in Pagina
    BY DEF Esperando, Typing, Accessing
  <2>2. loader.st # "idle" => loader.pagina \in Pagina
    BY DEF Typing, Loading
  <2>3. Esperando => PidDe(cpu.pagina) # p
    BY <1>1, NewProcessStep DEF Turns
  <2>4. cpu' = cpu /\ loader' = loader
    BY <1>1 DEF NewProcess
  <2> QED  BY <1>1, <2>1, <2>2, <2>4, NewProcessStep, Pages DEF Turns, Esperando, Typing,
     Stages
<1>2. ASSUME NEW p \in Process, NEW uso \in Usos, NEW dir \in Direccion[p], FrameRequest(p, dir, uso)
      PROVE  Turns'
  <2>1. UNCHANGED <<estado, paginas, loader>>
    BY <1>2 DEF FrameRequest
  <2>2. PICK x \in Pagina :
          /\ PidDe(x) = p
          /\ \/ cpu'.st \in {"mov", "file"} /\ cpu'.pagina = x
             \/ ~EnMemoria(x) /\ cpu' = [CpuIdle EXCEPT !.st = "fault", !.pagina = x]
    BY ZenonT(40), <1>2, FrameRequestStep
  <2>3. /\ estado[p] = "vivo"
        /\ loader.st # "idle" => PidDe(loader.pagina) # p
    BY <1>2, FrameRequestStep
  <2>4. CASE cpu'.st \in {"mov", "file"} /\ cpu'.pagina = x
    BY <2>1, <2>2, <2>3, <2>4 DEF Turns, Esperando
  <2>5. CASE ~EnMemoria(x) /\ cpu' = [CpuIdle EXCEPT !.st = "fault", !.pagina = x]
    <3>1. cpu'.st = "fault" /\ cpu'.pagina = x
      BY <2>5 DEF CpuIdle
    <3>2. ~paginas[x].presencia
      BY <2>2, <2>3, <2>5 DEF EnMemoria, TieneTabla
    <3> QED  BY <2>1, <2>2, <2>3, <3>1, <3>2 DEF Turns, Esperando
  <2> QED  BY <2>2, <2>4, <2>5
<1>3. CASE MovIn
  BY <1>3 DEF Turns, Esperando, MovIn, CpuIdle, memoryVars, swapVars
<1>4. CASE MovOut
  <2>1. estado' = estado /\ paginas' = paginas
    BY <1>4 DEF MovOut
  <2> QED  BY <1>4, <2>1, MovOutStep DEF Turns, Esperando
<1>5. CASE Mark
  <2>1. Esperando => cpu.pagina \in Pagina
    BY DEF Esperando, Typing, Accessing
  <2>2. loader.st # "idle" => loader.pagina \in Pagina
    BY DEF Typing, Loading
  <2>3. estado' = estado /\ loader' = loader /\ cpu'.st = "idle"
    BY <1>5 DEF Mark, CpuIdle
  <2> QED  BY <1>5, <2>2, <2>3, MarkStep DEF Turns, Esperando
<1>6. CASE FileTransfer
  <2>1. estado' = estado /\ paginas' = paginas /\ cpu'.st = "idle"
    BY <1>6 DEF FileTransfer, CpuIdle
  <2> QED  BY <1>6, <2>1, FileTransferStep DEF Turns, Esperando
<1>7. CASE PageFault
  BY <1>7 DEF Turns, Esperando, PageFault, Pedido, LoaderIdle, CpuIdle, memoryVars, swapVars
<1>8. CASE Buscar
  <2>1. UNCHANGED <<estado, paginas, cpu>>
    BY <1>8 DEF Buscar, memoryVars
  <2>2. (loader.st # "idle" /\ loader'.pagina = loader.pagina) \/ loader'.st = "idle"
    BY <1>8 DEF Buscar, Respondido, LoaderIdle, Typing, Loading, Carga
  <2> QED  BY <2>1, <2>2 DEF Turns, Esperando
<1>9. CASE ElegirMarco
  <2>1. Esperando => cpu.pagina \in Pagina
    BY DEF Esperando, Typing, Accessing
  <2>2. loader.st # "idle" => loader.pagina \in Pagina
    BY DEF Typing, Loading
  <2>3. UNCHANGED <<estado, cpu>>
    BY <1>9 DEF ElegirMarco
  <2>5. (loader.st # "idle" /\ loader'.pagina = loader.pagina) \/ loader'.st = "idle"
    <3>1. loader.st = "lock" /\ LoaderIdle.st = "idle"
      BY <1>9, ElegirMarcoStep DEF LoaderIdle
    <3> QED  BY <1>9, <3>1, ElegirMarcoKeeps
  <2>6. \A x \in Pagina : paginas'[x].presencia => paginas[x].presencia
    BY <1>9, ElegirMarcoKeeps
  <2> QED  BY <2>1, <2>2, <2>3, <2>5, <2>6 DEF Turns, Esperando
<1>10. CASE SwapOut
  BY <1>10 DEF Turns, Esperando, SwapOut, EscribirBloque, memoryVars, swapVars
<1>11. CASE SwapIn
  <2>1. Esperando => cpu.pagina \in Pagina
    BY DEF Esperando, Typing, Accessing
  <2>2. loader.st # "idle" => loader.pagina \in Pagina
    BY DEF Typing, Loading
  <2>3. UNCHANGED <<estado, cpu>> /\ loader'.st = "idle"
    BY <1>11 DEF SwapIn, Respondido, LoaderIdle
  <2>4. Esperando => paginas'[cpu.pagina] = paginas[cpu.pagina]
    BY <1>11, <2>1, SwapInStep DEF Turns
  <2> QED  BY <2>3, <2>4 DEF Turns, Esperando
<1>12. ASSUME NEW p \in Process, LiberarSwap(p)
      PROVE  Turns'
  <2>1. /\ UNCHANGED <<cpu, loader, paginas>> /\ estado' = [estado EXCEPT ![p] = "sinSwap"]
        /\ Esperando => PidDe(cpu.pagina) # p
    BY <1>12 DEF LiberarSwap, Ejecuta, Esperando, memoryVars
  <2> QED  BY <2>1 DEF Turns, Esperando, Typing, Stages
<1>13. ASSUME NEW p \in Process, LiberarMarcos(p)
      PROVE  Turns'
  BY <1>13 DEF Turns, Esperando, LiberarMarcos, memoryVars, swapVars
<1>14. ASSUME NEW p \in Process, DestruirTabla(p)
      PROVE  Turns'
  <2>1. Esperando => cpu.pagina \in Pagina
    BY DEF Esperando, Typing, Accessing
  <2>2. loader.st # "idle" => loader.pagina \in Pagina
    BY DEF Typing, Loading
  <2>3. UNCHANGED <<cpu, loader>>
    BY <1>14 DEF DestruirTabla
  <2>4. Esperando => PidDe(cpu.pagina) # p
    BY <1>14, DestruirTablaStep DEF Turns
  <2>5. \A x \in Pagina : paginas'[x].presencia => paginas[x].presencia
    BY <1>14, DestruirTablaStep
  <2>6. \A q \in Process : q # p => estado'[q] = estado[q]
    BY <1>14, DestruirTablaStep DEF Typing, Stages
  <2>7. \A x \in Pagina : PidDe(x) \in Process
    BY Pages
  <2> QED  BY <2>1, <2>2, <2>3, <2>4, <2>5, <2>6, <2>7 DEF Turns, Esperando
<1>15. CASE UNCHANGED vars
  BY <1>15 DEF vars, memoryVars, swapVars, Turns, Esperando
<1> QED
  <2>1. CASE Access
    BY <2>1, <1>3, <1>4, <1>5, <1>6 DEF Access
  <2>2. CASE Load
    BY <2>2, <1>7, <1>8, <1>9, <1>10, <1>11 DEF Load
  <2>3. CASE Terminate
    BY <2>3, <1>12, <1>13, <1>14 DEF Terminate
  <2> QED  BY <2>1, <2>2, <2>3, <1>1, <1>2, <1>15 DEF Next

LEMMA InitTurns == Init => Turns
BY DEF Init, Turns, Esperando, CpuIdle, LoaderIdle

------------------------------------------------------------------------------
(* Frames.                                                                  *)

\* Steps that move no page and no load keep what every frame is for.
LEMMA SameFrames ==
  ASSUME Typing, UNCHANGED <<estado, ocupados>>, causas \subseteq causas',
         \A x \in Pagina : /\ paginas'[x].presencia = paginas[x].presencia
                           /\ paginas'[x].marco = paginas[x].marco,
         loader'.st = loader.st, loader'.marco = loader.marco
  PROVE  (Held => Held') /\ (Apart => Apart')
<1>1. \A x \in Pagina : ConMarco(x)' <=> ConMarco(x)
  BY DEF ConMarco
<1>2. Cargando' <=> Cargando
  BY DEF Cargando
<1>3. \A m : Tenido(m) => Tenido(m)'
  BY <1>1, <1>2 DEF Tenido
<1>4. Held => Held'
  BY <1>3 DEF Held
<1>5. Apart => Apart'
  BY <1>1, <1>2 DEF Apart, SinCausa
<1> QED  BY <1>4, <1>5

LEMMA NextHeld ==
  ASSUME Typing, Turns, Held, [Next]_vars
  PROVE  Held'
<1>1. ASSUME NEW p \in Process, NewProcess(p)
      PROVE  Held'
  <2>1. UNCHANGED <<ocupados, loader>>
    BY <1>1 DEF NewProcess
  <2>2. ASSUME NEW x \in Pagina
        PROVE  /\ ConMarco(x)' <=> ConMarco(x)
               /\ ConMarco(x) => paginas'[x] = paginas[x]
    <3>1. CASE PidDe(x) = p
      BY <1>1, <3>1, NewProcessStep DEF ConMarco
    <3>2. CASE PidDe(x) # p
      <4>1. estado'[PidDe(x)] = estado[PidDe(x)]
        BY <1>1, <3>2, NewProcessStep, Pages DEF Typing, Stages
      <4> QED  BY <1>1, <3>2, <4>1, NewProcessStep DEF ConMarco
    <3> QED  BY <3>1, <3>2
  <2>3. causas \subseteq causas'
    BY <1>1, NewProcessStep
  <2> QED  BY <2>1, <2>2, <2>3 DEF Held, Tenido, Cargando
<1>2. ASSUME NEW p \in Process, NEW uso \in Usos, NEW dir \in Direccion[p], FrameRequest(p, dir, uso)
      PROVE  Held'
  <2>1. UNCHANGED <<estado, ocupados, paginas, loader>> /\ causas \subseteq causas'
    BY <1>2 DEF FrameRequest
  <2> QED  BY <2>1, SameFrames
<1>3. CASE MovIn
  <2>1. UNCHANGED <<estado, ocupados, paginas, loader, causas>>
    BY <1>3 DEF MovIn, memoryVars
  <2> QED  BY <2>1, SameFrames
<1>4. CASE MovOut
  <2>1. UNCHANGED <<estado, ocupados, paginas>>
    BY <1>4 DEF MovOut
  <2> QED  BY <1>4, <2>1, MovOutStep, SameFrames
<1>5. CASE Mark
  <2>1. UNCHANGED <<estado, ocupados, loader, causas>>
    BY <1>5 DEF Mark
  <2> QED  BY <1>5, <2>1, MarkStep, SameFrames
<1>6. CASE FileTransfer
  <2>1. UNCHANGED <<estado, ocupados, paginas>>
    BY <1>6 DEF FileTransfer
  <2> QED  BY <1>6, <2>1, FileTransferStep, SameFrames
<1>7. CASE PageFault
  <2>1. /\ UNCHANGED <<estado, ocupados, paginas, causas>>
        /\ ~Cargando /\ ~Cargando'
    BY <1>7 DEF PageFault, memoryVars, Cargando, Pedido, LoaderIdle
  <2>2. \A x \in Pagina : ConMarco(x)' <=> ConMarco(x)
    BY <2>1 DEF ConMarco
  <2> QED  BY <2>1, <2>2 DEF Held, Tenido
<1>8. CASE Buscar
  <2>1. UNCHANGED <<estado, ocupados, paginas, causas>>
    BY <1>8 DEF Buscar, memoryVars
  <2>2. loader.st = "asked" /\ loader'.st \in {"lock", "idle"}
    BY <1>8 DEF Buscar, Respondido, LoaderIdle, Typing, Loading, Carga
  <2>3. ~Cargando /\ ~Cargando'
    BY <2>2 DEF Cargando
  <2> QED  BY <2>1, <2>3 DEF Held, Tenido, ConMarco
<1>9. CASE ElegirMarco
  <2>1. UNCHANGED <<estado, ocupados>> /\ loader.st = "lock" /\ causas \subseteq causas'
    BY <1>9, ElegirMarcoStep DEF ElegirMarco
  <2>2. ~Cargando /\ loader \in Carga
    BY <2>1 DEF Cargando, Typing, Loading
  <2>3. \A x \in Pagina : /\ ConMarco(x)' => ConMarco(x)
                          /\ paginas'[x].marco = paginas[x].marco
    BY <1>9, <2>1, ElegirMarcoKeeps DEF ConMarco
  <2>4. SUFFICES ASSUME "orphan" \notin causas', NEW m \in ocupados, NEW x \in Pagina,
                        ConMarco(x), paginas[x].marco = m
                 PROVE  Tenido(m)'
    BY <2>1, <2>2 DEF Held, Tenido
  <2>5. CASE paginas' = paginas
    BY <2>1, <2>4, <2>5 DEF Tenido, ConMarco
  <2>6. ASSUME NEW v \in Pagina, paginas' = [paginas EXCEPT ![v].presencia = FALSE],
               loader' = [loader EXCEPT !.st = "out", !.marco = paginas[v].marco,
                            !.pos = paginas[v].swap, !.dato = enMarco[paginas[v].marco]]
        PROVE  Tenido(m)'
    <3>1. CASE x = v
      <4>1. loader'.st = "out" /\ loader'.marco = m
        BY <2>2, <2>4, <2>6, <3>1 DEF Carga
      <4> QED  BY <4>1 DEF Tenido, Cargando
    <3>2. CASE x # v
      <4>1. paginas'[x] = paginas[x]
        BY <2>6, <3>2 DEF Typing, Tables
      <4> QED  BY <2>1, <2>4, <4>1 DEF Tenido, ConMarco
    <3> QED  BY <3>1, <3>2
  <2> QED  BY <1>9, <2>5, <2>6, ElegirMarcoStep
<1>10. CASE SwapOut
  <2>1. UNCHANGED <<estado, ocupados, paginas, causas>>
    BY <1>10 DEF SwapOut, memoryVars
  <2>2. /\ loader.st = "out" /\ loader'.st = "in" /\ loader'.marco = loader.marco
    BY <1>10 DEF SwapOut, Typing, Loading, Carga
  <2>3. Cargando /\ Cargando'
    BY <2>2 DEF Cargando
  <2> QED  BY <2>1, <2>2, <2>3 DEF Held, Tenido, ConMarco
<1>11. CASE SwapIn
  <2>0. PICK x \in Pagina, m \in Marcos : x = loader.pagina /\ m = loader.marco
    BY <1>11, SwapInStep
  <2>1. /\ UNCHANGED estado /\ Cargando /\ ~Cargando'
        /\ ocupados' = ocupados \cup {m} /\ causas \subseteq causas'
    BY <1>11, <2>0, SwapInStep DEF SwapIn, Cargando, LoaderIdle
  <2>2. \A y \in Pagina : y # x => /\ paginas'[y] = paginas[y]
                                   /\ ConMarco(y)' <=> ConMarco(y)
    BY <1>11, <2>0, <2>1, SwapInStep DEF ConMarco
  <2>3. ~ConMarco(x)
    BY <1>11, <2>0, SwapInStep DEF Turns, ConMarco
  <2>4. CASE "orphan" \notin causas'
    <3>1. /\ estado[PidDe(x)] = "vivo"
          /\ paginas'[x].presencia /\ paginas'[x].marco = m
      BY <1>11, <2>0, <2>4, SwapInStep DEF TieneTabla
    <3>2. ConMarco(x)'
      BY <2>1, <3>1 DEF ConMarco
    <3>3. \A k \in ocupados : Tenido(k) => Tenido(k)' \/ k = m
      BY <2>0, <2>2, <2>3 DEF Tenido
    <3>4. Tenido(m)'
      BY <3>1, <3>2 DEF Tenido
    <3> QED  BY <2>1, <2>4, <3>3, <3>4 DEF Held
  <2>5. CASE "orphan" \in causas'
    BY <2>5 DEF Held
  <2> QED  BY <2>4, <2>5
<1>12. ASSUME NEW p \in Process, LiberarSwap(p)
      PROVE  Held'
  <2>1. UNCHANGED <<ocupados, paginas, loader>> /\ causas \subseteq causas'
    BY <1>12 DEF LiberarSwap, memoryVars
  <2>2. \A x \in Pagina : ConMarco(x)' <=> ConMarco(x)
    <3>1. estado[p] = "vivo" /\ estado' = [estado EXCEPT ![p] = "sinSwap"]
      BY <1>12 DEF LiberarSwap
    <3> QED  BY <2>1, <3>1, Pages DEF ConMarco, Typing, Stages
  <2> QED  BY <2>1, <2>2 DEF Held, Tenido, Cargando
<1>13. ASSUME NEW p \in Process, LiberarMarcos(p)
      PROVE  Held'
  <2>1. UNCHANGED <<paginas, loader, causas>>
    BY <1>13 DEF LiberarMarcos
  <2>2. /\ estado[p] = "sinSwap" /\ estado' = [estado EXCEPT ![p] = "sinMarcos"]
        /\ ocupados' = ocupados \ {paginas[x].marco : x \in {y \in Pagina : PidDe(y) = p /\ EnMemoria(y)}}
    BY <1>13 DEF LiberarMarcos
  <2>3. ASSUME NEW x \in Pagina
        PROVE  ConMarco(x)' <=> ConMarco(x) /\ PidDe(x) # p
    BY <2>1, <2>2, Pages DEF ConMarco, Typing, Stages
  <2>4. \A x \in Pagina : ConMarco(x) => EnMemoria(x)
    BY DEF ConMarco, EnMemoria, TieneTabla
  <2>5. ASSUME NEW m \in ocupados', Tenido(m) PROVE Tenido(m)'
    <3>1. ASSUME NEW x \in Pagina, ConMarco(x), paginas[x].marco = m
          PROVE  ConMarco(x)'
      BY <2>2, <2>3, <2>4, <2>5, <3>1
    <3> QED  BY <2>1, <2>5, <3>1 DEF Tenido, Cargando
  <2> QED  BY <2>1, <2>2, <2>5 DEF Held
<1>14. ASSUME NEW p \in Process, DestruirTabla(p)
      PROVE  Held'
  <2>1. UNCHANGED <<ocupados, loader, causas>>
    BY <1>14 DEF DestruirTabla
  <2>2. ASSUME NEW x \in Pagina
        PROVE  /\ ConMarco(x)' <=> ConMarco(x)
               /\ ConMarco(x) => paginas'[x] = paginas[x]
    <3>1. CASE PidDe(x) = p
      BY <1>14, <3>1, DestruirTablaStep DEF ConMarco
    <3>2. CASE PidDe(x) # p
      <4>1. estado'[PidDe(x)] = estado[PidDe(x)]
        BY <1>14, <3>2, DestruirTablaStep, Pages DEF Typing, Stages
      <4> QED  BY <1>14, <3>2, <4>1, DestruirTablaStep DEF ConMarco
    <3> QED  BY <3>1, <3>2
  <2>3. causas \subseteq causas'
    BY <2>1
  <2> QED  BY <2>1, <2>2, <2>3 DEF Held, Tenido, Cargando
<1>15. CASE UNCHANGED vars
  BY <1>15 DEF vars, memoryVars, swapVars, Held, Tenido, ConMarco, Cargando
<1> QED
  <2>1. CASE Access
    BY <2>1, <1>3, <1>4, <1>5, <1>6 DEF Access
  <2>2. CASE Load
    BY <2>2, <1>7, <1>8, <1>9, <1>10, <1>11 DEF Load
  <2>3. CASE Terminate
    BY <2>3, <1>12, <1>13, <1>14 DEF Terminate
  <2> QED  BY <2>1, <2>2, <2>3, <1>1, <1>2, <1>15 DEF Next

LEMMA NextApart ==
  ASSUME Typing, Turns, Apart, [Next]_vars
  PROVE  Apart'
<1>1. ASSUME NEW p \in Process, NewProcess(p)
      PROVE  Apart'
  <2>1. UNCHANGED <<ocupados, loader>>
    BY <1>1 DEF NewProcess
  <2>2. ASSUME NEW x \in Pagina
        PROVE  /\ ConMarco(x)' <=> ConMarco(x)
               /\ ConMarco(x) => paginas'[x] = paginas[x]
    <3>1. CASE PidDe(x) = p
      BY <1>1, <3>1, NewProcessStep DEF ConMarco
    <3>2. CASE PidDe(x) # p
      <4>1. estado'[PidDe(x)] = estado[PidDe(x)]
        BY <1>1, <3>2, NewProcessStep, Pages DEF Typing, Stages
      <4> QED  BY <1>1, <3>2, <4>1, NewProcessStep DEF ConMarco
    <3> QED  BY <3>1, <3>2
  <2>3. causas \subseteq causas'
    BY <1>1, NewProcessStep
  <2> QED  BY <2>1, <2>2, <2>3 DEF Apart, SinCausa, Cargando
<1>2. ASSUME NEW p \in Process, NEW uso \in Usos, NEW dir \in Direccion[p], FrameRequest(p, dir, uso)
      PROVE  Apart'
  <2>1. UNCHANGED <<estado, ocupados, paginas, loader>> /\ causas \subseteq causas'
    BY <1>2 DEF FrameRequest
  <2> QED  BY <2>1, SameFrames
<1>3. CASE MovIn
  <2>1. UNCHANGED <<estado, ocupados, paginas, loader, causas>>
    BY <1>3 DEF MovIn, memoryVars
  <2> QED  BY <2>1, SameFrames
<1>4. CASE MovOut
  <2>1. UNCHANGED <<estado, ocupados, paginas>>
    BY <1>4 DEF MovOut
  <2> QED  BY <1>4, <2>1, MovOutStep, SameFrames
<1>5. CASE Mark
  <2>1. UNCHANGED <<estado, ocupados, loader, causas>>
    BY <1>5 DEF Mark
  <2> QED  BY <1>5, <2>1, MarkStep, SameFrames
<1>6. CASE FileTransfer
  <2>1. UNCHANGED <<estado, ocupados, paginas>>
    BY <1>6 DEF FileTransfer
  <2> QED  BY <1>6, <2>1, FileTransferStep, SameFrames
<1>7. CASE PageFault
  <2>1. /\ UNCHANGED <<estado, ocupados, paginas, causas>>
        /\ ~Cargando /\ ~Cargando'
    BY <1>7 DEF PageFault, memoryVars, Cargando, Pedido, LoaderIdle
  <2>2. \A x \in Pagina : ConMarco(x)' <=> ConMarco(x)
    BY <2>1 DEF ConMarco
  <2> QED  BY <2>1, <2>2 DEF Apart, SinCausa
<1>8. CASE Buscar
  <2>1. UNCHANGED <<estado, ocupados, paginas, causas>>
    BY <1>8 DEF Buscar, memoryVars
  <2>2. loader.st = "asked" /\ loader'.st \in {"lock", "idle"}
    BY <1>8 DEF Buscar, Respondido, LoaderIdle, Typing, Loading, Carga
  <2>3. ~Cargando /\ ~Cargando'
    BY <2>2 DEF Cargando
  <2> QED  BY <2>1, <2>3 DEF Apart, SinCausa, ConMarco
<1>9. CASE ElegirMarco
  <2>1. UNCHANGED <<estado, ocupados>> /\ loader.st = "lock" /\ causas \subseteq causas'
    BY <1>9, ElegirMarcoStep DEF ElegirMarco
  <2>2. ~Cargando /\ loader \in Carga
    BY <2>1 DEF Cargando, Typing, Loading
  <2>3. \A x \in Pagina : /\ ConMarco(x)' => ConMarco(x)
                          /\ paginas'[x].marco = paginas[x].marco
    BY <1>9, <2>1, ElegirMarcoKeeps DEF ConMarco
  <2>4. SUFFICES ASSUME SinCausa({"clean", "orphan"})'
                 PROVE  /\ \A x \in Pagina : ConMarco(x)' => paginas[x].marco \in ocupados
                        /\ Cargando' => \A x \in Pagina : ConMarco(x)' => paginas[x].marco # loader'.marco
    BY <2>1, <2>3 DEF Apart, SinCausa
  <2>5. /\ \A x, y \in Pagina :
             ConMarco(x) /\ ConMarco(y) /\ paginas[x].marco = paginas[y].marco => x = y
        /\ \A x \in Pagina : ConMarco(x) => paginas[x].marco \in ocupados
    BY <2>1, <2>4 DEF Apart, SinCausa
  <2>6. CASE \E m \in Marcos \ ocupados : loader' = [loader EXCEPT !.st = "in", !.marco = m]
    <3>1. loader'.marco \notin ocupados
      BY <2>2, <2>6 DEF Carga
    <3> QED  BY <2>3, <2>5, <3>1
  <2>7. ASSUME NEW v \in Pagina, EnMemoria(v), estado[PidDe(v)] = "vivo",
               paginas' = [paginas EXCEPT ![v].presencia = FALSE],
               loader' = [loader EXCEPT !.st = "out", !.marco = paginas[v].marco,
                            !.pos = paginas[v].swap, !.dato = enMarco[paginas[v].marco]]
        PROVE  Cargando' => \A x \in Pagina : ConMarco(x)' => paginas[x].marco # loader'.marco
    <3>1. ConMarco(v) /\ loader'.marco = paginas[v].marco
      BY <2>2, <2>7 DEF ConMarco, EnMemoria, Carga
    <3>2. ~ConMarco(v)'
      BY <2>7 DEF ConMarco, Typing, Tables, Entrada
    <3> QED  BY <2>3, <2>5, <3>1, <3>2
  <2>8. CASE loader' = LoaderIdle
    BY <2>3, <2>5, <2>8 DEF Cargando, LoaderIdle
  <2>9. ~("clean" \in causas') /\ ~("orphan" \in causas')
    BY <2>4 DEF SinCausa
  <2> QED  BY <1>9, <2>3, <2>5, <2>6, <2>7, <2>8, <2>9, ElegirMarcoStep
<1>10. CASE SwapOut
  <2>1. UNCHANGED <<estado, ocupados, paginas, causas>>
    BY <1>10 DEF SwapOut, memoryVars
  <2>2. /\ loader.st = "out" /\ loader'.st = "in" /\ loader'.marco = loader.marco
    BY <1>10 DEF SwapOut, Typing, Loading, Carga
  <2>3. Cargando /\ Cargando'
    BY <2>2 DEF Cargando
  <2> QED  BY <2>1, <2>2, <2>3 DEF Apart, SinCausa, ConMarco
<1>11. CASE SwapIn
  <2>0. PICK x \in Pagina, m \in Marcos : x = loader.pagina /\ m = loader.marco
    BY <1>11, SwapInStep
  <2>1. /\ UNCHANGED estado /\ Cargando /\ ~Cargando'
        /\ ocupados' = ocupados \cup {m} /\ causas \subseteq causas'
    BY <1>11, <2>0, SwapInStep DEF SwapIn, Cargando, LoaderIdle
  <2>2. \A y \in Pagina : y # x => /\ paginas'[y] = paginas[y]
                                   /\ ConMarco(y)' <=> ConMarco(y)
    BY <1>11, <2>0, <2>1, SwapInStep DEF ConMarco
  <2>3. ~ConMarco(x)
    BY <1>11, <2>0, SwapInStep DEF Turns, ConMarco
  <2>4. CASE "orphan" \notin causas'
    <3>1. /\ estado[PidDe(x)] = "vivo"
          /\ paginas'[x].presencia /\ paginas'[x].marco = m
      BY <1>11, <2>0, <2>4, SwapInStep DEF TieneTabla
    <3>2. ConMarco(x)'
      BY <2>1, <3>1 DEF ConMarco
    <3> QED  BY <2>0, <2>1, <2>2, <2>3, <3>1, <3>2 DEF Apart, SinCausa
  <2>5. CASE "orphan" \in causas'
    BY <2>5 DEF Apart, SinCausa
  <2> QED  BY <2>4, <2>5
<1>12. ASSUME NEW p \in Process, LiberarSwap(p)
      PROVE  Apart'
  <2>1. UNCHANGED <<ocupados, paginas, loader>> /\ causas \subseteq causas'
    BY <1>12 DEF LiberarSwap, memoryVars
  <2>2. \A x \in Pagina : ConMarco(x)' <=> ConMarco(x)
    <3>1. estado[p] = "vivo" /\ estado' = [estado EXCEPT ![p] = "sinSwap"]
      BY <1>12 DEF LiberarSwap
    <3> QED  BY <2>1, <3>1, Pages DEF ConMarco, Typing, Stages
  <2> QED  BY <2>1, <2>2 DEF Apart, SinCausa, Cargando
<1>13. ASSUME NEW p \in Process, LiberarMarcos(p)
      PROVE  Apart'
  <2>1. UNCHANGED <<paginas, loader, causas>>
    BY <1>13 DEF LiberarMarcos
  <2>2. /\ estado[p] = "sinSwap" /\ estado' = [estado EXCEPT ![p] = "sinMarcos"]
        /\ ocupados' = ocupados \ {paginas[x].marco : x \in {y \in Pagina : PidDe(y) = p /\ EnMemoria(y)}}
    BY <1>13 DEF LiberarMarcos
  <2>3. ASSUME NEW x \in Pagina
        PROVE  ConMarco(x)' <=> ConMarco(x) /\ PidDe(x) # p
    BY <2>1, <2>2, Pages DEF ConMarco, Typing, Stages
  <2>4. \A x \in Pagina : ConMarco(x) => EnMemoria(x)
    BY DEF ConMarco, EnMemoria, TieneTabla
  <2>5. SUFFICES ASSUME Apart, SinCausa({"clean", "orphan"}),
                        NEW x \in Pagina, ConMarco(x)'
                 PROVE  paginas[x].marco \in ocupados'
    BY <2>1, <2>3 DEF Apart, SinCausa, Cargando
  <2>6. ASSUME NEW y \in Pagina, PidDe(y) = p, EnMemoria(y)
        PROVE  paginas[y].marco # paginas[x].marco
    <3>1. ConMarco(y)
      BY <2>2, <2>6 DEF ConMarco, EnMemoria
    <3> QED  BY <2>3, <2>5, <2>6, <3>1 DEF Apart
  <2> QED  BY <2>2, <2>3, <2>5, <2>6 DEF Apart
<1>14. ASSUME NEW p \in Process, DestruirTabla(p)
      PROVE  Apart'
  <2>1. UNCHANGED <<ocupados, loader, causas>>
    BY <1>14 DEF DestruirTabla
  <2>2. ASSUME NEW x \in Pagina
        PROVE  /\ ConMarco(x)' <=> ConMarco(x)
               /\ ConMarco(x) => paginas'[x] = paginas[x]
    <3>1. CASE PidDe(x) = p
      BY <1>14, <3>1, DestruirTablaStep DEF ConMarco
    <3>2. CASE PidDe(x) # p
      <4>1. estado'[PidDe(x)] = estado[PidDe(x)]
        BY <1>14, <3>2, DestruirTablaStep, Pages DEF Typing, Stages
      <4> QED  BY <1>14, <3>2, <4>1, DestruirTablaStep DEF ConMarco
    <3> QED  BY <3>1, <3>2
  <2>3. causas \subseteq causas'
    BY <2>1
  <2> QED  BY <2>1, <2>2, <2>3 DEF Apart, SinCausa, Cargando
<1>15. CASE UNCHANGED vars
  BY <1>15 DEF vars, memoryVars, swapVars, Apart, SinCausa, ConMarco, Cargando
<1> QED
  <2>1. CASE Access
    BY <2>1, <1>3, <1>4, <1>5, <1>6 DEF Access
  <2>2. CASE Load
    BY <2>2, <1>7, <1>8, <1>9, <1>10, <1>11 DEF Load
  <2>3. CASE Terminate
    BY <2>3, <1>12, <1>13, <1>14 DEF Terminate
  <2> QED  BY <2>1, <2>2, <2>3, <1>1, <1>2, <1>15 DEF Next

LEMMA NextLockLost ==
  ASSUME Typing, Held, LockLost, [Next]_vars
  PROVE  LockLost'
<1>1. ASSUME NEW p \in Process, NewProcess(p)
      PROVE  LockLost'
  <2>1. lock' = lock /\ causas \subseteq causas'
    BY <1>1 DEF NewProcess
  <2> QED  BY <2>1 DEF LockLost
<1>2. ASSUME NEW p \in Process, NEW uso \in Usos, NEW dir \in Direccion[p], FrameRequest(p, dir, uso)
      PROVE  LockLost'
  <2>1. lock' = lock /\ causas \subseteq causas'
    BY <1>2 DEF FrameRequest
  <2> QED  BY <2>1 DEF LockLost
<1>3. CASE MovIn
  <2>1. lock' = lock /\ causas \subseteq causas'
    BY <1>3 DEF MovIn
  <2> QED  BY <2>1 DEF LockLost
<1>4. CASE MovOut
  <2>1. lock' = lock /\ causas \subseteq causas'
    BY <1>4 DEF MovOut
  <2> QED  BY <2>1 DEF LockLost
<1>5. CASE Mark
  <2>1. lock' = lock /\ causas \subseteq causas'
    BY <1>5 DEF Mark
  <2> QED  BY <2>1 DEF LockLost
<1>6. CASE FileTransfer
  <2>1. lock' = lock /\ causas \subseteq causas'
    BY <1>6, FileTransferStep DEF FileTransfer
  <2> QED  BY <2>1 DEF LockLost
<1>7. CASE PageFault
  <2>1. lock' = lock /\ causas \subseteq causas'
    BY <1>7 DEF PageFault
  <2> QED  BY <2>1 DEF LockLost
<1>8. CASE Buscar
  <2>1. lock' = lock /\ causas \subseteq causas'
    BY <1>8 DEF Buscar
  <2> QED  BY <2>1 DEF LockLost
<1>9. CASE ElegirMarco
  <2>1. SUFFICES ASSUME lock' = "lost", "orphan" \notin causas'
                 PROVE  FALSE
    BY DEF LockLost
  <2>2. /\ loader.st = "lock" /\ Marcos \subseteq ocupados
        /\ \A x \in Pagina : ~EnMemoria(x)
        /\ "orphan" \notin causas
    BY <1>9, <2>1, ElegirMarcoStep
  <2>3. PICK m \in ocupados : m = 0
    BY <2>2, Sizes DEF Typing
  <2>4. Tenido(m) /\ ~Cargando
    BY <2>2 DEF Held, Cargando
  <2> QED  BY <2>2, <2>4 DEF Tenido, ConMarco, EnMemoria, TieneTabla
<1>10. CASE SwapOut
  <2>1. lock' = lock /\ causas \subseteq causas'
    BY <1>10 DEF SwapOut
  <2> QED  BY <2>1 DEF LockLost
<1>11. CASE SwapIn
  BY <1>11, SwapInStep DEF LockLost
<1>12. ASSUME NEW p \in Process, LiberarSwap(p)
      PROVE  LockLost'
  <2>1. lock' = lock /\ causas \subseteq causas'
    BY <1>12 DEF LiberarSwap
  <2> QED  BY <2>1 DEF LockLost
<1>13. ASSUME NEW p \in Process, LiberarMarcos(p)
      PROVE  LockLost'
  <2>1. lock' = lock /\ causas \subseteq causas'
    BY <1>13 DEF LiberarMarcos
  <2> QED  BY <2>1 DEF LockLost
<1>14. ASSUME NEW p \in Process, DestruirTabla(p)
      PROVE  LockLost'
  <2>1. lock' = lock /\ causas \subseteq causas'
    BY <1>14 DEF DestruirTabla
  <2> QED  BY <2>1 DEF LockLost
<1>15. CASE UNCHANGED vars
  BY <1>15 DEF vars, memoryVars, swapVars, LockLost
<1> QED
  <2>1. CASE Access
    BY <2>1, <1>3, <1>4, <1>5, <1>6 DEF Access
  <2>2. CASE Load
    BY <2>2, <1>7, <1>8, <1>9, <1>10, <1>11 DEF Load
  <2>3. CASE Terminate
    BY <2>3, <1>12, <1>13, <1>14 DEF Terminate
  <2> QED  BY <2>1, <2>2, <2>3, <1>1, <1>2, <1>15 DEF Next

LEMMA InitFrames == Init => Held /\ Apart /\ LockLost
<1> SUFFICES ASSUME Init PROVE Held /\ Apart /\ LockLost
  OBVIOUS
<1>1. ocupados = {} /\ lock = "free"
  BY DEF Init
<1>2. \A x \in Pagina : ~ConMarco(x)
  BY Pages DEF Init, ConMarco
<1> QED  BY <1>1, <1>2 DEF Held, Apart, LockLost

------------------------------------------------------------------------------
(* Blocks of swap.                                                          *)

LEMMA SameBlocks ==
  ASSUME SwapAccounted, UNCHANGED <<config, bitarray>>, causas \subseteq causas', Vivas' = Vivas,
         \A x \in Vivas : paginas'[x].swap = paginas[x].swap
  PROVE  SwapAccounted'
BY DEF SwapAccounted, SinCausa

\* The pages that live are those of the processes that live.
LEMMA SameLives ==
  ASSUME estado' = estado
  PROVE  Vivas' = Vivas
BY DEF Vivas

LEMMA OtherLives ==
  ASSUME Typing, NEW p \in Process, NEW e \in {"sinMarcos", "fin"}, estado[p] # "vivo",
         estado' = [estado EXCEPT ![p] = e]
  PROVE  Vivas' = Vivas /\ \A x \in Vivas : PidDe(x) # p
<1>1. \A x \in Pagina : estado'[PidDe(x)] = "vivo" <=> estado[PidDe(x)] = "vivo"
  BY Pages DEF Typing, Stages
<1> QED  BY <1>1 DEF Vivas

LEMMA NewLives ==
  ASSUME Typing, NEW p \in Process, NewProcess(p)
  PROVE  /\ \A x : x \in Vivas' <=> x \in Vivas \/ (x \in Pagina /\ PidDe(x) = p)
         /\ \A x \in Vivas : PidDe(x) # p
<1>1. estado[p] = "nuevo" /\ estado' = [estado EXCEPT ![p] = "vivo"]
  BY NewProcessStep
<1>2. \A x \in Pagina : estado'[PidDe(x)] = "vivo" <=> estado[PidDe(x)] = "vivo" \/ PidDe(x) = p
  BY <1>1, Pages DEF Typing, Stages
<1> QED  BY <1>1, <1>2 DEF Vivas

LEMMA EndLives ==
  ASSUME Typing, NEW p \in Process, LiberarSwap(p)
  PROVE  \A x : x \in Vivas' <=> x \in Vivas /\ PidDe(x) # p
<1>1. estado' = [estado EXCEPT ![p] = "sinSwap"]
  BY DEF LiberarSwap
<1>2. \A x \in Pagina : estado'[PidDe(x)] = "vivo" <=> estado[PidDe(x)] = "vivo" /\ PidDe(x) # p
  BY <1>1, Pages DEF Typing, Stages
<1> QED  BY <1>2 DEF Vivas

\* asignar_bloques_swap: page i of the process gets the free block of rank i.
LEMMA NewBlocks ==
  ASSUME Typing, NEW p \in Process, NewProcess(p), "full" \notin causas'
  PROVE  /\ \A x \in Pagina : PidDe(x) = p => /\ paginas'[x].swap \in Libres
                                              /\ Rango(paginas'[x].swap) = x[2]
                                              /\ enBloque'[paginas'[x].swap] = x
         /\ bitarray' = bitarray \cup {paginas'[x].swap : x \in {y \in Pagina : PidDe(y) = p}}
         /\ \A b \in bitarray : enBloque'[b] = enBloque[b]
<1>1. \A i \in 0 .. PageCount[p] - 1 : ~SinBloque(i)
  BY DEF NewProcess
<1>2. ASSUME NEW x \in Pagina, PidDe(x) = p
      PROVE  /\ paginas'[x].swap \in Libres /\ Rango(paginas'[x].swap) = x[2]
             /\ paginas'[x].swap \in AsignarBloques(PageCount[p])
  <2>1. x[2] \in 0 .. PageCount[p] - 1 /\ PageCount[p] \in Nat
    BY <1>2, Pages, PagingAssumption
  <2>2. paginas'[x].swap = PosicionSwap(x[2])
    BY <1>2 DEF NewProcess, GenerarTabla, EntradaNueva
  <2>3. PosicionSwap(x[2]) \in Libres /\ Rango(PosicionSwap(x[2])) = x[2]
    BY <1>1, <2>1, Positions DEF Typing
  <2> QED  BY <2>1, <2>2, <2>3 DEF AsignarBloques
<1>3. ASSUME NEW b \in AsignarBloques(PageCount[p])
      PROVE  \E x \in Pagina : PidDe(x) = p /\ x = <<p, Rango(b)>> /\ paginas'[x].swap = b
  <2>1. b \in Libres /\ Rango(b) \in Nat /\ Rango(b) < PageCount[p] /\ PageCount[p] \in Nat
    BY <1>3, Ranks, PagingAssumption DEF AsignarBloques, Typing
  <2>2. PICK x \in Pagina : x = <<p, Rango(b)>>
    <3>1. PICK r \in Nat : r = Rango(b)
      BY <2>1
    <3>2. r \in 0 .. PageCount[p] - 1
      BY <2>1, <3>1
    <3> QED  BY <3>1, <3>2, Pages
  <2>3. PidDe(x) = p /\ x[2] = Rango(b)
    BY <2>2 DEF PidDe
  <2>4. paginas'[x].swap \in Libres /\ Rango(paginas'[x].swap) = Rango(b)
    BY <1>2, <2>3
  <2> QED  BY <2>1, <2>2, <2>3, <2>4, Ranks DEF Typing
<1>4. bitarray' = bitarray \cup AsignarBloques(PageCount[p])
  BY DEF NewProcess
<1>5. \A b \in Bloques : enBloque'[b] = IF b \in AsignarBloques(PageCount[p])
                                        THEN <<p, Rango(b)>> ELSE enBloque[b]
  BY DEF NewProcess
<1>6. Libres \subseteq Bloques /\ bitarray \subseteq Bloques /\ \A b \in bitarray : b \notin Libres
  BY DEF Libres, Typing, Blocks
<1>7. ASSUME NEW x \in Pagina, PidDe(x) = p
      PROVE  enBloque'[paginas'[x].swap] = x
  <2>1. x = <<p, x[2]>>
    BY <1>7, Pages
  <2>2. enBloque'[paginas'[x].swap] = <<p, Rango(paginas'[x].swap)>>
    BY <1>2, <1>5, <1>6, <1>7
  <2> QED  BY <1>2, <1>7, <2>1, <2>2
<1>8. \A b \in bitarray : enBloque'[b] = enBloque[b]
  BY <1>5, <1>6 DEF AsignarBloques
<1> QED  BY <1>2, <1>3, <1>4, <1>7, <1>8

LEMMA ConfigSame == [Next]_vars => config' = config
  BY DEF Next, Access, Load, Terminate, NewProcess, FrameRequest, MovIn, MovOut, Mark,
     FileTransfer, PageFault, Buscar, ElegirMarco, SwapOut, SwapIn, LiberarSwap,
     LiberarMarcos, DestruirTabla, vars

LEMMA NextSwap ==
  ASSUME Typing, SwapAccounted, [Next]_vars
  PROVE  SwapAccounted'
<1>0. config' = config
  BY ConfigSame
<1>1. ASSUME NEW p \in Process, NewProcess(p)
      PROVE  SwapAccounted'
  <2>1. SUFFICES ASSUME SinCausa({"full"})'
                 PROVE  /\ bitarray' = config.basura \cup {paginas'[x].swap : x \in Vivas'}
                        /\ \A x \in Vivas' : paginas'[x].swap \notin config.basura
                        /\ \A x, y \in Vivas' : paginas'[x].swap = paginas'[y].swap => x = y
    BY <1>0 DEF SwapAccounted
  <2>2. "full" \notin causas' /\ "full" \notin causas
    BY <1>1, <2>1, NewProcessStep DEF SinCausa
  <2>3. /\ \A x : x \in Vivas' <=> x \in Vivas \/ (x \in Pagina /\ PidDe(x) = p)
        /\ \A x \in Vivas : PidDe(x) # p
    BY <1>1, NewLives
  <2>4. \A x \in Pagina : PidDe(x) = p => /\ paginas'[x].swap \in Libres
                                          /\ Rango(paginas'[x].swap) = x[2]
    BY <1>1, <2>2, NewBlocks
  <2>5. bitarray' = bitarray \cup {paginas'[x].swap : x \in {y \in Pagina : PidDe(y) = p}}
    BY <1>1, <2>2, NewBlocks
  <2>6. /\ bitarray = config.basura \cup {paginas[x].swap : x \in Vivas}
        /\ \A x \in Vivas : paginas[x].swap \notin config.basura
        /\ \A x, y \in Vivas : paginas[x].swap = paginas[y].swap => x = y
    BY <2>2 DEF SwapAccounted, SinCausa
  <2>7. \A x \in Vivas : x \in Pagina /\ paginas'[x] = paginas[x]
    BY <1>1, <2>3, NewProcessStep DEF Vivas
  <2>8. \A b \in bitarray : b \notin Libres
    BY DEF Libres
  <2>9. ASSUME NEW b
        PROVE  b \in bitarray' <=> b \in config.basura \/ \E x \in Vivas' : b = paginas'[x].swap
    BY <2>3, <2>5, <2>6, <2>7
  <2>10. ASSUME NEW x \in Vivas', NEW y \in Vivas', paginas'[x].swap = paginas'[y].swap
         PROVE  x = y
    <3>1. CASE x \in Vivas /\ y \in Vivas
      BY <2>6, <2>7, <2>10, <3>1
    <3>2. CASE x \in Vivas /\ PidDe(y) = p /\ y \in Pagina
      BY <2>4, <2>6, <2>7, <2>8, <2>10, <3>2
    <3>3. CASE y \in Vivas /\ PidDe(x) = p /\ x \in Pagina
      BY <2>4, <2>6, <2>7, <2>8, <2>10, <3>3
    <3>4. CASE PidDe(x) = p /\ x \in Pagina /\ PidDe(y) = p /\ y \in Pagina
      <4>1. x[2] = y[2]
        BY <2>4, <2>10, <3>4
      <4> QED  BY <3>4, <4>1, Pages
    <3> QED  BY <2>3, <3>1, <3>2, <3>3, <3>4
  <2>11. \A x \in Vivas' : paginas'[x].swap \notin config.basura
    <3>1. \A b \in config.basura : b \notin Libres
      BY <2>6, <2>8
    <3> QED  BY <2>3, <2>4, <2>6, <2>7, <3>1
  <2> QED  BY <2>9, <2>10, <2>11
<1>2. ASSUME NEW p \in Process, NEW uso \in Usos, NEW dir \in Direccion[p], FrameRequest(p, dir, uso)
      PROVE  SwapAccounted'
  <2>1. UNCHANGED <<estado, bitarray, paginas>> /\ causas \subseteq causas'
    BY <1>2 DEF FrameRequest, memoryVars, swapVars
  <2> QED  BY <2>1, SameLives, <1>0, SameBlocks
<1>3. CASE MovIn
  <2>1. UNCHANGED <<estado, bitarray, paginas>> /\ causas \subseteq causas'
    BY <1>3 DEF MovIn, memoryVars, swapVars
  <2> QED  BY <2>1, SameLives, <1>0, SameBlocks
<1>4. CASE MovOut
  <2>1. UNCHANGED <<estado, bitarray, paginas>> /\ causas \subseteq causas'
    BY <1>4 DEF MovOut, memoryVars, swapVars
  <2> QED  BY <2>1, SameLives, <1>0, SameBlocks
<1>5. CASE Mark
  <2>1. UNCHANGED <<estado, bitarray, causas>>
    BY <1>5 DEF Mark, swapVars
  <2>2. Vivas \subseteq Pagina
    BY DEF Vivas
  <2> QED  BY <1>5, <2>1, <2>2, MarkStep, SameLives, <1>0, SameBlocks
<1>6. CASE FileTransfer
  <2>1. UNCHANGED <<estado, bitarray, paginas>> /\ causas \subseteq causas'
    BY <1>6, FileTransferStep DEF FileTransfer
  <2> QED  BY <2>1, SameLives, <1>0, SameBlocks
<1>7. CASE PageFault
  <2>1. UNCHANGED <<estado, bitarray, paginas>> /\ causas \subseteq causas'
    BY <1>7 DEF PageFault, memoryVars, swapVars
  <2> QED  BY <2>1, SameLives, <1>0, SameBlocks
<1>8. CASE Buscar
  <2>1. UNCHANGED <<estado, bitarray, paginas>> /\ causas \subseteq causas'
    BY <1>8 DEF Buscar, memoryVars, swapVars
  <2> QED  BY <2>1, SameLives, <1>0, SameBlocks
<1>9. CASE ElegirMarco
  <2>1. UNCHANGED <<estado, bitarray>>
    BY <1>9 DEF ElegirMarco, swapVars
  <2>2. Vivas \subseteq Pagina
    BY DEF Vivas
  <2> QED  BY <1>9, <2>1, <2>2, ElegirMarcoStep, ElegirMarcoKeeps, SameLives, <1>0, SameBlocks
<1>10. CASE SwapOut
  <2>1. UNCHANGED <<estado, bitarray, paginas>> /\ causas \subseteq causas'
    BY <1>10 DEF SwapOut, memoryVars, swapVars
  <2> QED  BY <2>1, SameLives, <1>0, SameBlocks
<1>11. CASE SwapIn
  <2>1. UNCHANGED <<estado, bitarray>>
    BY <1>11 DEF SwapIn, swapVars
  <2>2. Vivas \subseteq Pagina
    BY DEF Vivas
  <2>3. \A x \in Pagina : paginas'[x].swap = paginas[x].swap
    BY <1>11, SwapInStep
  <2> QED  BY <1>11, <2>1, <2>2, <2>3, SwapInStep, SameLives, <1>0, SameBlocks
<1>12. ASSUME NEW p \in Process, LiberarSwap(p)
      PROVE  SwapAccounted'
  <2>1. /\ paginas' = paginas /\ causas \subseteq causas' /\ estado[p] = "vivo"
        /\ bitarray' = bitarray \ {paginas[x].swap : x \in {y \in Pagina : PidDe(y) = p}}
    BY <1>12 DEF LiberarSwap, memoryVars
  <2>2. \A x : x \in Vivas' <=> x \in Vivas /\ PidDe(x) # p
    BY <1>12, EndLives
  <2>3. \A y \in Pagina : PidDe(y) = p => y \in Vivas
    BY <2>1 DEF Vivas
  <2>4. SUFFICES ASSUME SinCausa({"full"})'
                 PROVE  /\ bitarray' = config.basura \cup {paginas[x].swap : x \in Vivas'}
                        /\ \A x \in Vivas' : paginas[x].swap \notin config.basura
                        /\ \A x, y \in Vivas' : paginas[x].swap = paginas[y].swap => x = y
    BY <1>0, <2>1 DEF SwapAccounted
  <2>5. /\ bitarray = config.basura \cup {paginas[x].swap : x \in Vivas}
        /\ \A x \in Vivas : paginas[x].swap \notin config.basura
        /\ \A x, y \in Vivas : paginas[x].swap = paginas[y].swap => x = y
    BY <2>1, <2>4 DEF SwapAccounted, SinCausa
  <2>6. Vivas \subseteq Pagina
    BY DEF Vivas
  <2>7. ASSUME NEW b
        PROVE  b \in bitarray' <=> b \in config.basura \/ \E x \in Vivas' : b = paginas[x].swap
    <3>1. b \in bitarray' <=> /\ b \in config.basura \/ \E x \in Vivas : b = paginas[x].swap
                              /\ ~ \E y \in Pagina : PidDe(y) = p /\ b = paginas[y].swap
      BY <2>1, <2>5
    <3> QED  BY <2>2, <2>3, <2>5, <2>6, <3>1
  <2> QED  BY <2>2, <2>5, <2>7
<1>13. ASSUME NEW p \in Process, LiberarMarcos(p)
      PROVE  SwapAccounted'
  <2>1. /\ UNCHANGED <<bitarray, paginas, causas>> /\ estado[p] = "sinSwap"
        /\ estado' = [estado EXCEPT ![p] = "sinMarcos"]
    BY <1>13 DEF LiberarMarcos, swapVars
  <2> QED  BY <2>1, OtherLives, <1>0, SameBlocks
<1>14. ASSUME NEW p \in Process, DestruirTabla(p)
      PROVE  SwapAccounted'
  <2>1. UNCHANGED <<bitarray, causas>>
    BY <1>14 DEF DestruirTabla
  <2>2. Vivas' = Vivas /\ \A x \in Vivas : PidDe(x) # p
    BY <1>14, DestruirTablaStep, OtherLives
  <2>3. \A x \in Vivas : paginas'[x] = paginas[x]
    BY <1>14, <2>2, DestruirTablaStep DEF Vivas
  <2> QED  BY <2>1, <2>2, <2>3, <1>0, SameBlocks
<1>15. CASE UNCHANGED vars
  BY <1>15 DEF vars, memoryVars, swapVars, SwapAccounted, SinCausa, Vivas
<1> QED
  <2>1. CASE Access
    BY <2>1, <1>3, <1>4, <1>5, <1>6 DEF Access
  <2>2. CASE Load
    BY <2>2, <1>7, <1>8, <1>9, <1>10, <1>11 DEF Load
  <2>3. CASE Terminate
    BY <2>3, <1>12, <1>13, <1>14 DEF Terminate
  <2> QED  BY <2>1, <2>2, <2>3, <1>1, <1>2, <1>15 DEF Next

LEMMA InitSwap == Init => SwapAccounted
<1> SUFFICES ASSUME Init PROVE SwapAccounted
  OBVIOUS
<1>1. bitarray = config.basura /\ Vivas = {}
  BY Pages DEF Init, Vivas
<1> QED  BY <1>1 DEF SwapAccounted

------------------------------------------------------------------------------
(* Contents.                                                                *)

\* Steps that write nothing keep whose everything is.
LEMMA SameContents ==
  ASSUME Typing, Kept, Vivas' = Vivas, causas \subseteq causas',
         \A x \in Vivas : /\ paginas'[x].presencia = paginas[x].presencia
                          /\ paginas'[x].marco = paginas[x].marco
                          /\ paginas'[x].swap = paginas[x].swap
                          /\ enMarco'[paginas[x].marco] = enMarco[paginas[x].marco]
                          /\ enBloque'[paginas[x].swap] = enBloque[paginas[x].swap],
         \/ loader' = loader
         \/ loader.st # "out" /\ loader'.st # "out"
  PROVE  Kept'
BY DEF Kept, SinCausa

\* Writing the frame of a present page, and none other, keeps the contents.
LEMMA WriteKeeps ==
  ASSUME Typing, Kept, Apart, NEW x \in Pagina, NEW m, NEW toda, Escritura(x, m, {m}, toda),
         Vigente(x, m), UNCHANGED <<estado, paginas>>, causas \subseteq causas'
  PROVE  Kept'
<1>1. SUFFICES ASSUME SinCausa({"clean", "stale", "spill", "full", "orphan"})'
               PROVE  /\ loader'.st = "out" =>
                           \E v \in Vivas : /\ paginas[v].swap = loader'.pos /\ loader'.dato = v
                                            /\ ~paginas[v].presencia
                      /\ \A y \in Vivas : paginas[y].presencia => enMarco'[paginas[y].marco] = y
                      /\ \A y \in Vivas : ~paginas[y].presencia =>
                           \/ enBloque'[paginas[y].swap] = y
                           \/ loader'.st = "out" /\ loader'.pos = paginas[y].swap /\ loader'.dato = y
  BY SameLives DEF Kept
<1>2. /\ loader.st = "out" => \E v \in Vivas : /\ paginas[v].swap = loader.pos /\ loader.dato = v
                                               /\ ~paginas[v].presencia
      /\ \A y \in Vivas : paginas[y].presencia => enMarco[paginas[y].marco] = y
      /\ \A y \in Vivas : ~paginas[y].presencia =>
           \/ enBloque[paginas[y].swap] = y
           \/ loader.st = "out" /\ loader.pos = paginas[y].swap /\ loader.dato = y
  BY <1>1 DEF Kept, SinCausa
<1>3. ConMarco(x) /\ paginas[x].presencia /\ paginas[x].marco = m
  BY DEF Vigente, ConMarco, EnMemoria
<1>4. /\ loader'.st = loader.st /\ loader'.pos = loader.pos
      /\ loader'.dato = IF loader.dato = x THEN Nadie ELSE loader.dato
  BY WriteStep
<1>5. \A y \in Vivas : /\ y \in Pagina /\ paginas[y].marco \in Marcos /\ paginas[y].swap \in Bloques
                       /\ paginas[y].presencia => ConMarco(y)
  BY DEF Vivas, ConMarco, Typing, Tables, Entrada
<1>6. /\ \A g \in Marcos : enMarco'[g] = IF g = m THEN IF enMarco[g] = x \/ toda THEN x ELSE Nadie
                                         ELSE IF enMarco[g] = x THEN Nadie ELSE enMarco[g]
      /\ \A b \in Bloques : enBloque'[b] = IF enBloque[b] = x THEN Nadie ELSE enBloque[b]
  BY DEF Escritura
<1>7. \A y \in Vivas : paginas[y].presencia /\ y # x => paginas[y].marco # m
  BY <1>1, <1>3, <1>5 DEF Apart, SinCausa
<1>8. \A y \in Vivas : paginas[y].presencia => enMarco'[paginas[y].marco] = y
  BY <1>2, <1>3, <1>5, <1>6, <1>7
<1>9. \A y \in Vivas : ~paginas[y].presencia =>
           \/ enBloque'[paginas[y].swap] = y
           \/ loader'.st = "out" /\ loader'.pos = paginas[y].swap /\ loader'.dato = y
  BY <1>2, <1>3, <1>4, <1>5, <1>6
<1> QED  BY <1>2, <1>3, <1>4, <1>8, <1>9

LEMMA NextKept ==
  ASSUME Typing, Turns, Apart, SwapAccounted, Kept, [Next]_vars
  PROVE  Kept'
<1>1. ASSUME NEW p \in Process, NewProcess(p)
      PROVE  Kept'
  <2>1. SUFFICES ASSUME SinCausa({"clean", "stale", "spill", "full", "orphan"})'
                 PROVE  Kept'
    BY DEF Kept
  <2>2. "full" \notin causas' /\ causas \subseteq causas'
    BY <1>1, <2>1, NewProcessStep DEF SinCausa
  <2>3. /\ loader.st = "out" => \E w \in Vivas : /\ paginas[w].swap = loader.pos
                                                 /\ loader.dato = w /\ ~paginas[w].presencia
        /\ \A z \in Vivas : paginas[z].presencia => enMarco[paginas[z].marco] = z
        /\ \A z \in Vivas : ~paginas[z].presencia =>
             \/ enBloque[paginas[z].swap] = z
             \/ loader.st = "out" /\ loader.pos = paginas[z].swap /\ loader.dato = z
    BY <2>1, <2>2 DEF Kept, SinCausa
  <2>4. /\ \A x : x \in Vivas' <=> x \in Vivas \/ (x \in Pagina /\ PidDe(x) = p)
        /\ \A x \in Vivas : PidDe(x) # p
    BY <1>1, NewLives
  <2>5. UNCHANGED <<enMarco, loader>>
    BY <1>1 DEF NewProcess
  <2>6. \A x \in Pagina : PidDe(x) = p => ~paginas'[x].presencia /\ enBloque'[paginas'[x].swap] = x
    BY <1>1, <2>2, NewBlocks, NewProcessStep
  <2>7. \A x \in Vivas : paginas'[x] = paginas[x]
    BY <1>1, <2>4, NewProcessStep DEF Vivas
  <2>8. \A x \in Vivas : enBloque'[paginas[x].swap] = enBloque[paginas[x].swap]
    <3>1. \A x \in Vivas : paginas[x].swap \in bitarray
      BY <2>1, <2>2 DEF SwapAccounted, SinCausa
    <3> QED  BY <1>1, <2>2, <3>1, NewBlocks
  <2> QED  BY <2>3, <2>4, <2>5, <2>6, <2>7, <2>8 DEF Kept
<1>2. ASSUME NEW p \in Process, NEW uso \in Usos, NEW dir \in Direccion[p], FrameRequest(p, dir, uso)
      PROVE  Kept'
  <2>1. UNCHANGED <<estado, paginas, enMarco, enBloque, loader>> /\ causas \subseteq causas'
    BY <1>2 DEF FrameRequest, memoryVars, swapVars
  <2> QED  BY <2>1, SameLives, SameContents
<1>3. CASE MovIn
  <2>1. UNCHANGED <<estado, paginas, enMarco, enBloque, loader>> /\ causas \subseteq causas'
    BY <1>3 DEF MovIn, memoryVars, swapVars
  <2> QED  BY <2>1, SameLives, SameContents
<1>4. CASE MovOut
  <2>1. UNCHANGED <<estado, paginas>>
    BY <1>4 DEF MovOut
  <2>2. CASE "stale" \in causas'
    BY <2>2 DEF Kept, SinCausa
  <2>3. CASE Vigente(cpu.pagina, espacio_obtener_frame(cpu.dir))
    BY <1>4, <2>1, <2>3, MovOutStep, WriteKeeps
  <2> QED  BY <1>4, <2>2, <2>3, MovOutStep
<1>5. CASE Mark
  <2>1. UNCHANGED <<estado, enMarco, enBloque, loader, causas>>
    BY <1>5 DEF Mark, swapVars
  <2>2. Vivas \subseteq Pagina
    BY DEF Vivas
  <2> QED  BY <1>5, <2>1, <2>2, MarkStep, SameLives, SameContents
<1>6. CASE FileTransfer
  <2>1. UNCHANGED <<estado, paginas>> /\ causas \subseteq causas' /\ cpu.pagina \in Pagina
    BY <1>6, FileTransferStep DEF FileTransfer
  <2>2. CASE "stale" \in causas' \/ "spill" \in causas'
    BY <2>2 DEF Kept, SinCausa
  <2>3. CASE UNCHANGED <<enMarco, enBloque, loader, causas>>
    BY <2>1, <2>3, SameLives, SameContents
  <2>4. CASE \E m : /\ Escritura(cpu.pagina, m, {m}, cpu.dir % PageSize = 0)
                    /\ Vigente(cpu.pagina, m)
    BY <2>1, <2>4, WriteKeeps
  <2> QED  BY <1>6, <2>2, <2>3, <2>4, FileTransferStep
<1>7. CASE PageFault
  <2>1. /\ UNCHANGED <<estado, paginas, enMarco, enBloque, causas>>
        /\ loader.st # "out" /\ loader'.st # "out"
    BY <1>7 DEF PageFault, memoryVars, swapVars, Pedido, LoaderIdle
  <2> QED  BY <2>1, SameLives, SameContents
<1>8. CASE Buscar
  <2>1. UNCHANGED <<estado, paginas, enMarco, enBloque, causas>>
    BY <1>8 DEF Buscar, memoryVars, swapVars
  <2>2. loader.st = "asked" /\ loader'.st \in {"lock", "idle"}
    BY <1>8 DEF Buscar, Respondido, LoaderIdle, Typing, Loading, Carga
  <2> QED  BY <2>1, <2>2, SameLives, SameContents
<1>9. CASE ElegirMarco
  <2>1. /\ UNCHANGED <<estado, enMarco, enBloque>> /\ Vivas' = Vivas /\ loader.st = "lock"
        /\ causas \subseteq causas' /\ loader \in Carga
    BY <1>9, SameLives, ElegirMarcoStep DEF ElegirMarco, swapVars, Typing, Loading
  <2>2. CASE paginas' = paginas /\ loader'.st # "out"
    BY <2>1, <2>2, SameContents
  <2>3. ASSUME NEW v \in Pagina, EnMemoria(v),
               estado[PidDe(v)] = "vivo" \/ "orphan" \in causas',
               paginas' = [paginas EXCEPT ![v].presencia = FALSE],
               loader' = [loader EXCEPT !.st = "out", !.marco = paginas[v].marco,
                            !.pos = paginas[v].swap, !.dato = enMarco[paginas[v].marco]]
        PROVE  Kept'
    <3>1. SUFFICES ASSUME SinCausa({"clean", "stale", "spill", "full", "orphan"})'
                   PROVE  Kept'
      BY DEF Kept
    <3>2. /\ loader.st = "out" => \E w \in Vivas : /\ paginas[w].swap = loader.pos
                                                   /\ loader.dato = w /\ ~paginas[w].presencia
          /\ \A z \in Vivas : paginas[z].presencia => enMarco[paginas[z].marco] = z
          /\ \A z \in Vivas : ~paginas[z].presencia =>
               \/ enBloque[paginas[z].swap] = z
               \/ loader.st = "out" /\ loader.pos = paginas[z].swap /\ loader.dato = z
      BY <2>1, <3>1 DEF Kept, SinCausa
    <3>3. v \in Vivas /\ paginas[v].presencia
      BY <2>3, <3>1 DEF Vivas, EnMemoria, SinCausa
    <3>4. /\ loader'.st = "out" /\ loader'.pos = paginas[v].swap /\ loader'.dato = v
      BY <2>1, <2>3, <3>2, <3>3 DEF Carga
    <3>5. /\ ~paginas'[v].presencia /\ paginas'[v].swap = paginas[v].swap
          /\ \A x \in Vivas : x # v => paginas'[x] = paginas[x]
      BY <2>3 DEF Vivas, Typing, Tables, Entrada
    <3> QED  BY <2>1, <3>2, <3>3, <3>4, <3>5 DEF Kept
  <2>4. \/ paginas' = paginas /\ loader'.st # "out"
        \/ \E v \in Pagina :
             /\ EnMemoria(v)
             /\ estado[PidDe(v)] = "vivo" \/ "orphan" \in causas'
             /\ paginas' = [paginas EXCEPT ![v].presencia = FALSE]
             /\ loader' = [loader EXCEPT !.st = "out", !.marco = paginas[v].marco,
                            !.pos = paginas[v].swap, !.dato = enMarco[paginas[v].marco]]
    <3>1. \A m : [loader EXCEPT !.st = "in", !.marco = m].st # "out"
      BY <2>1 DEF Carga
    <3>2. LoaderIdle.st # "out"
      BY DEF LoaderIdle
    <3> QED  BY <1>9, <3>1, <3>2, ElegirMarcoStep
  <2> QED  BY <2>2, <2>3, <2>4
<1>10. CASE SwapOut
  <2>1. SUFFICES ASSUME SinCausa({"clean", "stale", "spill", "full", "orphan"})'
                 PROVE  Kept'
    BY DEF Kept
  <2>2. /\ UNCHANGED <<estado, paginas, enMarco, causas>> /\ Vivas' = Vivas
        /\ loader.st = "out" /\ enBloque' = [enBloque EXCEPT ![loader.pos] = loader.dato]
    BY <1>10, SameLives DEF SwapOut, EscribirBloque, memoryVars
  <2>3. loader'.st = "in" /\ loader.pos \in Bloques
    BY <1>10 DEF SwapOut, Typing, Loading, Carga
  <2>4. /\ loader.st = "out" => \E w \in Vivas : /\ paginas[w].swap = loader.pos
                                                 /\ loader.dato = w /\ ~paginas[w].presencia
        /\ \A z \in Vivas : paginas[z].presencia => enMarco[paginas[z].marco] = z
        /\ \A z \in Vivas : ~paginas[z].presencia =>
             \/ enBloque[paginas[z].swap] = z
             \/ loader.st = "out" /\ loader.pos = paginas[z].swap /\ loader.dato = z
    BY <2>1, <2>2 DEF Kept, SinCausa
  <2>5. PICK v \in Vivas : paginas[v].swap = loader.pos /\ loader.dato = v
    BY <2>2, <2>4
  <2>6. \A x \in Vivas : paginas[x].swap = loader.pos => x = v
    BY <2>1, <2>2, <2>5 DEF SwapAccounted, SinCausa
  <2>7. \A x \in Vivas : paginas[x].swap \in Bloques
    BY DEF Vivas, Typing, Tables, Entrada
  <2>8. \A b \in Bloques : enBloque'[b] = IF b = loader.pos THEN v ELSE enBloque[b]
    BY <2>2, <2>5 DEF Typing, Blocks
  <2>9. \A x \in Vivas : ~paginas[x].presencia => enBloque'[paginas[x].swap] = x
    BY <2>4, <2>5, <2>6, <2>7, <2>8
  <2> QED  BY <2>2, <2>3, <2>4, <2>9 DEF Kept
<1>11. CASE SwapIn
  <2>1. SUFFICES ASSUME SinCausa({"clean", "stale", "spill", "full", "orphan"})'
                 PROVE  Kept'
    BY DEF Kept
  <2>2. /\ UNCHANGED <<estado, enBloque>> /\ Vivas' = Vivas /\ causas \subseteq causas'
        /\ loader.st = "in" /\ loader'.st = "idle"
    BY <1>11, SameLives, SwapInStep DEF SwapIn, swapVars, LoaderIdle
  <2>3. PICK x \in Pagina, m \in Marcos : x = loader.pagina /\ m = loader.marco
    BY <1>11, SwapInStep
  <2>4. /\ loader.st = "out" => \E w \in Vivas : /\ paginas[w].swap = loader.pos
                                                 /\ loader.dato = w /\ ~paginas[w].presencia
        /\ \A z \in Vivas : paginas[z].presencia => enMarco[paginas[z].marco] = z
        /\ \A z \in Vivas : ~paginas[z].presencia =>
             \/ enBloque[paginas[z].swap] = z
             \/ loader.st = "out" /\ loader.pos = paginas[z].swap /\ loader.dato = z
    BY <2>1, <2>2 DEF Kept, SinCausa
  <2>5. x \in Vivas /\ ~paginas[x].presencia
    BY <1>11, <2>1, <2>2, <2>3, SwapInStep DEF Vivas, SinCausa, Turns
  <2>6. /\ \A y \in Pagina : y # x => paginas'[y] = paginas[y]
        /\ paginas'[x].presencia /\ paginas'[x].marco = m
        /\ enMarco' = [enMarco EXCEPT ![m] = enBloque[paginas[x].swap]]
    BY <1>11, <2>3, <2>5, SwapInStep DEF Vivas, TieneTabla
  <2>7. enBloque[paginas[x].swap] = x
    BY <2>2, <2>4, <2>5
  <2>8. \A y \in Vivas : y # x /\ paginas[y].presencia => paginas[y].marco # m
    BY <2>1, <2>2, <2>3 DEF Apart, SinCausa, Cargando, ConMarco, Vivas
  <2>9. \A y \in Vivas : y \in Pagina /\ paginas[y].marco \in Marcos
    BY DEF Vivas, Typing, Tables, Entrada
  <2>10. \A g \in Marcos : enMarco'[g] = IF g = m THEN x ELSE enMarco[g]
    BY <2>6, <2>7 DEF Typing, Frames
  <2> QED  BY <2>2, <2>4, <2>5, <2>6, <2>8, <2>9, <2>10 DEF Kept
<1>12. ASSUME NEW p \in Process, LiberarSwap(p)
      PROVE  Kept'
  <2>1. UNCHANGED <<paginas, enMarco, enBloque, loader>> /\ causas \subseteq causas'
    BY <1>12 DEF LiberarSwap, memoryVars
  <2>2. \A x : x \in Vivas' <=> x \in Vivas /\ PidDe(x) # p
    BY <1>12, EndLives
  <2>3. "orphan" \in causas' \/ (loader.st = "out" =>
          \A y \in Pagina : PidDe(y) = p => paginas[y].swap # loader.pos)
    BY <1>12 DEF LiberarSwap
  <2>4. Vivas \subseteq Pagina
    BY DEF Vivas
  <2>5. CASE "orphan" \in causas'
    BY <2>5 DEF Kept, SinCausa
  <2>6. CASE loader.st = "out" => \A y \in Pagina : PidDe(y) = p => paginas[y].swap # loader.pos
    BY <2>1, <2>2, <2>4, <2>6 DEF Kept, SinCausa
  <2> QED  BY <2>3, <2>5, <2>6
<1>13. ASSUME NEW p \in Process, LiberarMarcos(p)
      PROVE  Kept'
  <2>1. /\ UNCHANGED <<paginas, enMarco, enBloque, loader, causas>> /\ estado[p] = "sinSwap"
        /\ estado' = [estado EXCEPT ![p] = "sinMarcos"]
    BY <1>13 DEF LiberarMarcos, swapVars
  <2> QED  BY <2>1, OtherLives, SameContents
<1>14. ASSUME NEW p \in Process, DestruirTabla(p)
      PROVE  Kept'
  <2>1. UNCHANGED <<loader, causas>>
    BY <1>14 DEF DestruirTabla
  <2>2. Vivas' = Vivas /\ \A x \in Vivas : PidDe(x) # p
    BY <1>14, DestruirTablaStep, OtherLives
  <2>3. \A x \in Vivas : /\ x \in Pagina /\ paginas'[x] = paginas[x]
                         /\ paginas[x].marco \in Marcos /\ paginas[x].swap \in Bloques
    BY <1>14, <2>2, DestruirTablaStep DEF Vivas, Typing, Tables, Entrada
  <2>4. /\ \A g \in Marcos : enMarco'[g] = DeVivos(p, enMarco[g])
        /\ \A b \in Bloques : enBloque'[b] = DeVivos(p, enBloque[b])
    BY <1>14 DEF DestruirTabla
  <2>5. \A x \in Vivas : DeVivos(p, x) = x
    BY <2>2 DEF DeVivos, PidDe
  <2> QED  BY <2>1, <2>2, <2>3, <2>4, <2>5 DEF Kept, SinCausa
<1>15. CASE UNCHANGED vars
  BY <1>15 DEF vars, memoryVars, swapVars, Kept, SinCausa, Vivas
<1> QED
  <2>1. CASE Access
    BY <2>1, <1>3, <1>4, <1>5, <1>6 DEF Access
  <2>2. CASE Load
    BY <2>2, <1>7, <1>8, <1>9, <1>10, <1>11 DEF Load
  <2>3. CASE Terminate
    BY <2>3, <1>12, <1>13, <1>14 DEF Terminate
  <2> QED  BY <2>1, <2>2, <2>3, <1>1, <1>2, <1>15 DEF Next

LEMMA InitKept == Init => Kept
<1> SUFFICES ASSUME Init PROVE Kept
  OBVIOUS
<1>1. Vivas = {} /\ loader.st = "idle"
  BY Pages DEF Init, Vivas, LoaderIdle
<1> QED  BY <1>1 DEF Kept

------------------------------------------------------------------------------
(* Marks.                                                                   *)

\* Steps that leave the CPU's access and the contents of swap alone.
LEMMA SameMarks ==
  ASSUME Typing, Turns, Marked, Vivas' = Vivas, causas \subseteq causas',
         UNCHANGED <<cpu, pendientes>>,
         \A x \in Vivas : /\ paginas'[x].presencia => paginas[x].presencia
                          /\ paginas'[x].marco = paginas[x].marco
                          /\ paginas'[x].swap = paginas[x].swap
                          /\ paginas'[x].modificado = paginas[x].modificado
                          /\ paginas'[x].presencia =>
                               enBloque'[paginas[x].swap] = enBloque[paginas[x].swap]
  PROVE  Marked'
<1>1. SUFFICES ASSUME causas' = {} PROVE Marked'
  BY DEF Marked
<1>2. causas = {}
  BY <1>1
<1>3. cpu.st = "mark" => cpu.pagina \in Vivas
  BY DEF Turns, Esperando, Vivas, Typing, Accessing
<1> QED  BY <1>2, <1>3 DEF Marked, espacio_obtener_frame

LEMMA NextMarked ==
  ASSUME Typing, Turns, SwapAccounted, Kept, Marked, [Next]_vars
  PROVE  Marked'
<1>1. ASSUME NEW p \in Process, NewProcess(p)
      PROVE  Marked'
  <2>1. SUFFICES ASSUME causas' = {} PROVE Marked'
    BY DEF Marked
  <2>2. "full" \notin causas' /\ causas = {}
    BY <1>1, <2>1, NewProcessStep
  <2>3. /\ \A x : x \in Vivas' <=> x \in Vivas \/ (x \in Pagina /\ PidDe(x) = p)
        /\ \A x \in Vivas : PidDe(x) # p
    BY <1>1, NewLives
  <2>4. UNCHANGED <<pendientes, cpu>>
    BY <1>1 DEF NewProcess
  <2>5. \A x \in Pagina : PidDe(x) = p => ~paginas'[x].presencia
    BY <1>1, NewProcessStep
  <2>6. \A x \in Vivas : paginas'[x] = paginas[x]
    BY <1>1, <2>3, NewProcessStep DEF Vivas
  <2>7. \A x \in Vivas : enBloque'[paginas[x].swap] = enBloque[paginas[x].swap]
    <3>1. \A x \in Vivas : paginas[x].swap \in bitarray
      BY <2>2 DEF SwapAccounted, SinCausa
    <3> QED  BY <1>1, <2>2, <3>1, NewBlocks
  <2>8. cpu.st = "mark" => cpu.pagina \in Vivas
    BY DEF Turns, Esperando, Vivas, Typing, Accessing
  <2> QED  BY <2>2, <2>3, <2>4, <2>5, <2>6, <2>7, <2>8 DEF Marked, espacio_obtener_frame
<1>2. ASSUME NEW p \in Process, NEW uso \in Usos, NEW dir \in Direccion[p], FrameRequest(p, dir, uso)
      PROVE  Marked'
  <2>1. UNCHANGED <<estado, paginas, enBloque>>
    BY <1>2 DEF FrameRequest, swapVars
  <2>2. SUFFICES ASSUME causas' = {} PROVE Marked'
    BY DEF Marked
  <2>3. causas = {} /\ cpu.st = "idle"
    BY <1>2, <2>2, FrameRequestStep
  <2>4. pendientes = <<>> /\ (\A x \in Vivas : paginas[x].presencia /\ enBloque[paginas[x].swap] # x
                                => paginas[x].modificado)
    BY <2>3 DEF Marked
  <2>5. PICK x \in Pagina :
              \/ /\ ObtenerMarco(x, uso) /\ cpu'.st \in {"mov", "file"}
                 /\ cpu'.pagina = x /\ cpu'.uso = uso
                 /\ cpu'.st = "mov" <=> uso \in {"MOV_IN", "MOV_OUT"}
                 /\ uso = "F_WRITE" => "leftover" \in causas'
              \/ /\ cpu' = [CpuIdle EXCEPT !.st = "fault", !.pagina = x]
                 /\ pendientes' = pendientes
    BY <1>2, FrameRequestStep
  <2>6. CASE cpu' = [CpuIdle EXCEPT !.st = "fault", !.pagina = x] /\ pendientes' = pendientes
    <3>1. cpu'.st = "fault"
      BY <2>6 DEF CpuIdle
    <3> QED  BY <2>1, <2>4, <2>6, <3>1, SameLives DEF Marked
  <2>7. CASE /\ ObtenerMarco(x, uso) /\ cpu'.st \in {"mov", "file"}
             /\ cpu'.pagina = x /\ cpu'.uso = uso
             /\ cpu'.st = "mov" <=> uso \in {"MOV_IN", "MOV_OUT"}
             /\ uso # "F_WRITE"
    <3>1. Append(<<>>, x) = <<x>>
      OBVIOUS
    <3>2. pendientes' = IF uso = "MOV_OUT" THEN <<x>> ELSE <<>>
      BY <2>4, <2>7, <3>1 DEF ObtenerMarco, Escribir, Usos
    <3>3. pendientes' = IF cpu'.st \in {"mov", "mark"} /\ cpu'.uso = "MOV_OUT"
                        THEN <<cpu'.pagina>> ELSE <<>>
      BY <2>7, <3>2
    <3> QED  BY <2>1, <2>4, <2>7, <3>3, SameLives DEF Marked
  <2> QED  BY <2>2, <2>5, <2>6, <2>7
<1>3. CASE MovIn
  <2>1. UNCHANGED <<estado, paginas, enBloque, pendientes, causas>>
    BY <1>3 DEF MovIn, memoryVars, swapVars
  <2>2. cpu.st = "mov" /\ cpu.uso = "MOV_IN" /\ cpu'.st = "idle"
    BY <1>3 DEF MovIn, CpuIdle
  <2> QED  BY <2>1, <2>2, SameLives DEF Marked
<1>4. CASE MovOut
  <2>1. UNCHANGED <<estado, paginas, pendientes>>
    BY <1>4 DEF MovOut
  <2>2. SUFFICES ASSUME causas' = {} PROVE Marked'
    BY DEF Marked
  <2>3. PICK x \in Pagina : x = cpu.pagina
    BY <1>4, MovOutStep
  <2>4. /\ causas = {} /\ paginas[x].marco = espacio_obtener_frame(cpu.dir)
        /\ cpu.st = "mov" /\ cpu.uso = "MOV_OUT" /\ cpu'.st = "mark" /\ cpu'.pagina = x
        /\ cpu'.uso = "MOV_OUT" /\ cpu'.dir = cpu.dir
    BY <1>4, <2>2, <2>3, MovOutStep DEF Vigente
  <2>5. \A b \in Bloques : enBloque'[b] = IF enBloque[b] = x THEN Nadie ELSE enBloque[b]
    BY <1>4, <2>3, MovOutStep DEF Escritura
  <2>6. \A y \in Vivas : paginas[y].swap \in Bloques
    BY DEF Vivas, Typing, Tables, Entrada
  <2>7. \A y \in Vivas : y # x /\ paginas[y].presencia /\ enBloque'[paginas[y].swap] # y
                           => paginas[y].modificado
    BY <2>3, <2>4, <2>5, <2>6 DEF Marked
  <2>8. pendientes' = <<x>>
    BY <2>1, <2>3, <2>4 DEF Marked
  <2> QED  BY <2>1, <2>4, <2>7, <2>8, SameLives DEF Marked, espacio_obtener_frame
<1>5. CASE Mark
  <2>1. UNCHANGED <<estado, enBloque, causas>>
    BY <1>5 DEF Mark, swapVars
  <2>2. SUFFICES ASSUME causas = {} PROVE Marked'
    BY <2>1 DEF Marked
  <2>3. cpu.st = "mark" /\ cpu'.st = "idle"
    BY <1>5, MarkStep DEF CpuIdle
  <2>4. PICK x \in Pagina : x = cpu.pagina
    BY <2>3 DEF Typing, Accessing
  <2>5. /\ pendientes = <<x>> /\ paginas[x].marco = espacio_obtener_frame(cpu.dir)
        /\ \A y \in Vivas : paginas[y].presencia /\ enBloque[paginas[y].swap] # y
             => paginas[y].modificado \/ y = x
    BY <2>2, <2>3, <2>4 DEF Marked, Turns
  <2>6. TieneTabla(x)
    BY <2>3, <2>4 DEF Turns, Esperando, TieneTabla
  <2>7. DOMAIN pendientes = {1} /\ pendientes[1] = x
    BY <2>5
  <2>8. 1 \in PrimerasPendientes(espacio_obtener_frame(cpu.dir))
    BY <2>5, <2>6, <2>7 DEF PrimerasPendientes
  <2>9. PrimerasPendientes(espacio_obtener_frame(cpu.dir)) = {1}
    BY <2>7, <2>8 DEF PrimerasPendientes
  <2>10. /\ pendientes' = RemoveAt(pendientes, 1)
         /\ paginas' = [paginas EXCEPT ![x].modificado = TRUE]
    BY <1>5, <2>6, <2>7, <2>9 DEF Mark
  <2>11. pendientes' = <<>>
    <3>1. pendientes \in Seq(Pagina) /\ Len(pendientes) = 1
      BY <2>5
    <3>0. 1 \in 1 .. Len(pendientes)
      BY <3>1
    <3>2. RemoveAt(pendientes, 1) \in Seq(Pagina) /\ Len(RemoveAt(pendientes, 1)) = 1 - 1
      BY <3>0, <3>1, RemoveAtRemoves
    <3> QED  BY <2>10, <3>2, EmptySeq
  <2>12. /\ paginas'[x].modificado
         /\ \A y \in Vivas : y # x => paginas'[y] = paginas[y]
    BY <2>10 DEF Vivas, Typing, Tables, Entrada
  <2>13. paginas'[x].presencia = paginas[x].presencia /\ paginas'[x].swap = paginas[x].swap
    BY <1>5, MarkStep
  <2> QED  BY <2>1, <2>3, <2>5, <2>11, <2>12, <2>13, SameLives DEF Marked
<1>6. CASE FileTransfer
  <2>1. UNCHANGED <<estado, paginas, pendientes>>
    BY <1>6 DEF FileTransfer
  <2>2. SUFFICES ASSUME causas' = {} PROVE Marked'
    BY DEF Marked
  <2>3. causas = {} /\ cpu.st = "file" /\ cpu'.st = "idle"
    BY <1>6, <2>2, FileTransferStep DEF CpuIdle
  <2>4. PICK x \in Pagina : x = cpu.pagina
    BY <1>6, FileTransferStep
  <2>5. CASE enBloque' = enBloque
    BY <2>1, <2>3, <2>5, SameLives DEF Marked
  <2>6. CASE /\ \A b \in Bloques : enBloque'[b] = IF enBloque[b] = x THEN Nadie ELSE enBloque[b]
             /\ paginas[x].modificado
    <3>1. \A y \in Vivas : paginas[y].swap \in Bloques
      BY DEF Vivas, Typing, Tables, Entrada
    <3> QED  BY <2>1, <2>3, <2>6, <3>1, SameLives DEF Marked
  <2> QED  BY <1>6, <2>2, <2>4, <2>5, <2>6, FileTransferStep DEF Escritura
<1>7. CASE PageFault
  <2>1. UNCHANGED <<estado, paginas, enBloque, pendientes, causas>>
    BY <1>7 DEF PageFault, memoryVars, swapVars
  <2>2. cpu.st = "fault" /\ cpu'.st = "idle"
    BY <1>7 DEF PageFault, CpuIdle
  <2> QED  BY <2>1, <2>2, SameLives DEF Marked
<1>8. CASE Buscar
  <2>1. UNCHANGED <<estado, paginas, enBloque, pendientes, cpu, causas>>
    BY <1>8 DEF Buscar, memoryVars, swapVars
  <2> QED  BY <2>1, SameLives, SameMarks
<1>9. CASE ElegirMarco
  <2>1. UNCHANGED <<estado, enBloque, pendientes, cpu>> /\ causas \subseteq causas'
    BY <1>9, ElegirMarcoStep DEF ElegirMarco, swapVars
  <2>2. Vivas \subseteq Pagina
    BY DEF Vivas
  <2> QED  BY <1>9, <2>1, <2>2, ElegirMarcoKeeps, SameLives, SameMarks
<1>10. CASE SwapOut
  <2>1. /\ UNCHANGED <<estado, paginas, pendientes, cpu, causas>> /\ loader.st = "out"
        /\ enBloque' = [enBloque EXCEPT ![loader.pos] = loader.dato]
    BY <1>10 DEF SwapOut, EscribirBloque, memoryVars
  <2>2. CASE causas # {}
    BY <2>1, <2>2 DEF Marked
  <2>3. CASE causas = {}
    <3>1. PICK v \in Vivas : paginas[v].swap = loader.pos /\ ~paginas[v].presencia
      BY <2>1, <2>3 DEF Kept, SinCausa
    <3>2. \A x \in Vivas : paginas[x].presencia => paginas[x].swap # loader.pos
      BY <2>3, <3>1 DEF SwapAccounted, SinCausa
    <3>3. \A x \in Vivas : paginas[x].swap \in Bloques
      BY DEF Vivas, Typing, Tables, Entrada
    <3>4. \A b \in Bloques : b # loader.pos => enBloque'[b] = enBloque[b]
      BY <2>1 DEF Typing, Blocks
    <3> QED  BY <2>1, <3>2, <3>3, <3>4, SameLives, SameMarks
  <2> QED  BY <2>2, <2>3
<1>11. CASE SwapIn
  <2>1. UNCHANGED <<estado, enBloque, pendientes, cpu>> /\ causas \subseteq causas'
    BY <1>11, SwapInStep DEF SwapIn, swapVars
  <2>2. SUFFICES ASSUME causas' = {} PROVE Marked'
    BY DEF Marked
  <2>3. PICK x \in Pagina : x = loader.pagina
    BY <1>11, SwapInStep
  <2>4. loader.st = "in" /\ causas = {} /\ x \in Vivas /\ ~paginas[x].presencia
    BY <1>11, <2>1, <2>2, <2>3, SwapInStep DEF Vivas, Turns
  <2>5. enBloque[paginas[x].swap] = x
    BY <2>4 DEF Kept, SinCausa
  <2>6. /\ paginas'[x].swap = paginas[x].swap
        /\ \A y \in Pagina : y # x => paginas'[y] = paginas[y]
    BY <1>11, <2>3, SwapInStep
  <2>7. cpu.st = "mark" => cpu.pagina # x /\ cpu.pagina \in Pagina
    BY <2>3, <2>4 DEF Turns, Esperando, Typing, Accessing
  <2>8. \A y \in Vivas : y \in Pagina
    BY DEF Vivas
  <2> QED  BY <2>1, <2>4, <2>5, <2>6, <2>7, <2>8, SameLives DEF Marked,
     espacio_obtener_frame
<1>12. ASSUME NEW p \in Process, LiberarSwap(p)
      PROVE  Marked'
  <2>1. UNCHANGED <<paginas, pendientes, enBloque, cpu>> /\ causas \subseteq causas'
    BY <1>12 DEF LiberarSwap, memoryVars
  <2>2. \A x : x \in Vivas' => x \in Vivas
    BY <1>12, EndLives
  <2> QED  BY <2>1, <2>2 DEF Marked, espacio_obtener_frame
<1>13. ASSUME NEW p \in Process, LiberarMarcos(p)
      PROVE  Marked'
  <2>1. /\ UNCHANGED <<paginas, enBloque, pendientes, cpu, causas>> /\ estado[p] = "sinSwap"
        /\ estado' = [estado EXCEPT ![p] = "sinMarcos"]
    BY <1>13 DEF LiberarMarcos, swapVars
  <2> QED  BY <2>1, OtherLives, SameMarks
<1>14. ASSUME NEW p \in Process, DestruirTabla(p)
      PROVE  Marked'
  <2>1. UNCHANGED <<pendientes, cpu, causas>>
    BY <1>14 DEF DestruirTabla
  <2>2. Vivas' = Vivas /\ \A x \in Vivas : PidDe(x) # p
    BY <1>14, DestruirTablaStep, OtherLives
  <2>3. \A x \in Vivas : /\ x \in Pagina /\ paginas'[x] = paginas[x]
                         /\ paginas[x].swap \in Bloques
    BY <1>14, <2>2, DestruirTablaStep DEF Vivas, Typing, Tables, Entrada
  <2>4. \A b \in Bloques : enBloque'[b] = DeVivos(p, enBloque[b])
    BY <1>14 DEF DestruirTabla
  <2>5. \A x \in Vivas : DeVivos(p, x) = x
    BY <2>2 DEF DeVivos, PidDe
  <2>6. cpu.st = "mark" => cpu.pagina \in Vivas
    BY DEF Turns, Esperando, Vivas, Typing, Accessing
  <2>7. ASSUME NEW x \in Vivas, enBloque[paginas[x].swap] = x
        PROVE  enBloque'[paginas[x].swap] = x
    BY <2>3, <2>4, <2>5, <2>7
  <2> QED  BY <2>1, <2>2, <2>3, <2>6, <2>7 DEF Marked, espacio_obtener_frame
<1>15. CASE UNCHANGED vars
  BY <1>15 DEF vars, memoryVars, swapVars, Marked, Vivas, espacio_obtener_frame
<1> QED
  <2>1. CASE Access
    BY <2>1, <1>3, <1>4, <1>5, <1>6 DEF Access
  <2>2. CASE Load
    BY <2>2, <1>7, <1>8, <1>9, <1>10, <1>11 DEF Load
  <2>3. CASE Terminate
    BY <2>3, <1>12, <1>13, <1>14 DEF Terminate
  <2> QED  BY <2>1, <2>2, <2>3, <1>1, <1>2, <1>15 DEF Next

LEMMA InitMarked == Init => Marked
<1> SUFFICES ASSUME Init PROVE Marked
  OBVIOUS
<1>1. Vivas = {} /\ cpu.st = "idle" /\ pendientes = <<>>
  BY Pages DEF Init, Vivas, CpuIdle
<1> QED  BY <1>1 DEF Marked

------------------------------------------------------------------------------
(* The theorems.                                                            *)

PagingInv == /\ Typing /\ Turns /\ Held /\ Apart /\ LockLost
             /\ SwapAccounted /\ Kept /\ Marked

LEMMA PagingInvariant == Spec => []PagingInv
<1>1. Init => PagingInv
  BY InitTypes, InitTurns, InitFrames, InitSwap, InitKept, InitMarked DEF PagingInv
<1>2. PagingInv /\ [Next]_vars => PagingInv'
  BY NextTypes, NextTurns, NextHeld, NextApart, NextLockLost, NextSwap, NextKept, NextMarked
     DEF PagingInv
<1> QED  BY <1>1, <1>2, PTL DEF Spec

\* Every variable keeps its type: a translated address lies in the user space,
\* a page table entry names a frame and a block that exist, no page has two
\* ages (traduccion_logica_a_fisica, generar_tabla_paginas, leer_pagina).
THEOREM PagingTypeCorrect == Spec => []TypeOK
<1>1. Typing => TypeOK
  BY DEF Typing, TypeOK, Setup, Stages, Tables, Entrada, Ages, Waiting, Frames, Blocks,
     Accessing, Acceso, Loading, Carga, Rest
<1> QED  BY <1>1, PagingInvariant, PTL DEF PagingInv

\* Frames are not shared and not leaked, until a victim keeps its presence bit
\* or a process is removed in the middle of a load (obtener_frame_libre,
\* marcar_frame_ocupado, liberar_frame, remover_pagina_memoria).
THEOREM FramesAreAccounted == Spec => []FramesAccounted
<1>1. Held /\ Apart => FramesAccounted
  <2>1. SUFFICES ASSUME Held, Apart, SinCausa({"clean", "orphan"})
                 PROVE  /\ \A x, y \in Vivas :
                             EnMemoria(x) /\ EnMemoria(y) /\ paginas[x].marco = paginas[y].marco => x = y
                        /\ \A x \in Vivas : EnMemoria(x) => paginas[x].marco \in ocupados
                        /\ \A m \in ocupados :
                             \/ \E x \in Pagina : EnMemoria(x) /\ paginas[x].marco = m
                             \/ loader.st \in {"out", "in"} /\ loader.marco = m
    BY DEF FramesAccounted
  <2>2. \A x \in Vivas : x \in Pagina /\ (EnMemoria(x) => ConMarco(x))
    BY DEF Vivas, EnMemoria, ConMarco
  <2>3. \A x \in Pagina : ConMarco(x) => EnMemoria(x)
    BY DEF ConMarco, EnMemoria, TieneTabla
  <2>4. \A m \in ocupados : Tenido(m)
    BY <2>1 DEF Held, SinCausa
  <2>5. /\ \A x, y \in Pagina :
             ConMarco(x) /\ ConMarco(y) /\ paginas[x].marco = paginas[y].marco => x = y
        /\ \A x \in Pagina : ConMarco(x) => paginas[x].marco \in ocupados
    BY <2>1 DEF Apart
  <2>6. \A m \in ocupados : \/ \E x \in Pagina : EnMemoria(x) /\ paginas[x].marco = m
                            \/ loader.st \in {"out", "in"} /\ loader.marco = m
    BY <2>3, <2>4 DEF Tenido, Cargando
  <2> QED  BY <2>2, <2>5, <2>6
<1> QED  BY <1>1, PagingInvariant, PTL DEF PagingInv

\* Blocks of swap are those of the live pages, each its own, and are all given
\* back, until a process is created without enough of them
\* (asignar_bloques_swap, liberar_bloques_swap).
THEOREM SwapIsAccounted == Spec => []SwapAccounted
BY PagingInvariant, PTL DEF PagingInv

\* Virtual memory is memory: what a process last wrote to a page is in its
\* frame, in its block of swap or on its way there, as long as the code breaks
\* none of the rules named (swap_out, swap_in, espacio_escribir_valor).
THEOREM ContentsAreKept == Spec => []ContentsKept
<1>1. Kept => ContentsKept
  <2>1. \A x \in Vivas : EnMemoria(x) <=> paginas[x].presencia
    BY DEF Vivas, EnMemoria, TieneTabla
  <2> QED  BY <2>1 DEF Kept, ContentsKept
<1> QED  BY <1>1, PagingInvariant, PTL DEF PagingInv

\* A present page that differs from its block of swap is marked, or about to
\* be (escribir_valor, encontrar_pagina_a_modificar).
THEOREM DirtyPagesAreMarked == Spec => []DirtyIsMarked
<1>1. Typing /\ Marked => DirtyIsMarked
  <2>1. SUFFICES ASSUME Typing, Marked, SinCausa(Causas) PROVE DirtyIsMarked
    BY DEF DirtyIsMarked
  <2>2. causas = {}
    BY <2>1 DEF SinCausa, Typing, Rest
  <2> QED  BY <2>1, <2>2 DEF Marked, DirtyIsMarked, EnMemoria
<1> QED  BY <1>1, PagingInvariant, PTL DEF PagingInv

\* operaciones_bloqueantes_mutex stays locked for ever only after a process
\* has been removed in the middle of a load (cargar_en_memoria's early return).
THEOREM LockIsLostOnlyByOrphans == Spec => []LockLost
BY PagingInvariant, PTL DEF PagingInv
==============================================================================
