-------------------------------- MODULE Paging --------------------------------
(***************************************************************************)
(* Paged memory: memoria/src with its two clients and its swap server.     *)
(*                                                                         *)
(*   cpu        asks for the frame of a page under operaciones_bloqueantes_*)
(*              mutex, and uses the physical address later: a word it      *)
(*              reads or writes, or a file transfer the kernel asks of the *)
(*              filesystem and the filesystem of memory                    *)
(*   loader     the kernel's one page fault (sem_page_fault) and memory's  *)
(*              thread for it: a free frame or a victim, the victim to     *)
(*              swap, the page from swap                                   *)
(*   processes  created under the same mutex, removed without it           *)
(*                                                                         *)
(* Contents are abstracted to whose they are: a frame or a block holds the *)
(* present contents of one page, or of none.  Two timestamps are never     *)
(* equal: a load waits for swap and an access for the memory delay.        *)
(***************************************************************************)
EXTENDS Integers, Sequences, FiniteSets, SequencesExt

CONSTANTS
  Process,
  PageCount,     \* pages of each process: size / tam_pagina
  FrameCounts,   \* frames of the user space to consider
  SwapSizes,     \* blocks of swap to consider
  Byte,          \* bits of a byte of the bitmap: 8, fewer in small instances
  Algorithms,    \* replacement algorithms to consider
  PageSize,      \* words of a page (and of a block)
  Direccion,     \* logical addresses the program of each process uses
  MaxCausas,     \* bound: causes of trouble (causas) met in one behaviour
  MaxPending     \* bound: entries of paginas_pendientes_modificacion

ASSUME PagingAssumption ==
  /\ PageCount \in [Process -> Nat \ {0}] /\ PageSize \in Nat \ {0}
  /\ Byte \in Nat \ {0}
  /\ FrameCounts \subseteq Nat \ {0} /\ SwapSizes \subseteq Nat \ {0}
  /\ Algorithms \subseteq {"FIFO", "LRU"} /\ MaxPending \in Nat /\ MaxCausas \in Nat
  /\ \A p \in Process : Direccion[p] \subseteq 0 .. PageCount[p] * PageSize - 1

VARIABLES
  config,        \* algoritmo, marcos, bloques: read once, at the start; and
                 \* basura, the bits set in the part of the bitmap never cleared
  estado,        \* of each process: how far its removal has got
  paginas,       \* the entry of each page in its table
  orden,         \* pages by age: of creation (FIFO), of last access (LRU);
                 \* those whose table is gone are passed over
  ocupados,      \* marcos_ocupados
  bitarray,      \* blocks of swap in use
  enMarco,       \* the page whose contents each frame holds
  enBloque,      \* the page whose contents each block of swap holds
  pendientes,    \* paginas_pendientes_modificacion
  lock,          \* operaciones_bloqueantes_mutex
  cpu,           \* the access under way
  loader,        \* the fault being served
  causas         \* history: what the code does that breaks its own rules

memoryVars == <<paginas, orden, ocupados, enMarco, pendientes>>
swapVars == <<bitarray, enBloque>>
vars == <<config, estado, memoryVars, swapVars, lock, cpu, loader, causas>>

Pagina == UNION {{p} \X (0 .. PageCount[p] - 1) : p \in Process}
Nadie == <<>>

\* inicializar_swap: the bitmap has n / 8 bytes, which it clears.  The bits of
\* the blocks left over are whatever is behind it.
ConBit(n) == (n \div Byte) * Byte
Configuraciones == UNION {
  [algoritmo : Algorithms, marcos : FrameCounts, bloques : {n},
   basura : SUBSET (ConBit(n) .. n - 1)] : n \in SwapSizes}
Marcos == 0 .. config.marcos - 1
Bloques == 0 .. config.bloques - 1
Usos == {"MOV_IN", "MOV_OUT", "F_READ", "F_WRITE"}
Escribir == {"MOV_OUT", "F_WRITE"}            \* tipo_operacion ESCRIBIR
Causas == {"clean", "stale", "spill", "full", "orphan", "unmarked", "leftover"}

CpuIdle == [st |-> "idle", pagina |-> Nadie, uso |-> "MOV_IN", dir |-> 0]
LoaderIdle == [st |-> "idle", pagina |-> Nadie, marco |-> 0, pos |-> 0, dato |-> Nadie]
EntradaNueva == [marco |-> 0, presencia |-> FALSE, modificado |-> FALSE, swap |-> 0]

PidDe(x) == x[1]
TieneTabla(x) == estado[PidDe(x)] \notin {"nuevo", "fin"}
EnMemoria(x) == TieneTabla(x) /\ paginas[x].presencia
Reciente(x) == Append(RemoveFirst(orden, x), x)

\* mmu.c
obtener_numero_pagina(dir) == dir \div PageSize
obtener_desplazamiento(dir) == dir - obtener_numero_pagina(dir) * PageSize
TraduccionSinPagina(dir, marco) == marco * PageSize + dir       \* mutant
traduccion_logica_a_fisica(dir, marco) == marco * PageSize + obtener_desplazamiento(dir)
espacio_obtener_frame(dir) == dir \div PageSize

------------------------------------------------------------------------------
(* Creation and removal of a process.                                       *)

\* escribir_bloque and leer_bloque, for any block they are given.
EscribirBloque(b, dato) == enBloque' = [enBloque EXCEPT ![b] = dato]
LeerBloque(b) == enBloque[b]

\* asignar_bloques_swap: the first n free blocks in order, or as many as there
\* are, each cleaned.
Libres == Bloques \ bitarray
Rango(b) == Cardinality({c \in Libres : c < b})
AsignarBloques(n) == {b \in Libres : Rango(b) < n}

\* SWAP_NEW_PROCESS always answers SWAP_OK: a position past the end of the list
\* is that of block 0.
SinBloque(i) == \A b \in Libres : Rango(b) # i
PosicionSwap(i) == IF SinBloque(i) THEN 0 ELSE CHOOSE b \in Libres : Rango(b) = i

\* generar_tabla_paginas: nothing is present, every page has its block.
GenerarTabla(p) ==
  paginas' = [x \in Pagina |-> IF PidDe(x) = p
                THEN [EntradaNueva EXCEPT !.swap = PosicionSwap(x[2])] ELSE paginas[x]]

\* allocate_new_process, under the mutex.
NewProcess(p) ==
  /\ estado[p] = "nuevo" /\ lock = "free"
  /\ GenerarTabla(p)
  /\ LET bloques == AsignarBloques(PageCount[p])
     IN /\ bitarray' = bitarray \cup bloques
        /\ enBloque' = [b \in Bloques |-> IF b \in bloques THEN <<p, Rango(b)>> ELSE enBloque[b]]
  /\ causas' = IF \E i \in 0 .. PageCount[p] - 1 : SinBloque(i)
               THEN causas \cup {"full"} ELSE causas
  /\ estado' = [estado EXCEPT ![p] = "vivo"]
  /\ UNCHANGED <<config, orden, ocupados, enMarco, pendientes, lock, cpu, loader>>

\* Only a process in EXEC is spared by the console: it exits on its own.
Ejecuta(p) == cpu.st \in {"mov", "mark", "fault"} /\ PidDe(cpu.pagina) = p

\* Mutant: the last page is skipped (i < cant_paginas - 1).
LiberarSwapMenosUno(p) ==
  /\ estado[p] = "vivo" /\ ~Ejecuta(p)
  /\ bitarray' = bitarray \ {paginas[<<p, i>>].swap : i \in 0 .. PageCount[p] - 2}
  /\ estado' = [estado EXCEPT ![p] = "sinSwap"]
  /\ UNCHANGED <<config, memoryVars, enBloque, lock, cpu, loader, causas>>

\* Mutant: the same for the frames.
LiberarMarcosMenosUno(p) ==
  /\ estado[p] = "sinSwap"
  /\ ocupados' = ocupados \ {paginas[<<p, i>>].marco :
                    i \in {i \in 0 .. PageCount[p] - 2 : EnMemoria(<<p, i>>)}}
  /\ estado' = [estado EXCEPT ![p] = "sinMarcos"]
  /\ UNCHANGED <<config, paginas, orden, enMarco, pendientes, swapVars, lock,
                 cpu, loader, causas>>

\* remover_proceso, without the mutex: the blocks of swap first ...
LiberarSwap(p) ==
  /\ estado[p] = "vivo" /\ ~Ejecuta(p)
  /\ LET suyos == {paginas[x].swap : x \in {y \in Pagina : PidDe(y) = p}}
     IN /\ bitarray' = bitarray \ suyos
        /\ causas' = IF loader.st = "out" /\ loader.pos \in suyos
                     THEN causas \cup {"orphan"} ELSE causas
  /\ estado' = [estado EXCEPT ![p] = "sinSwap"]
  /\ UNCHANGED <<config, memoryVars, enBloque, lock, cpu, loader>>

\* ... then the frames of the pages present ...
LiberarMarcos(p) ==
  /\ estado[p] = "sinSwap"
  /\ ocupados' = ocupados \ {paginas[x].marco : x \in {y \in Pagina : PidDe(y) = p /\ EnMemoria(y)}}
  /\ estado' = [estado EXCEPT ![p] = "sinMarcos"]
  /\ UNCHANGED <<config, paginas, orden, enMarco, pendientes, swapVars, lock,
                 cpu, loader, causas>>

\* What is left of the pages of p is nobody's.
DeVivos(p, x) == IF \E i \in 0 .. PageCount[p] - 1 : x = <<p, i>> THEN Nadie ELSE x

\* ... then the table, which others may still point into.
DestruirTabla(p) ==
  /\ estado[p] = "sinMarcos"
  /\ estado' = [estado EXCEPT ![p] = "fin"]
  /\ paginas' = [x \in Pagina |-> IF PidDe(x) = p THEN EntradaNueva ELSE paginas[x]]
  /\ enMarco' = [m \in Marcos |-> DeVivos(p, enMarco[m])]
  /\ enBloque' = [b \in Bloques |-> DeVivos(p, enBloque[b])]
  /\ UNCHANGED <<config, orden, ocupados, pendientes, bitarray, lock, cpu, loader, causas>>

------------------------------------------------------------------------------
(* Accesses.                                                                *)

\* A process runs when it is neither being removed nor waiting for a page.
PuedeEjecutar(p) ==
  estado[p] = "vivo" /\ \A x \in Pagina : loader.pagina = x => PidDe(x) # p

\* obtener_marco for a page that is present: it has just been read, and waits
\* to be marked when it is to be written.
ObtenerMarco(x, uso) ==
  /\ uso \in Escribir => Len(pendientes) < MaxPending
  /\ pendientes' = IF uso \in Escribir THEN Append(pendientes, x) ELSE pendientes
  /\ orden' = IF config.algoritmo = "LRU" THEN Reciente(x) ELSE orden

\* FRAME_REQUEST: the address of the word, or a page fault.
FrameRequest(p, dir, uso) ==
  LET x == <<p, obtener_numero_pagina(dir)>>
  IN /\ cpu.st = "idle" /\ lock = "free" /\ PuedeEjecutar(p)
     /\ IF EnMemoria(x)
        THEN /\ ObtenerMarco(x, uso)
             /\ cpu' = [st |-> IF uso \in {"MOV_IN", "MOV_OUT"} THEN "mov" ELSE "file",
                        pagina |-> x, uso |-> uso,
                        dir |-> traduccion_logica_a_fisica(dir, paginas[x].marco)]
             /\ causas' = IF uso = "F_WRITE" THEN causas \cup {"leftover"} ELSE causas
        ELSE /\ cpu' = [CpuIdle EXCEPT !.st = "fault", !.pagina = x]
             /\ UNCHANGED <<pendientes, orden, causas>>
     /\ UNCHANGED <<config, estado, paginas, ocupados, enMarco, swapVars, lock, loader>>

\* The frame m is still that of page x.
Vigente(x, m) == estado[PidDe(x)] \in {"vivo", "sinSwap"} /\ EnMemoria(x) /\ paginas[x].marco = m

\* Page x is written at the frames of ms, the whole of frame m or a part of it.
\* Every other copy of x is out of date from then on.
Escritura(x, m, ms, toda) ==
  /\ enMarco' = [g \in Marcos |->
       IF g = m THEN IF enMarco[g] = x \/ toda THEN x ELSE Nadie
       ELSE IF g \in ms \/ enMarco[g] = x THEN Nadie ELSE enMarco[g]]
  /\ enBloque' = [b \in Bloques |-> IF enBloque[b] = x THEN Nadie ELSE enBloque[b]]
  /\ loader' = IF loader.dato = x THEN [loader EXCEPT !.dato = Nadie] ELSE loader

\* leer_valor: nothing but the register changes.
MovIn ==
  /\ cpu.st = "mov" /\ cpu.uso = "MOV_IN"
  /\ cpu' = CpuIdle
  /\ UNCHANGED <<config, estado, memoryVars, swapVars, lock, loader, causas>>

\* escribir_valor, first the word ...
MovOut ==
  /\ cpu.st = "mov" /\ cpu.uso = "MOV_OUT"
  /\ LET x == cpu.pagina
         m == espacio_obtener_frame(cpu.dir)
     IN /\ Escritura(x, m, {m}, PageSize = 1)
        /\ causas' = IF Vigente(x, m) THEN causas ELSE causas \cup {"stale"}
  /\ cpu' = [cpu EXCEPT !.st = "mark"]
  /\ UNCHANGED <<config, estado, paginas, orden, ocupados, pendientes, bitarray, lock>>

\* Mutant: the number of the page is compared, not its frame.
PrimerasPorNumero(m) ==
  {i \in DOMAIN pendientes : pendientes[i][2] = m /\ \A j \in 1 .. i - 1 : pendientes[j][2] # m}

\* encontrar_pagina_a_modificar: the first entry with that frame.  What an
\* entry of a destroyed table holds is anything.
PrimerasPendientes(m) ==
  LET Es(i) == TieneTabla(pendientes[i]) /\ paginas[pendientes[i]].marco = m
  IN {i \in DOMAIN pendientes :
        /\ Es(i) \/ ~TieneTabla(pendientes[i])
        /\ \A j \in 1 .. i - 1 : ~Es(j)}

\* ... then the bit of the page that waits for it.
Mark ==
  /\ cpu.st = "mark"
  /\ LET m == espacio_obtener_frame(cpu.dir)
         primeras == PrimerasPendientes(m)
     IN \/ \E i \in primeras :
             /\ pendientes' = RemoveAt(pendientes, i)
             /\ paginas' = IF TieneTabla(pendientes[i])
                           THEN [paginas EXCEPT ![pendientes[i]].modificado = TRUE] ELSE paginas
        \/ /\ \A i \in primeras : ~TieneTabla(pendientes[i])
           /\ UNCHANGED <<pendientes, paginas>>
  /\ cpu' = CpuIdle
  /\ UNCHANGED <<config, estado, orden, ocupados, enMarco, swapVars, lock, loader, causas>>

\* MEMORY_WRITE and MEMORY_READ: a page of words from the address the CPU
\* translated, whatever that address is of by now; past the end of the page
\* when it is not aligned.
FileTransfer ==
  /\ cpu.st = "file"
  /\ LET x == cpu.pagina
         m == espacio_obtener_frame(cpu.dir)
         ms == {espacio_obtener_frame(cpu.dir + i) : i \in 0 .. PageSize - 1} \cap Marcos
     IN IF cpu.uso = "F_READ"
        THEN /\ Escritura(x, m, ms, cpu.dir % PageSize = 0)
             /\ causas' = causas \cup (IF Vigente(x, m) THEN {} ELSE {"stale"})
                                 \cup (IF ms = {m} THEN {} ELSE {"spill"})
                                 \cup (IF ~Vigente(x, m) \/ paginas[x].modificado THEN {} ELSE {"unmarked"})
        ELSE UNCHANGED <<enMarco, enBloque, loader, causas>>
  /\ cpu' = CpuIdle
  /\ UNCHANGED <<config, estado, paginas, orden, ocupados, pendientes, bitarray, lock>>

------------------------------------------------------------------------------
(* Page faults.                                                             *)

\* memory_load_page, and the end of request_memory_to_load_page, which lets the
\* next fault in whatever the answer was.
Pedido(x) == [LoaderIdle EXCEPT !.st = "asked", !.pagina = x]
Respondido == loader' = LoaderIdle

\* onPageFault waits for the load under way, then starts its own.
PageFault ==
  /\ cpu.st = "fault" /\ loader.st = "idle"
  /\ loader' = Pedido(cpu.pagina)
  /\ cpu' = CpuIdle
  /\ UNCHANGED <<config, estado, memoryVars, swapVars, lock, causas>>

\* cargar_en_memoria looks the table up before it takes the mutex; without one
\* it answers -1, and the process stays in BLOCK.
Buscar ==
  /\ loader.st = "asked"
  /\ IF TieneTabla(loader.pagina) THEN loader' = [loader EXCEPT !.st = "lock"] ELSE Respondido
  /\ UNCHANGED <<config, estado, memoryVars, swapVars, lock, cpu, causas>>

FrameLibre == Min(Marcos \ ocupados)

\* encontrar_pagina_FIFO and _LRU: the oldest page present.
Victima == orden[SelectInSeq(orden, EnMemoria)]

\* tabla_remover_pagina_de_memoria
RemoverPagina(v) ==
  /\ paginas' = [paginas EXCEPT ![v].presencia = FALSE]
  /\ orden' = RemoveFirst(orden, v)

\* remover_pagina_memoria: a victim that was not modified keeps its presence bit.
Reemplazar(v) ==
  LET m == paginas[v].marco
      huerfana == IF estado[PidDe(v)] = "vivo" THEN {} ELSE {"orphan"}
  IN IF paginas[v].modificado
     THEN /\ RemoverPagina(v)
          /\ loader' = [loader EXCEPT !.st = "out", !.marco = m,
                          !.pos = paginas[v].swap, !.dato = enMarco[m]]
          /\ causas' = causas \cup huerfana
     ELSE /\ loader' = [loader EXCEPT !.st = "in", !.marco = m]
          /\ causas' = causas \cup {"clean"} \cup huerfana
          /\ UNCHANGED <<paginas, orden>>

\* cargar_en_memoria: a free frame, the frame of a victim, or an early return
\* that leaves the mutex locked.
ElegirMarco ==
  /\ loader.st = "lock" /\ lock = "free"
  /\ \/ /\ Marcos \ ocupados # {}
        /\ loader' = [loader EXCEPT !.st = "in", !.marco = FrameLibre]
        /\ lock' = "held"
        /\ UNCHANGED <<paginas, orden, causas>>
     \/ /\ Marcos \subseteq ocupados /\ \E x \in Pagina : EnMemoria(x)
        /\ Reemplazar(Victima)
        /\ lock' = "held"
     \/ /\ Marcos \subseteq ocupados /\ \A x \in Pagina : ~EnMemoria(x)
        /\ Respondido
        /\ lock' = "lost"
        /\ UNCHANGED <<paginas, orden, causas>>
  /\ UNCHANGED <<config, estado, ocupados, enMarco, pendientes, swapVars, cpu>>

\* Mutant: the block of the page that comes in, not of the one that leaves.
SwapOutOtherBlock ==
  /\ loader.st = "out"
  /\ enBloque' = [enBloque EXCEPT ![paginas[loader.pagina].swap] = loader.dato]
  /\ loader' = [loader EXCEPT !.st = "in", !.dato = Nadie]
  /\ UNCHANGED <<config, estado, memoryVars, bitarray, lock, cpu, causas>>

\* swap_out: the filesystem writes the block without asking whose it is.
SwapOut ==
  /\ loader.st = "out"
  /\ EscribirBloque(loader.pos, loader.dato)
  /\ loader' = [loader EXCEPT !.st = "in", !.dato = Nadie]
  /\ UNCHANGED <<config, estado, memoryVars, bitarray, lock, cpu, causas>>

\* cargar_pagina_en_memoria
CargarPagina(x, m) ==
  /\ paginas' = [paginas EXCEPT ![x].presencia = TRUE, ![x].marco = m, ![x].modificado = FALSE]
  /\ orden' = Reciente(x)

\* Mutant: the frame is not marked in use.
SwapInUnmarked ==
  /\ loader.st = "in" /\ TieneTabla(loader.pagina)
  /\ LET x == loader.pagina
         m == loader.marco
     IN /\ CargarPagina(x, m)
        /\ enMarco' = [enMarco EXCEPT ![m] = LeerBloque(paginas[x].swap)]
  /\ lock' = "free"
  /\ loader' = LoaderIdle
  /\ UNCHANGED <<config, estado, ocupados, pendientes, swapVars, cpu, causas>>

\* marcar_frame_ocupado and swap_in: the entry of the page, then its contents.
\* Into a table destroyed meanwhile this writes freed memory.
SwapIn ==
  /\ loader.st = "in"
  /\ LET x == loader.pagina
         m == loader.marco
     IN /\ ocupados' = ocupados \cup {m}
        /\ IF TieneTabla(x)
           THEN /\ CargarPagina(x, m)
                /\ enMarco' = [enMarco EXCEPT ![m] = LeerBloque(paginas[x].swap)]
           ELSE /\ enMarco' = [enMarco EXCEPT ![m] = Nadie]
                /\ UNCHANGED <<paginas, orden>>
        /\ causas' = IF estado[PidDe(x)] = "vivo" THEN causas ELSE causas \cup {"orphan"}
  /\ lock' = "free"
  /\ Respondido
  /\ UNCHANGED <<config, estado, pendientes, swapVars, cpu>>

------------------------------------------------------------------------------

Init ==
  /\ config \in Configuraciones
  /\ estado = [p \in Process |-> "nuevo"]
  /\ paginas = [x \in Pagina |-> EntradaNueva]
  /\ orden = <<>> /\ ocupados = {} /\ bitarray = config.basura /\ pendientes = <<>>
  /\ enMarco = [m \in Marcos |-> Nadie]
  /\ enBloque = [b \in Bloques |-> Nadie]
  /\ lock = "free" /\ cpu = CpuIdle /\ loader = LoaderIdle /\ causas = {}

Load == PageFault \/ Buscar \/ ElegirMarco \/ SwapOut \/ SwapIn
Access == MovIn \/ MovOut \/ Mark \/ FileTransfer
Terminate == \E p \in Process : LiberarSwap(p) \/ LiberarMarcos(p) \/ DestruirTabla(p)

Next ==
  /\ \/ \E p \in Process : NewProcess(p)
     \/ \E p \in Process, uso \in Usos : \E dir \in Direccion[p] : FrameRequest(p, dir, uso)
     \/ Access \/ Load \/ Terminate
  /\ Cardinality(causas') <= MaxCausas

Spec == Init /\ [][Next]_vars

------------------------------------------------------------------------------

TypeOK ==
  /\ config \in Configuraciones
  /\ estado \in [Process -> {"nuevo", "vivo", "sinSwap", "sinMarcos", "fin"}]
  /\ paginas \in [Pagina -> [marco : Marcos, presencia : BOOLEAN,
                             modificado : BOOLEAN, swap : Bloques]]
  /\ orden \in Seq(Pagina) /\ IsInjective(orden)
  /\ pendientes \in Seq(Pagina) /\ Len(pendientes) <= MaxPending
  /\ ocupados \subseteq Marcos /\ bitarray \subseteq Bloques
  /\ enMarco \in [Marcos -> Pagina \cup {Nadie}]
  /\ enBloque \in [Bloques -> Pagina \cup {Nadie}]
  /\ lock \in {"free", "held", "lost"}
  /\ cpu.st \in {"idle", "mov", "mark", "file", "fault"} /\ cpu.uso \in Usos
  /\ cpu.dir \in 0 .. config.marcos * PageSize - 1
  /\ loader.st \in {"idle", "asked", "lock", "out", "in"}
  /\ loader.marco \in Marcos /\ loader.pos \in Bloques
  /\ causas \subseteq Causas

(* What the threads of memory keep, as long as none of the causes named in     *)
(* each property has happened.  They are what the code does wrong:             *)
(*   clean     the victim was not modified and stays present                   *)
(*   stale     an address is used after its page has lost the frame            *)
(*   spill     a transfer to an address that is not aligned                    *)
(*   full      a process created without enough blocks of swap                 *)
(*   orphan    a process removed in the middle of a load                       *)
(*   unmarked  F_READ writes a page and does not mark it                       *)
(*   leftover  F_WRITE asks for its page to be marked and does not write it    *)

SinCausa(C) == causas \cap C = {}
Vivas == {x \in Pagina : estado[PidDe(x)] = "vivo"}

\* Frames are not shared and not leaked: present pages are on frames of their
\* own, all in use, and a frame in use is that of a present page or of the
\* page being swapped out (obtener_frame_libre, marcar_frame_ocupado,
\* liberar_frame, remover_pagina_memoria).
FramesAccounted ==
  SinCausa({"clean", "orphan"}) =>
    /\ \A x, y \in Vivas :
         EnMemoria(x) /\ EnMemoria(y) /\ paginas[x].marco = paginas[y].marco => x = y
    /\ \A x \in Vivas : EnMemoria(x) => paginas[x].marco \in ocupados
    /\ \A m \in ocupados :
         \/ \E x \in Pagina : EnMemoria(x) /\ paginas[x].marco = m
         \/ loader.st \in {"out", "in"} /\ loader.marco = m

\* Blocks of swap in use are those of the live pages, each its own, and are all
\* given back (asignar_bloques_swap, liberar_bloques_swap).  Beside them only the
\* blocks whose bit was never cleared look taken, and no page gets one.
SwapAccounted ==
  SinCausa({"full"}) =>
    /\ bitarray = config.basura \cup {paginas[x].swap : x \in Vivas}
    /\ \A x \in Vivas : paginas[x].swap \notin config.basura
    /\ \A x, y \in Vivas : paginas[x].swap = paginas[y].swap => x = y

\* Virtual memory is memory: what a process last wrote to a page is in the
\* frame of the page when it is present, and in its block of swap, or on its
\* way there, when it is not.
ContentsKept ==
  SinCausa({"clean", "stale", "spill", "full", "orphan"}) =>
    \A x \in Vivas :
      IF EnMemoria(x) THEN enMarco[paginas[x].marco] = x
      ELSE \/ enBloque[paginas[x].swap] = x
           \/ loader.st = "out" /\ loader.pos = paginas[x].swap /\ loader.dato = x

\* A present page that differs from its block of swap is marked, or the write
\* is still about to mark it: otherwise its eviction would lose what was
\* written (escribir_valor, encontrar_pagina_a_modificar).
DirtyIsMarked ==
  SinCausa(Causas) =>
    \A x \in Vivas : EnMemoria(x) /\ enBloque[paginas[x].swap] # x
                        => \/ paginas[x].modificado
                           \/ cpu.st = "mark" /\ cpu.pagina = x

\* operaciones_bloqueantes_mutex is left locked, with memory and then the CPU
\* stopped for ever, only after a load for a process removed meanwhile has
\* leaked a frame (cargar_en_memoria's early return).
LockLost == lock = "lost" => "orphan" \in causas
=============================================================================
