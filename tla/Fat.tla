---------------------------------- MODULE Fat ----------------------------------
(***************************************************************************)
(* The files of the filesystem (fat.c, archivo.c, bloques.c), as they are  *)
(* on disk: the FAT, the control block (FCB) of each file and the blocks.  *)
(*                                                                         *)
(* A request runs under mutex_archivo, one at a time; a truncation writes  *)
(* the FAT and then the FCB, and the process may die in between.  Writing  *)
(* the FAT and saving a FCB are taken to be atomic.  The sum with          *)
(* cant_bloques_swap that turns an entry of the FAT into a block is a      *)
(* shift: UINT32_MAX, -1 as an int, is the last block of swap.             *)
(***************************************************************************)
EXTENDS FileNames, Integers, Sequences, FiniteSets, SequencesExt

CONSTANTS
  BlockCount,    \* cant_bloques_total - cant_bloques_swap
  BlockSize,     \* tam_bloque
  Data           \* contents of a block; 0 as the file of blocks is created

ASSUME FatAssumption ==
  BlockCount \in Nat \ {0} /\ BlockSize \in Nat \ {0} /\ 0 \in Data

VARIABLES
  fat,           \* the entries: 0 free, Fin last of a file
  fcb,           \* TAMANIO_ARCHIVO and BLOQUE_INICIAL of each file
  bloques,       \* the contents of each block
  truncando,     \* the truncation that has written the FAT and not the FCB
  swapTocado,    \* history: a file operation has written a block of swap
  avisos         \* history: what the code does that breaks its own rules

fatVars == <<fat, fcb, bloques, truncando, swapTocado, avisos>>

Fin == -1                               \* UINT32_MAX
Entradas == 0 .. BlockCount - 1
SinFcb == [tamanio |-> -1, inicial |-> 0]
Ninguna == [paso |-> "none"]
Existe(f) == fcb[f] # SinFcb

\* The number of blocks of n bytes, as truncar_archivo rounds it.
CantBloques(n) == (n + (BlockSize - 1)) \div BlockSize

------------------------------------------------------------------------------
(* Chains.                                                                  *)

\* obtener_bloques_fat_asignados: the walk from a block until 0 or Fin, which
\* on a cycle does not end.
Cadena(ini) ==
  LET paso[k \in 0 .. BlockCount] ==
        IF k = 0 THEN ini
        ELSE IF paso[k - 1] \in {0, Fin} THEN paso[k - 1] ELSE fat[paso[k - 1]]
      n == Cardinality({k \in 0 .. BlockCount - 1 : paso[k] \notin {0, Fin}})
  IN [i \in 1 .. n |-> paso[i - 1]]

CadenaDe(f) == Cadena(fcb[f].inicial)
Asignados(f) == Len(CadenaDe(f))                     \* obtener_cant_bloques_asignados
Ciclica(f) == Asignados(f) = BlockCount

\* Mutant of BloqueDe: one step too many.
BloqueSiguiente(f, n) ==
  LET paso[k \in 0 .. n + 1] ==
        IF k = 0 THEN {fcb[f].inicial}
        ELSE UNION {IF b = Fin THEN Entradas \cup {Fin} ELSE {fat[b]} : b \in paso[k - 1]}
  IN paso[n + 1]

\* obtener_bloque_fat_de_archivo: n steps from the first block, the end of the
\* chain not looked for.  An entry read past the FAT is anything.
BloqueDe(f, n) ==
  LET paso[k \in 0 .. n] ==
        IF k = 0 THEN {fcb[f].inicial}
        ELSE UNION {IF b = Fin THEN Entradas \cup {Fin} ELSE {fat[b]} : b \in paso[k - 1]}
  IN paso[n]

------------------------------------------------------------------------------
(* Truncation.                                                              *)

\* The first free entries, as many as asked for or as there are.
Libres == {e \in Entradas : fat[e] = 0}
Nuevos(cant) == {e \in Libres : Cardinality({c \in Libres : c < e}) < cant}

\* Mutant of Asignar: the last of the new blocks is not marked as the end.
AsignarSinFin(f, cant) ==
  LET nuevos == Nuevos(cant)
      previos == CadenaDe(f)
  IN /\ nuevos # {}
     /\ fat' = [e \in Entradas |->
          IF previos # <<>> /\ e = Last(previos) THEN Min(nuevos)
          ELSE IF e \in nuevos \ {Max(nuevos)} THEN Min({c \in nuevos : c > e}) ELSE fat[e]]
     /\ truncando' = [truncando EXCEPT !.paso = "fcb", !.inicial = IF previos = <<>> THEN Min(nuevos) ELSE @]
     /\ avisos' = IF Cardinality(nuevos) < cant THEN avisos \cup {"full"} ELSE avisos

\* asignar_bloques_nuevos: the new entries, in order, chained after the last
\* block of the file, or as its first ones.
Asignar(f, cant) ==
  LET nuevos == Nuevos(cant)
      previos == CadenaDe(f)
  IN /\ nuevos # {}
     /\ fat' = [e \in Entradas |->
          IF previos # <<>> /\ e = Last(previos) THEN Min(nuevos)
          ELSE IF e \notin nuevos THEN fat[e]
          ELSE IF e = Max(nuevos) THEN Fin ELSE Min({c \in nuevos : c > e})]
     /\ truncando' = [truncando EXCEPT !.paso = "fcb", !.inicial = IF previos = <<>> THEN Min(nuevos) ELSE @]
     /\ avisos' = IF Cardinality(nuevos) < cant THEN avisos \cup {"full"} ELSE avisos

\* The same with no free entry: the index and the block were never set.  Of the
\* values they may hold, those that are entries of the FAT are considered.
AsignarSinLugar(f) ==
  /\ \A e \in Entradas : fat[e] # 0
  /\ \E e, b \in Entradas :
       LET previos == CadenaDe(f)
           sucia == [fat EXCEPT ![e] = Fin]
       IN /\ fat' = IF previos = <<>> THEN sucia ELSE [sucia EXCEPT ![Last(previos)] = b]
          /\ truncando' = [truncando EXCEPT !.paso = "fcb", !.inicial = IF previos = <<>> THEN b ELSE @]
  /\ avisos' = avisos \cup {"noroom"}

\* Mutant of Liberar: the end of the file moves, the blocks stay taken.
LiberarSinSoltar(f, cant) ==
  LET previos == CadenaDe(f)
      quedan == SubSeq(previos, 1, Len(previos) - cant)
  IN /\ fat' = [e \in Entradas |-> IF quedan # <<>> /\ e = Last(quedan) THEN Fin ELSE fat[e]]
     /\ truncando' = [truncando EXCEPT !.paso = "fcb", !.inicial = IF quedan = <<>> THEN 0 ELSE @]
     /\ UNCHANGED avisos
\* Mutant of Liberar: from the beginning of the chain.
LiberarDelFrente(f, cant) ==
  LET previos == CadenaDe(f)
      sueltos == {previos[i] : i \in 1 .. cant}
  IN /\ fat' = [e \in Entradas |-> IF e \in sueltos THEN 0 ELSE fat[e]]
     /\ truncando' = [truncando EXCEPT !.paso = "fcb",
                         !.inicial = IF cant = Len(previos) THEN 0 ELSE previos[cant + 1]]
     /\ UNCHANGED avisos

\* liberar_bloques_asignados: from the end of the chain.
Liberar(f, cant) ==
  LET previos == CadenaDe(f)
      quedan == SubSeq(previos, 1, Len(previos) - cant)
  IN /\ fat' = [e \in Entradas |->
          IF quedan # <<>> /\ e = Last(quedan) THEN Fin
          ELSE IF \E i \in Len(quedan) + 1 .. Len(previos) : previos[i] = e THEN 0 ELSE fat[e]]
     /\ truncando' = [truncando EXCEPT !.paso = "fcb", !.inicial = IF quedan = <<>> THEN 0 ELSE @]
     /\ UNCHANGED avisos

\* truncar_archivo, the FCB read, then the FAT written ...
EmpezarTruncar(f, n) ==
  truncando' = [paso |-> "fat", archivo |-> f, tamanio |-> n, inicial |-> fcb[f].inicial]

\* Mutant of TruncarFat: the number of blocks rounded down.
TruncarHaciaAbajo ==
  /\ truncando.paso = "fat"
  /\ LET f == truncando.archivo
         cant == truncando.tamanio \div BlockSize - Asignados(f)
     IN /\ ~Ciclica(f)
        /\ \/ /\ cant = 0
              /\ truncando' = [truncando EXCEPT !.paso = "igual"]
              /\ UNCHANGED <<fat, avisos>>
           \/ cant < 0 /\ Liberar(f, -cant)
           \/ cant > 0 /\ (Asignar(f, cant) \/ AsignarSinLugar(f))
  /\ UNCHANGED <<fcb, bloques, swapTocado>>

TruncarFat ==
  /\ truncando.paso = "fat"
  /\ LET f == truncando.archivo
         cant == CantBloques(truncando.tamanio) - Asignados(f)
     IN /\ ~Ciclica(f)
        /\ \/ /\ cant = 0
              /\ truncando' = [truncando EXCEPT !.paso = "igual"]
              /\ UNCHANGED <<fat, avisos>>
           \/ cant < 0 /\ Liberar(f, -cant)
           \/ cant > 0 /\ (Asignar(f, cant) \/ AsignarSinLugar(f))
  /\ UNCHANGED <<fcb, bloques, swapTocado>>

\* ... then the FCB saved.
TruncarFcb ==
  /\ truncando.paso \in {"igual", "fcb"}
  /\ fcb' = [fcb EXCEPT ![truncando.archivo] =
               [tamanio |-> truncando.tamanio, inicial |-> truncando.inicial]]
  /\ truncando' = Ninguna
  /\ UNCHANGED <<fat, bloques, swapTocado, avisos>>

------------------------------------------------------------------------------
(* The other requests.                                                      *)

\* crear_archivo: an empty FCB.
Crear(f) ==
  /\ fcb' = [fcb EXCEPT ![f] = [tamanio |-> 0, inicial |-> 0]]
  /\ UNCHANGED <<fat, bloques, truncando, swapTocado, avisos>>

\* Mutant of Escribir: the pointer is written, not the data.
EscribirPuntero(f, puntero, d) ==
  /\ \E b \in BloqueDe(f, puntero \div BlockSize) :
        /\ b # Fin
        /\ bloques' = [bloques EXCEPT ![b] = puntero]
  /\ avisos' = IF puntero \div BlockSize < CantBloques(fcb[f].tamanio) THEN avisos
               ELSE avisos \cup {"pastend"}
  /\ UNCHANGED <<fat, fcb, truncando, swapTocado>>

\* escribir_archivo: one block, wherever the walk ends.
Escribir(f, puntero, d) ==
  LET n == puntero \div BlockSize
  IN /\ \E b \in BloqueDe(f, n) :
          IF b = Fin THEN swapTocado' = TRUE /\ UNCHANGED bloques
          ELSE bloques' = [bloques EXCEPT ![b] = d] /\ UNCHANGED swapTocado
     /\ avisos' = IF n < CantBloques(fcb[f].tamanio) THEN avisos ELSE avisos \cup {"pastend"}
     /\ UNCHANGED <<fat, fcb, truncando>>

\* leer_archivo: the block goes to memory (Paging).
Leer == UNCHANGED fatVars

\* The process dies and is started again: what is on disk is what there was.
Reinicio ==
  /\ truncando' = Ninguna
  /\ avisos' = IF truncando.paso # "fcb" THEN avisos
               ELSE avisos \cup {IF CantBloques(truncando.tamanio) = 0 THEN "zeroed" ELSE "torn"}
  /\ UNCHANGED <<fat, fcb, bloques, swapTocado>>

\* inicializar_fat, limpiar_fat, crear_archivo_de_bloques
FatInit ==
  /\ fat = [e \in Entradas |-> IF e = 0 THEN Fin ELSE 0]
  /\ fcb = [f \in File |-> SinFcb]
  /\ bloques = [e \in Entradas |-> 0]
  /\ truncando = Ninguna /\ swapTocado = FALSE /\ avisos = {}

FatTypeOK ==
  /\ fat \in [Entradas -> Entradas \cup {Fin}]
  /\ fcb \in [File -> [tamanio : Nat, inicial : Entradas] \cup {SinFcb}]
  /\ bloques \in [Entradas -> Data]
  /\ truncando.paso \in {"none", "fat", "igual", "fcb"} /\ swapTocado \in BOOLEAN
  /\ avisos \subseteq {"full", "noroom", "torn", "zeroed", "pastend"}
=============================================================================
