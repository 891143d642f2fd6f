------------------------------- MODULE FileLocks -------------------------------
(***************************************************************************)
(* The kernel's open files: the global table with a read count, a write    *)
(* lock and a queue per file (kernel file.c, filesystem.c), the open files *)
(* of each process (process.c) and the handlers of the short-term planner  *)
(* (process_handler.c).  The planner handles one call at a time; only the  *)
(* console's kill, and the end of a process, come in between.              *)
(***************************************************************************)
EXTENDS FileNames, Integers, Sequences, FiniteSets, SequencesExt

CONSTANTS
  Process,
  MaxOpen        \* bound: entries in the table of a process

ASSUME FileLocksAssumption == IsFiniteSet(Process) /\ MaxOpen \in Nat \ {0}

VARIABLES
  open_files,    \* the global table: SinEntrada, or the locks of the file
  archivos,      \* pcb->open_files
  pending_file,  \* pcb->pending_file
  estado,        \* READY or EXEC (listo), BLOCK, or gone
  llamada,       \* the request the planner waits for
  kernel,        \* up, or down after a segmentation fault
  incidentes     \* history: what the code does that breaks its own rules

tableVars == <<open_files, archivos, pending_file>>
lockVars == <<tableVars, estado, llamada, kernel, incidentes>>

SinEntrada == [hay |-> FALSE, escritura |-> FALSE, lectura |-> 0, cola |-> <<>>]
EntradaNueva == [SinEntrada EXCEPT !.hay = TRUE]      \* kernel_file_create
SinPendiente == <<>>
SinLlamada == [op |-> "none"]
Modo == {"R", "W"}

Vivos == {p \in Process : estado[p] # "fin"}
Posiciones(p, f) == {i \in DOMAIN archivos[p] : archivos[p][i].archivo = f}
Tiene(p, f) == Posiciones(p, f) # {}
\* The live openings of f, as process and place in its table.
Abiertos(f) == UNION {{p} \X Posiciones(p, f) : p \in Vivos}
ModoDe(a) == archivos[a[1]][a[2]].modo

\* _process_find_open_file: the first entry with that name.
Primera(p, f) == CHOOSE i \in Posiciones(p, f) : \A j \in Posiciones(p, f) : i <= j

\* get_file_from_filesystem: the entry of f, made if there is none.
GetFile(f) == IF open_files[f].hay THEN open_files[f] ELSE EntradaNueva

\* process_assign_open_file
ConArchivo(t, p, f, modo) == [t EXCEPT ![p] = Append(@, [archivo |-> f, modo |-> modo, puntero |-> 0])]

\* The planner is free to handle a call of p.
Atiende(p) == kernel = "up" /\ llamada = SinLlamada /\ estado[p] = "listo"

------------------------------------------------------------------------------
(* F_OPEN.                                                                  *)

\* file_open_in_read_mode: behind a writer, beside other readers.
AbrirLectura(e, p) ==
  IF e.escritura THEN [e EXCEPT !.cola = Append(@, [pid |-> p, modo |-> "R"])]
  ELSE [e EXCEPT !.lectura = @ + 1]

\* file_open_in_write_mode: behind a writer.  Readers are not looked at.
AbrirEscritura(e, p) ==
  IF e.escritura THEN [e EXCEPT !.cola = Append(@, [pid |-> p, modo |-> "W"])]
  ELSE [e EXCEPT !.escritura = TRUE]

\* onFileOpen: the file, or a place in its queue and BLOCK.
FOpen(p, f, modo) ==
  /\ Atiende(p) /\ Len(archivos[p]) < MaxOpen
  /\ LET e == GetFile(f)
     IN /\ open_files' = [open_files EXCEPT ![f] =
                            IF modo = "R" THEN AbrirLectura(e, p) ELSE AbrirEscritura(e, p)]
        /\ IF e.escritura
           THEN /\ pending_file' = [pending_file EXCEPT ![p] = <<f, modo>>]
                /\ estado' = [estado EXCEPT ![p] = "block"]
                /\ UNCHANGED <<archivos, incidentes>>
           ELSE /\ archivos' = ConArchivo(archivos, p, f, modo)
                /\ pending_file' = [pending_file EXCEPT ![p] = SinPendiente]
                /\ incidentes' = IF modo = "W" /\ \E a \in Abiertos(f) : ModoDe(a) = "R"
                                 THEN incidentes \cup {"mixed"} ELSE incidentes
                /\ UNCHANGED estado
  /\ UNCHANGED <<llamada, kernel>>

------------------------------------------------------------------------------
(* F_CLOSE.                                                                 *)

\* Mutant of Siguientes: everybody that waits.
Todos(cola) == cola

\* desencolar_y_dar_lugar_al_siguiente_lock: how many leave the queue, all the
\* readers at its head or else one writer.
Siguientes(cola) ==
  LET lectores == {n \in 0 .. Len(cola) : \A i \in 1 .. n : cola[i].modo = "R"}
      n == CHOOSE k \in lectores : \A j \in lectores : j <= k
  IN SubSeq(cola, 1, IF n = 0 /\ cola # <<>> THEN 1 ELSE n)

\* Mutant of Desencolar: the locks are taken, the requests stay in the queue.
DesencolarSinSacar(e) ==
  LET sig == Siguientes(e.cola)
      lectores == Cardinality({i \in DOMAIN sig : sig[i].modo = "R"})
  IN [e EXCEPT !.lectura = @ + lectores, !.escritura = @ \/ Len(sig) > lectores]

Desencolar(e) ==
  LET sig == Siguientes(e.cola)
      lectores == Cardinality({i \in DOMAIN sig : sig[i].modo = "R"})
  IN [e EXCEPT !.cola = SubSeq(@, Len(sig) + 1, Len(@)),
               !.lectura = @ + lectores,
               !.escritura = @ \/ Len(sig) > lectores]

\* Mutant of Soltar: a reader that closes still counts.
SoltarSinRestar(e, modo) == IF modo = "W" THEN [e EXCEPT !.escritura = FALSE] ELSE e
\* Mutant of DaLugar: only a writer hands the file on.
DaLugarEscritor(e, modo) == modo = "W" /\ ~e.escritura

\* file_close_write_mode, file_close_read_mode: the entry, and who is next.
Soltar(e, modo) ==
  IF modo = "W" THEN [e EXCEPT !.escritura = FALSE] ELSE [e EXCEPT !.lectura = @ - 1]
DaLugar(e, modo) == IF modo = "W" THEN ~e.escritura ELSE ~(e.lectura > 0)

\* process_remove_open_file
SinArchivo(p, f) == [archivos EXCEPT ![p] = RemoveAt(@, Primera(p, f))]

\* onFileClose with the file open: the lock is released and handed on, the
\* entry removed when nobody waits.  A pid that is no process any more is
\* dereferenced all the same.
CloseOpen(p, f) ==
  LET modo == archivos[p][Primera(p, f)].modo
      e == Soltar(GetFile(f), modo)
      sig == IF DaLugar(e, modo) THEN Siguientes(e.cola) ELSE <<>>
      d == IF DaLugar(e, modo) THEN Desencolar(e) ELSE e
      pids == {sig[i].pid : i \in DOMAIN sig}
      pendientes == {q \in pids : pending_file[q] # SinPendiente}
      quedan == Abiertos(f) \ {<<p, Primera(p, f)>>}
  IN /\ open_files' = [open_files EXCEPT ![f] =
                         IF sig = <<>> /\ d.cola = <<>> THEN SinEntrada ELSE d]
     /\ incidentes' = incidentes
          \cup (IF sig = <<>> /\ d.cola = <<>> /\ quedan # {} THEN {"dropped"} ELSE {})
     /\ IF pids \subseteq Vivos
        THEN /\ archivos' = [q \in Process |->
                  IF q \in pendientes THEN ConArchivo(SinArchivo(p, f), q, f, pending_file[q][2])[q]
                  ELSE SinArchivo(p, f)[q]]
             /\ pending_file' = [q \in Process |-> IF q \in pendientes THEN SinPendiente ELSE pending_file[q]]
             /\ estado' = [q \in Process |-> IF q \in pendientes THEN "listo" ELSE estado[q]]
             /\ UNCHANGED kernel
        ELSE /\ kernel' = "down"
             /\ archivos' = SinArchivo(p, f)
             /\ UNCHANGED <<pending_file, estado>>

FClose(p, f) ==
  /\ Atiende(p)
  /\ IF Tiene(p, f) THEN CloseOpen(p, f)
     ELSE /\ open_files' = [open_files EXCEPT ![f] = GetFile(f)]
          /\ UNCHANGED <<archivos, pending_file, estado, kernel, incidentes>>
  /\ UNCHANGED llamada

------------------------------------------------------------------------------
(* The calls on an open file.                                               *)

\* onFileSeek: the pointer is not compared with the size.
FSeek(p, f, puntero) ==
  /\ Atiende(p) /\ Tiene(p, f)
  /\ archivos' = [archivos EXCEPT ![p][Primera(p, f)].puntero = puntero]
  /\ UNCHANGED <<open_files, pending_file, estado, llamada, kernel, incidentes>>

\* _truncate_file, _read_file, _write_file: the request is sent and waited for.
Pedir(op, p, f, arg) == llamada' = [op |-> op, pid |-> p, archivo |-> f, arg |-> arg]

\* onFileTruncate, whatever the mode of the file.
FTruncate(p, f, n) ==
  /\ Atiende(p) /\ Tiene(p, f)
  /\ open_files' = [open_files EXCEPT ![f] = GetFile(f)]
  /\ Pedir("F_TRUNCATE", p, f, n)
  /\ UNCHANGED <<archivos, pending_file, estado, kernel, incidentes>>

\* onFileRead
FRead(p, f) ==
  /\ Atiende(p) /\ Tiene(p, f)
  /\ Pedir("F_READ", p, f, archivos[p][Primera(p, f)].puntero)
  /\ UNCHANGED <<tableVars, estado, kernel, incidentes>>

\* onFileWrite; a file opened for reading has its process interrupted (Cpu).
FWrite(p, f) ==
  /\ Atiende(p) /\ Tiene(p, f)
  /\ archivos[p][Primera(p, f)].modo = "W"
  /\ Pedir("F_WRITE", p, f, archivos[p][Primera(p, f)].puntero)
  /\ UNCHANGED <<tableVars, estado, kernel, incidentes>>

\* The answer.  The entry is looked up again, and made again if it was dropped.
Respuesta ==
  /\ llamada # SinLlamada
  /\ llamada' = SinLlamada
  /\ open_files' = [open_files EXCEPT ![llamada.archivo] = GetFile(llamada.archivo)]
  /\ UNCHANGED <<archivos, pending_file, estado, kernel, incidentes>>

\* exit_process, of the process itself or from the console at any moment: no
\* file is closed and no queue is left.  A killed process may be made ready
\* again (Cpu, Planning); its table is freed then, and calls on it not followed.
Exit(p) ==
  /\ kernel = "up" /\ estado[p] # "fin"
  /\ estado' = [estado EXCEPT ![p] = "fin"]
  /\ incidentes' = incidentes
       \cup (IF archivos[p] # <<>> THEN {"abandoned"} ELSE {})
       \cup (IF pending_file[p] # SinPendiente THEN {"waiter"} ELSE {})
  /\ UNCHANGED <<tableVars, llamada, kernel>>

LocksInit ==
  /\ open_files = [f \in File |-> SinEntrada]
  /\ archivos = [p \in Process |-> <<>>]
  /\ pending_file = [p \in Process |-> SinPendiente]
  /\ estado = [p \in Process |-> "listo"]
  /\ llamada = SinLlamada /\ kernel = "up" /\ incidentes = {}

LocksTypeOK ==
  /\ \A f \in File : /\ open_files[f].escritura \in BOOLEAN /\ open_files[f].lectura \in Int
                     /\ \A i \in DOMAIN open_files[f].cola :
                          open_files[f].cola[i] \in [pid : Process, modo : Modo]
  /\ \A p \in Process :
       /\ Len(archivos[p]) <= MaxOpen
       /\ \A i \in DOMAIN archivos[p] :
            archivos[p][i] \in [archivo : File, modo : Modo, puntero : Nat]
       /\ pending_file[p] = SinPendiente \/ pending_file[p] \in File \X Modo
  /\ estado \in [Process -> {"listo", "block", "fin"}]
  /\ kernel \in {"up", "down"}
  /\ incidentes \subseteq {"mixed", "dropped", "abandoned", "waiter"}
=============================================================================
