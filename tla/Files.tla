--------------------------------- MODULE Files ---------------------------------
(***************************************************************************)
(* The kernel's open files (FileLocks) over the filesystem (Fat): what a   *)
(* process may do to a file, from F_OPEN to the blocks on disk, with the   *)
(* system going down and coming back at any moment.                        *)
(***************************************************************************)
EXTENDS FileLocks, Fat

CONSTANTS
  Cargas,        \* workloads to consider: processes, files, modes, files open at a
                 \* time, sizes, pointers, whether data is read and written,
                 \* and whether processes end
  MaxCaidas,     \* bound: restarts
  MaxIncidentes, \* bound: causes of trouble met in one behaviour
  Ausente        \* for the contents of a file that does not exist

ASSUME FilesAssumption ==
  /\ \A c \in Cargas : /\ c.procesos \subseteq Process /\ c.archivos \subseteq File
                       /\ c.modos \subseteq Modo /\ c.tamanios \subseteq Nat /\ c.punteros \subseteq Nat
  /\ MaxCaidas \in Nat
  /\ Ausente \notin Seq(Data)

VARIABLES
  carga,         \* the workload
  caidas         \* restarts so far

vars == <<lockVars, fatVars, carga, caidas>>

\* get_file_from_filesystem, on the filesystem's side: a file that is not in
\* the table is opened, and created first when there is none.
AbrirOCrear(f) ==
  IF ~open_files[f].hay /\ ~Existe(f) THEN Crear(f) ELSE UNCHANGED fatVars

Open(p, f, modo) ==
  /\ Len(archivos[p]) < carga.abiertos
  /\ FOpen(p, f, modo) /\ AbrirOCrear(f)
Close(p, f) == FClose(p, f) /\ AbrirOCrear(f)
Seek(p, f, puntero) == FSeek(p, f, puntero) /\ UNCHANGED fatVars
Read(p, f) == FRead(p, f) /\ UNCHANGED fatVars
Write(p, f) == FWrite(p, f) /\ UNCHANGED fatVars
Truncate(p, f, n) ==
  /\ FTruncate(p, f, n) /\ EmpezarTruncar(f, n)
  /\ UNCHANGED <<fat, fcb, bloques, swapTocado, avisos>>

\* The filesystem serves the request the planner waits for.
ServeTruncate ==
  \/ TruncarFat /\ UNCHANGED lockVars
  \/ TruncarFcb /\ Respuesta
ServeRead == llamada.op = "F_READ" /\ Leer /\ Respuesta
ServeWrite ==
  /\ llamada.op = "F_WRITE"
  /\ \E d \in Data : Escribir(llamada.archivo, llamada.arg, d)
  /\ Respuesta

End(p) == Exit(p) /\ UNCHANGED fatVars

\* Everything is started again; only the disk is as it was.
Restart ==
  /\ caidas < MaxCaidas
  /\ caidas' = caidas + 1
  /\ Reinicio
  /\ open_files' = [f \in File |-> SinEntrada]
  /\ archivos' = [p \in Process |-> <<>>]
  /\ pending_file' = [p \in Process |-> SinPendiente]
  /\ estado' = [p \in Process |-> "listo"]
  /\ llamada' = SinLlamada /\ kernel' = "up" /\ incidentes' = {}
  /\ UNCHANGED carga

Call(p, f) ==
  \/ \E modo \in carga.modos : Open(p, f, modo)
  \/ Close(p, f)
  \/ carga.datos /\ (Read(p, f) \/ Write(p, f))
  \/ \E n \in carga.punteros : Seek(p, f, n)
  \/ \E n \in carga.tamanios : Truncate(p, f, n)

Step ==
  \/ \E p \in carga.procesos : (\E f \in carga.archivos : Call(p, f)) \/ (carga.terminan /\ End(p))
  \/ ServeTruncate \/ ServeRead \/ ServeWrite

\* A behaviour is followed until the FAT has no entry left to give; the other
\* causes of trouble are met one at a time.
Next ==
  /\ "noroom" \notin avisos
  /\ (Step /\ UNCHANGED <<carga, caidas>>) \/ Restart
  /\ Cardinality(incidentes' \cup avisos') <= MaxIncidentes

Init == LocksInit /\ FatInit /\ carga \in Cargas /\ caidas = 0
Spec == Init /\ [][Next]_vars

------------------------------------------------------------------------------
TypeOK == LocksTypeOK /\ FatTypeOK /\ caidas \in 0 .. MaxCaidas

SinAviso(C) == avisos \cap C = {}
SinIncidente(C) == incidentes \cap C = {}

\* "Solo encolo este ya que es exclusivo": while nobody has opened a file for
\* writing beside its readers, an opening for writing is the only one alive.
WriterExclusive ==
  SinIncidente({"mixed"}) =>
    \A f \in File : \A a, b \in Abiertos(f) : ModoDe(a) = "W" => a = b

\* A process blocked on a file waits in its queue, once, and somebody alive has
\* the file open, whose close will hand it on; unless a process ended with the
\* file open.  (A process may wait for itself: it had the file open for writing.)
Espera(p, f) == {i \in DOMAIN open_files[f].cola : open_files[f].cola[i].pid = p}
NoLostWaiter ==
  SinIncidente({"mixed", "abandoned"}) /\ kernel = "up" =>
    \A p \in Process : estado[p] = "block" =>
      LET f == pending_file[p][1]
      IN /\ Cardinality(Espera(p, f)) = 1
         /\ Abiertos(f) # {}

\* The locks of a file are those of its live openings.
Cuenta(f, modo) == Cardinality({a \in Abiertos(f) : ModoDe(a) = modo})
LocksMatch ==
  SinIncidente({"mixed", "dropped", "abandoned"}) /\ kernel = "up" =>
    \A f \in File : /\ open_files[f].lectura = Cuenta(f, "R")
                    /\ open_files[f].escritura = (Cuenta(f, "W") = 1)

\* The planner does not die but for the pid of a process that ended in a queue.
KernelStays == kernel = "down" => "waiter" \in incidentes

\* The blocks of a file, as the FAT and the FCB that is being saved have them.
Inicial(f) ==
  IF truncando.paso = "fcb" /\ truncando.archivo = f THEN truncando.inicial ELSE fcb[f].inicial
Bloques(f) == Cadena(Inicial(f))
Creados == {f \in File : Existe(f)}
EnTruncado(f) == truncando # Ninguna /\ truncando.archivo = f

\* Unless a truncation to nothing was cut short, or there was no entry to give,
\* no two files share a block, and the last block of each is marked so.
ChainsDisjoint ==
  SinAviso({"zeroed", "noroom"}) =>
    /\ \A f \in Creados : Bloques(f) # <<>> => fat[Last(Bloques(f))] = Fin
    /\ \A f, g \in Creados : f # g => Range(Bloques(f)) \cap Range(Bloques(g)) = {}

\* No entry of the FAT is taken by nobody, unless a truncation was cut short.
NoLeak ==
  SinAviso({"zeroed", "torn", "noroom"}) =>
    {e \in Entradas \ {0} : fat[e] # 0} = UNION {Range(Bloques(f)) : f \in Creados}

\* A file has the blocks that its size asks for.
SizeMatches ==
  SinAviso({"zeroed", "torn", "full", "noroom"}) =>
    \A f \in Creados : ~EnTruncado(f) => Len(Bloques(f)) = CantBloques(fcb[f].tamanio)

\* The blocks of swap are written by a write past the end of a file and by
\* nothing else.
SwapUntouched ==
  swapTocado => ~SinAviso({"pastend", "full", "torn", "zeroed", "noroom"})

\* A file is its contents: the filesystem does what FileStore promises, as long
\* as no write is past the end and every truncation has its blocks.
Contenido == [f \in File |->
  IF ~Existe(f) THEN Ausente ELSE [i \in DOMAIN Bloques(f) |-> bloques[Bloques(f)[i]]]]
Store == INSTANCE FileStore WITH NoFile <- Ausente, MaxLen <- BlockCount, data <- Contenido
IsFileStore ==
  /\ Store!Init
  /\ [][avisos' \cap {"zeroed", "torn", "noroom", "pastend"} = {} => Store!Next]_Contenido
=============================================================================
