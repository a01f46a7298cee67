-------------------------- MODULE PipeSlots_proofs ---------------------------
(***************************************************************************)
(* That file objects, descriptors and slots stay in step, for programs     *)
(* that do not duplicate descriptors and with as many slots as processes,  *)
(* as in pipe.h and context.h: no fork or close fails, reference counts    *)
(* are exact, a pipe lives as long as its descriptors, and pipes implement *)
(* the channels of FifoChannel.                                            *)
(*                                                                         *)
(* None of these is inductive alone.  That a close finds its slot needs    *)
(* that a process has one descriptor for an end, and one slot in a pipe;   *)
(* that the pipe is removed no sooner than its last file object needs the  *)
(* ends of every slot to be those of descriptors; and a pipe whose         *)
(* creation ran out of descriptors keeps an end for ever, in the slots of  *)
(* processes that ended long ago and of those that got their pid.          *)
(***************************************************************************)
EXTENDS Pipe_proofs

\* What MAX_PIPE_PROC and MAX_PROCESSES of the code satisfy.
EnoughSlots == MAX_PIPE_PROC >= MAX_PROCESSES - 1

Modes == {O_READ, O_WRITE}
Ends(slot) == {m \in Modes : EndOpen(slot, m)}

\* The file objects: each pipe in use has one for each end at most, a process
\* one descriptor at most for each, and a count as RefCountExact says.
FilesInv ==
  /\ \A f \in FileIds : filep[f] # FreeFile => filep[f].pipe \in allocated
  /\ \A f, g \in FileIds :
       filep[f] # FreeFile /\ filep[g] # FreeFile /\ filep[f].pipe = filep[g].pipe /\ filep[f].mode = filep[g].mode
         => f = g
  /\ NoDanglingFile
  /\ \A p \in Pids, d, e \in Fds : files[p][d] = files[p][e] /\ files[p][d] # NULL => d = e
  /\ RefCountExact

\* The slots: one for each pid at most, in use while an end is open.
SlotsInv ==
  /\ OneSlotPerProcess
  /\ \A x \in PipeIds, i \in Slots : pipe_per_proc[x][i].pid = NoPid <=> Ends(pipe_per_proc[x][i]) = {}

\* A descriptor has its end open in its process's slot.
DescriptorsHaveEnds ==
  \A p \in Pids, d \in Fds :
    files[p][d] # NULL /\ ~Pending(p, d) =>
      \E i \in Slots : LET f == filep[files[p][d]] IN
        pipe_per_proc[f.pipe][i].pid = p /\ f.mode \in Ends(pipe_per_proc[f.pipe][i])

\* An open end is that of a descriptor of the slot's process, or of an orphan.
EndsHaveFiles ==
  \A x \in PipeIds, i \in Slots, m \in Modes :
    m \in Ends(pipe_per_proc[x][i]) =>
      \E f \in FileIds :
        /\ filep[f] # FreeFile /\ filep[f].pipe = x /\ filep[f].mode = m
        /\ Orphan(f) \/ \E d \in Fds : files[pipe_per_proc[x][i].pid][d] = f

\* An orphan's end stays open in every slot in use, so its pipe is never removed.
OrphanEndsOpen ==
  \A f \in FileIds : Orphan(f) =>
    /\ \E i \in Slots : pipe_per_proc[filep[f].pipe][i].pid # NoPid
    /\ \A i \in Slots : pipe_per_proc[filep[f].pipe][i].pid # NoPid
                          => filep[f].mode \in Ends(pipe_per_proc[filep[f].pipe][i])

EndsInv == DescriptorsHaveEnds /\ EndsHaveFiles /\ OrphanEndsOpen

\* The loops: exit has still to close what is open, and a child's table is its
\* parent's until the fork returns.
LoopInv ==
  /\ kernel.ret = 0
  /\ kernel.op = "exit" => kernel.proc \in alive /\ kernel.todo = OpenFds(kernel.proc)
  /\ kernel.op = "fork" =>
       /\ kernel.proc \in alive /\ kernel.parent \in alive \ {kernel.proc}
       /\ files[kernel.proc] = files[kernel.parent]
       /\ kernel.todo \subseteq OpenFds(kernel.proc)
  /\ \A p \in Pids \ alive : OpenFds(p) = {}

Inv == TypeOK /\ FilesInv /\ SlotsInv /\ EndsInv /\ LoopInv

-----------------------------------------------------------------------------
LEMMA ConstantFacts ==
  /\ NoPid \notin Pids /\ Slots \subseteq Nat /\ Pids \subseteq Nat
  /\ O_READ # O_WRITE /\ O_READ \in Modes /\ O_WRITE \in Modes
  BY SizesAssumption DEF NoPid, Pids, Slots, O_READ, O_WRITE, Modes

\* Counting the holders of a file object exactly.
LEMMA HoldersExact ==
  ASSUME NEW g
  PROVE  /\ \A h : Holders(g)' = {h} => Cardinality(Holders(g)') = 1
         /\ \A h : h \notin Holders(g) /\ Holders(g)' = Holders(g) \cup {h}
                     => Cardinality(Holders(g)') = Cardinality(Holders(g)) + 1
         /\ \A h \in Holders(g) : Holders(g)' = Holders(g) \ {h}
                     => Cardinality(Holders(g)') = Cardinality(Holders(g)) - 1
         /\ \A h \in Holders(g) : Cardinality(Holders(g)) = 1 <=> Holders(g) = {h}
<1>1. IsFiniteSet(Pids \X Fds)
  <2>1. IsFiniteSet(Pids)
    BY SizesAssumption, FS_Interval DEF Pids
  <2> QED BY <2>1, FdsAssumption, FS_Product
<1>2. IsFiniteSet(Holders(g))
  <2>1. Holders(g) \subseteq Pids \X Fds
    BY DEF Holders
  <2> QED BY <1>1, <2>1, FS_Subset
<1>3. \A h : Holders(g)' = {h} => Cardinality(Holders(g)') = 1
  BY FS_Singleton
<1>4. ASSUME NEW h, h \notin Holders(g), Holders(g)' = Holders(g) \cup {h}
      PROVE  Cardinality(Holders(g)') = Cardinality(Holders(g)) + 1
  BY <1>2, <1>4, FS_AddElement
<1>5. ASSUME NEW h \in Holders(g), Holders(g)' = Holders(g) \ {h}
      PROVE  Cardinality(Holders(g)') = Cardinality(Holders(g)) - 1
  BY <1>2, <1>5, FS_RemoveElement
<1>6. ASSUME NEW h \in Holders(g)
      PROVE  Cardinality(Holders(g)) = 1 <=> Holders(g) = {h}
  <2>1. ASSUME Cardinality(Holders(g)) = 1 PROVE Holders(g) = {h}
    BY <1>2, <2>1, FS_Singleton
  <2>2. Cardinality({h}) = 1
    BY FS_Singleton
  <2> QED BY <2>1, <2>2
<1> QED BY <1>3, <1>4, <1>5, <1>6

\* What the operators on slots do to the ends.
LEMMA ClosedEnds ==
  ASSUME NEW slot \in PipeSlot, NEW m \in Modes
  PROVE  /\ Ends(ClosedSlot(slot, m)) = Ends(slot) \ {m}
         /\ ClosedSlot(slot, m).pid = IF Ends(ClosedSlot(slot, m)) = {} THEN NoPid ELSE slot.pid
<1> USE DEF PipeSlot, ClosedSlot, EndOpen, Modes, O_READ, O_WRITE
<1>1. \A k \in Modes : EndOpen(ClosedSlot(slot, m), k) <=> k # m /\ EndOpen(slot, k)
  OBVIOUS
<1>2. ClosedSlot(slot, m).pid =
        IF \A k \in Modes : ~EndOpen(ClosedSlot(slot, m), k) THEN NoPid ELSE slot.pid
  OBVIOUS
<1> HIDE DEF PipeSlot, ClosedSlot, EndOpen, Modes
<1> QED BY <1>1, <1>2 DEF Ends

LEMMA OtherEnds ==
  /\ \A slot, c : InheritedSlot(c, slot).pid = c /\ Ends(InheritedSlot(c, slot)) = Ends(slot)
  /\ \A c : Ends([pid |-> c, read_open |-> 1, write_open |-> 1]) = Modes
  /\ FreeSlot.pid = NoPid /\ Ends(FreeSlot) = {}
  BY DEF Ends, InheritedSlot, EndOpen, FreeSlot, Modes, O_READ, O_WRITE

\* The slot the search loops find for a process is the only one with its pid.
LEMMA SlotUnique ==
  ASSUME OneSlotPerProcess, NEW x \in PipeIds, NEW p \in Pids, NEW i \in Slots,
         pipe_per_proc[x][i].pid = p
  PROVE  SlotsOf(x, p) = {i} /\ IsSlotOf(i, x, p)
<1>1. SlotsOf(x, p) = {i}
  BY ConstantFacts DEF SlotsOf, OneSlotPerProcess
<1>2. i <= i
  BY ConstantFacts
<1> QED BY <1>1, <1>2 DEF IsSlotOf, IsLowest

\* A child finds a slot, its own or a free one: the others are of other processes.
LEMMA SlotForChild ==
  ASSUME TypeOK, OneSlotPerProcess, EnoughSlots, NEW x \in PipeIds, NEW c \in Pids
  PROVE  ChildSlots(x, c) # {}
<1> SUFFICES ASSUME SlotsOf(x, c) = {}, SlotsOf(x, NoPid) = {} PROVE FALSE
  BY DEF ChildSlots
<1> DEFINE owner == [i \in Slots |-> pipe_per_proc[x][i].pid]
           Others == Pids \ {c}
<1>1. \A i \in Slots : pipe_per_proc[x][i].pid \in Others
  BY DEF TypeOK, PipeSlot, SlotsOf
<1>2. owner \in Injection(Slots, Others)
  <2>1. owner \in [Slots -> Others]
    BY <1>1
  <2>2. \A i, j \in Slots : owner[i] = owner[j] => i = j
    BY <1>1, ConstantFacts DEF OneSlotPerProcess
  <2> QED BY <2>1, <2>2 DEF Injection, IsInjective
<1>3. IsFiniteSet(Pids) /\ Cardinality(Pids) = MAX_PROCESSES - 1
  BY SizesAssumption, FS_Interval DEF Pids
<1>4. IsFiniteSet(Others) /\ Cardinality(Others) = MAX_PROCESSES - 2
  <2>1. IsFiniteSet(Others) /\ Cardinality(Others) = Cardinality(Pids) - 1
    BY <1>3, FS_RemoveElement
  <2> QED BY <1>3, <2>1, SizesAssumption
<1>5. Cardinality(Slots) = MAX_PIPE_PROC
  BY SizesAssumption, FS_Interval DEF Slots
<1> HIDE DEF owner, Others
<1>6. Cardinality(Slots) <= Cardinality(Others)
  BY <1>2, <1>4, FS_Injection
<1> QED BY <1>4, <1>5, <1>6, SizesAssumption DEF EnoughSlots

-----------------------------------------------------------------------------
\* No file object is lost in the step.
NoNewOrphan == \A g \in FileIds : Orphan(g)' => Orphan(g)

\* Closing a descriptor.

\* A descriptor refers to a file object in use, of a pipe in use.
LEMMA FileOfDescriptor ==
  ASSUME Inv, NEW p \in Pids, NEW d \in Fds, files[p][d] # NULL
  PROVE  \E f \in FileIds, x \in PipeIds, m \in Modes :
           /\ f = files[p][d] /\ filep[f] # FreeFile
           /\ filep[f].pipe = x /\ filep[f].mode = m /\ x \in allocated
<1> PICK f \in FileIds : f = files[p][d]
  BY DEF Inv, TypeOK
<1>1. filep[f] # FreeFile /\ filep[f].pipe \in PipeIds /\ filep[f].pipe \in allocated
  BY DEF Inv, TypeOK, FilesInv, NoDanglingFile
<1>2. filep[f].mode \in Modes
  BY DEF Inv, TypeOK, File, Modes
<1> QED BY <1>1, <1>2

\* The end it stands for is open in a slot of the process.
LEMMA EndOfDescriptor ==
  ASSUME Inv, NEW p \in Pids, NEW d \in Fds, files[p][d] # NULL, ~Pending(p, d),
         NEW f, f = files[p][d], NEW x, filep[f].pipe = x, NEW m, filep[f].mode = m
  PROVE  \E i \in Slots : pipe_per_proc[x][i].pid = p /\ m \in Ends(pipe_per_proc[x][i])
  BY DEF Inv, EndsInv, DescriptorsHaveEnds

\* An open end stands for a file object in use, of a process or an orphan.
LEMMA FileOfEnd ==
  ASSUME Inv, NEW x \in PipeIds, NEW i \in Slots, NEW m \in Modes, m \in Ends(pipe_per_proc[x][i])
  PROVE  \E q \in Pids, g \in FileIds :
           /\ q = pipe_per_proc[x][i].pid
           /\ filep[g] # FreeFile /\ filep[g].pipe = x /\ filep[g].mode = m
           /\ Orphan(g) \/ \E d \in Fds : files[q][d] = g
<1>1. pipe_per_proc[x][i].pid # NoPid /\ pipe_per_proc[x][i] \in PipeSlot
  BY DEF Inv, SlotsInv, TypeOK
<1> PICK q \in Pids : q = pipe_per_proc[x][i].pid
  BY <1>1 DEF PipeSlot
<1>2. \E g \in FileIds :
        /\ filep[g] # FreeFile /\ filep[g].pipe = x /\ filep[g].mode = m
        /\ Orphan(g) \/ \E d \in Fds : files[q][d] = g
  BY DEF Inv, EndsInv, EndsHaveFiles
<1> QED BY <1>2

\* Slot i of pipe x, which is p's, and no other is changed: its end m is closed.
EndClosed(x, i, p, m) ==
  /\ pipe_per_proc[x][i].pid = p /\ m \in Ends(pipe_per_proc[x][i])
  /\ Ends(pipe_per_proc'[x][i]) = Ends(pipe_per_proc[x][i]) \ {m}
  /\ pipe_per_proc'[x][i].pid = IF Ends(pipe_per_proc'[x][i]) = {} THEN NoPid ELSE p
  /\ \A y \in PipeIds, j \in Slots :
       y # x \/ j # i => pipe_per_proc'[y][j] = pipe_per_proc[y][j]

\* The close finds the slot with the end open, closes it and drops a reference.
LEMMA CloseEffect ==
  ASSUME Inv, kernel.op # "fork", NEW p \in Pids, NEW d \in Fds,
         NEW f \in FileIds, NEW x \in PipeIds, NEW m \in Modes,
         f = files[p][d], filep[f].pipe = x, filep[f].mode = m,
         pipe_close(p, f, filep')
  PROVE  /\ filep' = file_close(filep, f)
         /\ \E i \in Slots : EndClosed(x, i, p, m)
         /\ allocated' = IF \A j \in Slots : pipe_per_proc'[x][j].pid = NoPid
                         THEN allocated \ {x} ELSE allocated
<1>1. PICK i \in Slots : pipe_per_proc[x][i].pid = p /\ m \in Ends(pipe_per_proc[x][i])
  BY NullAssumption, EndOfDescriptor DEF Pending
<1>2. SlotsOf(x, p) = {i} /\ \A j \in Slots : IsSlotOf(j, x, p) => j = i
  BY <1>1, SlotUnique DEF Inv, SlotsInv, IsSlotOf, IsLowest
<1>3. /\ filep' = file_close(filep, f)
      /\ pipe_per_proc' = [pipe_per_proc EXCEPT ![x][i] = ClosedSlot(@, m)]
      /\ allocated' = IF \A j \in Slots : pipe_per_proc'[x][j].pid = NoPid
                      THEN allocated \ {x} ELSE allocated
  BY <1>2 DEF pipe_close
<1>4. pipe_per_proc \in [PipeIds -> [Slots -> PipeSlot]]
  BY DEF Inv, TypeOK
<1> PICK slot \in PipeSlot : slot = pipe_per_proc[x][i]
  BY <1>4
<1>5. /\ pipe_per_proc'[x][i] = ClosedSlot(slot, m)
      /\ \A y \in PipeIds, j \in Slots :
           y # x \/ j # i => pipe_per_proc'[y][j] = pipe_per_proc[y][j]
  BY <1>3, <1>4
<1>6. /\ Ends(ClosedSlot(slot, m)) = Ends(slot) \ {m}
      /\ ClosedSlot(slot, m).pid = IF Ends(ClosedSlot(slot, m)) = {} THEN NoPid ELSE p
  BY <1>1, ClosedEnds
<1>7. EndClosed(x, i, p, m)
  BY <1>1, <1>5, <1>6 DEF EndClosed
<1> QED BY <1>3, <1>7

\* Closing one descriptor keeps files, slots and ends in step: the object goes
\* with its last descriptor, and the pipe with its last open end.
LEMMA CloseKeeps ==
  ASSUME Inv, kernel.op # "fork", kernel'.op # "fork",
         NEW p \in Pids, NEW d \in Fds, files[p][d] # NULL,
         pipe_close(p, files[p][d], filep'), files' = [files EXCEPT ![p][d] = NULL]
  PROVE  FilesInv' /\ SlotsInv' /\ EndsInv' /\ NoNewOrphan
<1> PICK f \in FileIds, x \in PipeIds, m \in Modes :
      /\ f = files[p][d] /\ filep[f] # FreeFile
      /\ filep[f].pipe = x /\ filep[f].mode = m /\ x \in allocated
  BY FileOfDescriptor
<1> pipe_close(p, f, filep')
  OBVIOUS
<1> PICK i \in Slots : EndClosed(x, i, p, m)
  BY CloseEffect
<1>1. /\ filep' = file_close(filep, f)
      /\ allocated' = IF \A j \in Slots : pipe_per_proc'[x][j].pid = NoPid
                      THEN allocated \ {x} ELSE allocated
  BY CloseEffect
<1>2. /\ files \in [Pids -> [Fds -> FileIds \cup {NULL}]] /\ filep \in [FileIds -> File]
      /\ allocated \subseteq PipeIds
  BY DEF Inv, TypeOK
<1>3. /\ files'[p][d] = NULL
      /\ \A q \in Pids, e \in Fds : <<q, e>> # <<p, d>> => files'[q][e] = files[q][e]
  BY <1>2
<1>4. \A g \in FileIds : /\ Holders(g) = {h \in Pids \X Fds : files[h[1]][h[2]] = g}
                         /\ Held(g) => Holders(g) # {}
  <2>1. \A g \in FileIds : Holders(g) = {h \in Pids \X Fds : files[h[1]][h[2]] = g}
    BY DEF Holders, Pending
  <2>2. \A g \in FileIds, q \in Pids, e \in Fds : files[q][e] = g => <<q, e>> \in Holders(g)
    BY <2>1
  <2> QED BY <2>1, <2>2 DEF Held
<1>5. \A g \in FileIds : Holders(g)' = {h \in Pids \X Fds : files'[h[1]][h[2]] = g}
  BY DEF Holders, Pending
<1>6. /\ <<p, d>> \in Holders(f) /\ Holders(f)' = Holders(f) \ {<<p, d>>}
      /\ \A g \in FileIds \ {f} : Holders(g)' = Holders(g)
  <2>1. \A h \in Pids \X Fds :
          files'[h[1]][h[2]] = IF h = <<p, d>> THEN NULL ELSE files[h[1]][h[2]]
    BY <1>3
  <2>2. <<p, d>> \in Holders(f)
    BY <1>4
  <2>3. \A g \in FileIds : Holders(g)' = Holders(g) \ {<<p, d>>}
    BY <1>4, <1>5, <2>1, NullAssumption
  <2>4. ASSUME NEW g \in FileIds \ {f} PROVE Holders(g)' = Holders(g)
    <3>1. <<p, d>> \notin Holders(g)
      BY <1>4
    <3>2. Holders(g)' = Holders(g) \ {<<p, d>>}
      BY <2>3
    <3> QED BY <3>1, <3>2
  <2>5. Holders(f)' = Holders(f) \ {<<p, d>>}
    BY <2>3
  <2> QED BY <2>2, <2>4, <2>5
<1>7. filep[f].ref_count = Cardinality(Holders(f))
  <2>1. Held(f)
    BY DEF Held
  <2> QED BY <2>1 DEF Inv, FilesInv, RefCountExact, Orphan
<1>8. Cardinality(Holders(f)') = Cardinality(Holders(f)) - 1
  BY <1>6, HoldersExact
<1>9. Cardinality(Holders(f)) = 1 <=> Holders(f)' = {}
  BY <1>6, HoldersExact
<1>10. \A g \in FileIds \ {f} : filep'[g] = filep[g]
  BY <1>1, <1>2 DEF file_close
<1>11. IF Holders(f)' = {} THEN filep'[f] = FreeFile
         ELSE filep'[f] = [filep[f] EXCEPT !.ref_count = @ - 1]
  BY <1>1, <1>2, <1>7, <1>9 DEF file_close
<1>12. Holders(f)' # {} => /\ filep'[f].pipe = x /\ filep'[f].mode = m /\ filep'[f] # FreeFile
                           /\ filep'[f].ref_count = Cardinality(Holders(f)')
  <2>1. Holders(f)' # {} => filep'[f].pipe = x /\ filep'[f].mode = m
                            /\ filep'[f].ref_count = filep[f].ref_count - 1
    BY <1>2, <1>11 DEF File
  <2> QED BY <1>7, <1>8, <2>1, NullAssumption DEF FreeFile
<1>13. \A g \in FileIds : filep'[g] # FreeFile =>
         filep[g] # FreeFile /\ filep'[g].pipe = filep[g].pipe /\ filep'[g].mode = filep[g].mode
  BY <1>10, <1>11, <1>12
<1>14. \A g \in FileIds \ {f} : Holders(g) = Holders(g)' /\ (Orphan(g)' <=> Orphan(g))
  BY <1>3, <1>6, <1>10, NullAssumption DEF Orphan, Held
<1>15. filep'[f] # FreeFile => Held(f)'
  BY <1>5, <1>11 DEF Held
<1>16. /\ \A g, h \in FileIds :
            filep[g] # FreeFile /\ filep[h] # FreeFile
              /\ filep[g].pipe = filep[h].pipe /\ filep[g].mode = filep[h].mode => g = h
       /\ \A q \in Pids, e, k \in Fds : files[q][e] = files[q][k] /\ files[q][e] # NULL => e = k
  BY DEF Inv, FilesInv
<1>17. /\ \A y \in PipeIds, j \in Slots :
            /\ pipe_per_proc'[y][j].pid \in {pipe_per_proc[y][j].pid, NoPid}
            /\ Ends(pipe_per_proc'[y][j]) \subseteq Ends(pipe_per_proc[y][j])
            /\ pipe_per_proc'[y][j].pid = NoPid <=> Ends(pipe_per_proc'[y][j]) = {}
  <2>1. \A y \in PipeIds, j \in Slots : pipe_per_proc[y][j].pid = NoPid <=> Ends(pipe_per_proc[y][j]) = {}
    BY DEF Inv, SlotsInv
  <2> QED BY <2>1, ConstantFacts DEF EndClosed
<1>18. ASSUME NEW q \in Pids, NEW e \in Fds, files'[q][e] # NULL
       PROVE  \E j \in Slots : LET g == filep'[files'[q][e]] IN
                pipe_per_proc'[g.pipe][j].pid = q /\ g.mode \in Ends(pipe_per_proc'[g.pipe][j])
  <2> PICK g \in FileIds : g = files[q][e] /\ g = files'[q][e] /\ <<q, e>> # <<p, d>>
    BY <1>2, <1>3, <1>18, NullAssumption
  <2>1. filep'[g] # FreeFile
    <3>1. CASE g = f
      <4>1. <<q, e>> \in Holders(f)'
        BY <1>5, <3>1
      <4> QED BY <1>12, <3>1, <4>1
    <3>2. CASE g # f
      BY <1>10, <3>2, NullAssumption DEF Inv, FilesInv, NoDanglingFile
    <3> QED BY <3>1, <3>2
  <2> PICK y \in PipeIds, k \in Modes : filep[g].pipe = y /\ filep[g].mode = k
    BY NullAssumption, FileOfDescriptor
  <2>2. filep'[g].pipe = y /\ filep'[g].mode = k
    BY <1>13, <2>1
  <2>3. PICK j \in Slots : pipe_per_proc[y][j].pid = q /\ k \in Ends(pipe_per_proc[y][j])
    BY NullAssumption, EndOfDescriptor DEF Pending
  <2>4. CASE y # x \/ j # i
    BY <2>2, <2>3, <2>4 DEF EndClosed
  <2>5. CASE y = x /\ j = i
    <3>1. q = p
      BY <2>3, <2>5 DEF EndClosed
    <3>2. g # f
      BY <1>16, <3>1
    <3>3. k # m
      BY <1>16, <2>1, <1>13, <2>5, <3>2
    <3>4. k \in Ends(pipe_per_proc'[x][i])
      BY <2>3, <2>5, <3>3 DEF EndClosed
    <3>5. pipe_per_proc'[x][i].pid = p
      BY <3>4 DEF EndClosed
    <3> QED BY <2>2, <2>5, <3>1, <3>4, <3>5
  <2> QED BY <2>4, <2>5
<1>19. ASSUME NEW g \in FileIds, Orphan(g)'
       PROVE  LET y == filep'[g].pipe IN
              /\ \E j \in Slots : pipe_per_proc'[y][j].pid # NoPid
              /\ \A j \in Slots : pipe_per_proc'[y][j].pid # NoPid
                                    => filep'[g].mode \in Ends(pipe_per_proc'[y][j])
  <2>1. g # f /\ Orphan(g)
    BY <1>14, <1>15, <1>19 DEF Orphan
  <2>2. filep[g] # FreeFile /\ filep'[g] = filep[g]
    BY <1>10, <2>1 DEF Orphan
  <2> PICK y \in PipeIds, k \in Modes : filep[g].pipe = y /\ filep[g].mode = k
    BY <2>2, <1>2 DEF Inv, FilesInv, File, Modes
  <2>3. /\ \E j \in Slots : pipe_per_proc[y][j].pid # NoPid
        /\ \A j \in Slots : pipe_per_proc[y][j].pid # NoPid => k \in Ends(pipe_per_proc[y][j])
    BY <2>1 DEF Inv, EndsInv, OrphanEndsOpen
  <2>4. y = x => k # m
    BY <1>16, <2>1, <2>2
  <2>5. y = x => k \in Ends(pipe_per_proc'[x][i])
    BY <2>3, <2>4, ConstantFacts DEF EndClosed
  <2>6. \A j \in Slots : pipe_per_proc'[y][j].pid # NoPid => k \in Ends(pipe_per_proc'[y][j])
    BY <1>17, <2>3, <2>5 DEF EndClosed
  <2>7. \E j \in Slots : pipe_per_proc'[y][j].pid # NoPid
    BY <1>17, <2>3, <2>5 DEF EndClosed
  <2> QED BY <2>2, <2>6, <2>7
<1>20. ASSUME NEW y \in PipeIds, NEW j \in Slots, NEW k \in Modes,
              k \in Ends(pipe_per_proc'[y][j])
       PROVE  \E g \in FileIds :
                /\ filep'[g] # FreeFile /\ filep'[g].pipe = y /\ filep'[g].mode = k
                /\ Orphan(g)' \/ \E e \in Fds : files'[pipe_per_proc'[y][j].pid][e] = g
  <2>1. k \in Ends(pipe_per_proc[y][j]) /\ pipe_per_proc'[y][j].pid = pipe_per_proc[y][j].pid
        /\ pipe_per_proc[y][j].pid # NoPid
    BY <1>17, <1>20
  <2>2. PICK q \in Pids, g \in FileIds :
          /\ q = pipe_per_proc[y][j].pid
          /\ filep[g] # FreeFile /\ filep[g].pipe = y /\ filep[g].mode = k
          /\ Orphan(g) \/ \E e \in Fds : files[q][e] = g
    BY <2>1, FileOfEnd
  <2>3. CASE g # f
    <3>1. filep'[g] = filep[g] /\ (Orphan(g)' <=> Orphan(g))
      BY <1>10, <1>14, <2>3
    <3>2. \A e \in Fds : files[q][e] = g => files'[q][e] = g
      BY <1>3, <2>3
    <3> QED BY <2>1, <2>2, <3>1, <3>2
  <2>4. CASE g = f
    <3>1. ~Orphan(f)
      BY DEF Orphan, Held
    <3>2. PICK e \in Fds : files[q][e] = f
      BY <2>2, <2>4, <3>1
    <3>3. q # p
      <4>1. y = x
        BY <2>2, <2>4
      <4>2. j # i
        BY <1>20, <2>2, <2>4, <4>1 DEF EndClosed
      <4> QED BY <2>1, <2>2, <4>1, <4>2 DEF Inv, SlotsInv, OneSlotPerProcess, EndClosed
    <3>4. files'[q][e] = f
      BY <1>3, <3>2, <3>3
    <3>5. <<q, e>> \in Holders(f)'
      BY <1>5, <3>4
    <3> QED BY <1>12, <2>1, <2>2, <2>4, <3>4, <3>5
  <2> QED BY <2>3, <2>4
<1>21. EndsInv'
  BY <1>18, <1>19, <1>20 DEF EndsInv, DescriptorsHaveEnds, EndsHaveFiles, OrphanEndsOpen
<1>22. SlotsInv'
  <2>1. OneSlotPerProcess'
    BY <1>17 DEF Inv, SlotsInv, OneSlotPerProcess
  <2> QED BY <1>17, <2>1 DEF SlotsInv
<1>23. ASSUME NEW g \in FileIds, filep'[g] # FreeFile PROVE filep'[g].pipe \in allocated'
  <2> PICK y \in PipeIds : filep[g].pipe = y /\ filep'[g].pipe = y /\ y \in allocated
    BY <1>2, <1>13, <1>23 DEF Inv, FilesInv
  <2>1. \E j \in Slots : pipe_per_proc'[y][j].pid # NoPid
    <3>1. CASE Orphan(g)'
      BY <1>19, <3>1
    <3>2. CASE Held(g)'
      BY <1>18, <3>2, ConstantFacts, NullAssumption DEF Held
    <3> QED BY <1>23, <3>1, <3>2 DEF Orphan
  <2> QED BY <1>1, <2>1
<1>24. RefCountExact'
  <2> SUFFICES ASSUME NEW g \in FileIds, filep'[g] # FreeFile
               PROVE  filep'[g].ref_count = IF Orphan(g)' THEN 1 ELSE Cardinality(Holders(g)')
    BY DEF RefCountExact
  <2>1. CASE g = f
    <3>1. ~Orphan(f)' /\ Holders(f)' # {}
      BY <1>11, <1>15, <2>1 DEF Orphan
    <3> QED BY <1>12, <2>1, <3>1
  <2>2. CASE g # f
    <3>1. filep'[g] = filep[g] /\ Holders(g)' = Holders(g) /\ (Orphan(g)' <=> Orphan(g))
      BY <1>10, <1>14, <2>2
    <3>2. filep[g].ref_count = IF Orphan(g) THEN 1 ELSE Cardinality(Holders(g))
      BY <3>1 DEF Inv, FilesInv, RefCountExact
    <3> QED BY <3>1, <3>2
  <2> QED BY <2>1, <2>2
<1>25. NoDanglingFile'
  <2> SUFFICES ASSUME NEW q \in Pids, NEW e \in Fds, files'[q][e] # NULL
               PROVE  filep'[files'[q][e]] # FreeFile
    BY DEF NoDanglingFile
  <2> PICK g \in FileIds : g = files[q][e] /\ g = files'[q][e]
    BY <1>2, <1>3
  <2>1. CASE g = f
    <3>1. <<q, e>> \in Holders(f)'
      BY <1>5, <2>1
    <3> QED BY <1>12, <2>1, <3>1
  <2>2. CASE g # f
    BY <1>10, <2>2 DEF Inv, FilesInv, NoDanglingFile
  <2> QED BY <2>1, <2>2
<1>26. FilesInv'
  BY <1>3, <1>13, <1>16, <1>23, <1>24, <1>25 DEF FilesInv
<1>27. NoNewOrphan
  BY <1>14, <1>15 DEF NoNewOrphan, Orphan
<1> QED BY <1>21, <1>22, <1>26, <1>27

-----------------------------------------------------------------------------
\* Creating a pipe.

\* What the descriptor searches install, whether they succeed or not: at most
\* one descriptor for each of the two file objects, in places that were free.
LEMMA InstallEffect ==
  ASSUME TypeOK, NEW p \in Pids, NEW f0 \in FileIds, NEW f1 \in FileIds, f0 # f1,
         InstallEnds(p, f0, f1)
  PROVE  /\ \A q \in Pids, e \in Fds : files'[q][e] # files[q][e] =>
              q = p /\ files[q][e] = NULL /\ files'[q][e] \in {f0, f1}
         /\ \A d, e \in Fds : files'[p][d] = files'[p][e] /\ files'[p][d] \in {f0, f1}
                                => d = e \/ files[p][d] = files'[p][d] \/ files[p][e] = files'[p][e]
<1> USE DEF TypeOK
<1>1. CASE UNCHANGED files
  BY <1>1
<1>2. ASSUME NEW d0 \in Fds, files[p][d0] = NULL, files' = [files EXCEPT ![p][d0] = f0]
      PROVE  /\ \A q \in Pids, e \in Fds : files'[q][e] # files[q][e] =>
                  q = p /\ files[q][e] = NULL /\ files'[q][e] \in {f0, f1}
             /\ \A d, e \in Fds : files'[p][d] = files'[p][e] /\ files'[p][d] \in {f0, f1}
                  => d = e \/ files[p][d] = files'[p][d] \/ files[p][e] = files'[p][e]
  BY <1>2
<1>3. ASSUME NEW d0 \in Fds, NEW d1 \in Fds, files[p][d0] = NULL, files[p][d1] = NULL, d0 # d1,
             files' = [files EXCEPT ![p][d0] = f0, ![p][d1] = f1]
      PROVE  /\ \A q \in Pids, e \in Fds : files'[q][e] # files[q][e] =>
                  q = p /\ files[q][e] = NULL /\ files'[q][e] \in {f0, f1}
             /\ \A d, e \in Fds : files'[p][d] = files'[p][e] /\ files'[p][d] \in {f0, f1}
                  => d = e \/ files[p][d] = files'[p][d] \/ files[p][e] = files'[p][e]
  BY <1>3
<1> QED BY <1>1, <1>2, <1>3 DEF InstallEnds, FreeFds, IsLowest

LEMMA CreateKeeps ==
  ASSUME Inv, EnoughSlots, NEW p \in Pids, create_pipe(p)
  PROVE  FilesInv' /\ SlotsInv' /\ EndsInv'
<1>0. PICK f0 \in FileIds, f1 \in FileIds, x \in PipeIds \ allocated :
      /\ f0 # f1 /\ filep[f0] = FreeFile /\ filep[f1] = FreeFile
      /\ filep' = [filep EXCEPT ![f0] = PipeFile(O_READ, x), ![f1] = PipeFile(O_WRITE, x)]
      /\ AllocPipe(p, x)
      /\ InstallEnds(p, f0, f1)
  BY DEF create_pipe
<1>1. kernel.op # "fork" /\ kernel'.op # "fork"
  BY DEF create_pipe, Running, Idle
<1>2. /\ files \in [Pids -> [Fds -> FileIds \cup {NULL}]] /\ filep \in [FileIds -> File]
      /\ allocated \subseteq PipeIds
  BY DEF Inv, TypeOK
<1>3. /\ \A q \in Pids, e \in Fds : files'[q][e] # files[q][e] =>
           q = p /\ files[q][e] = NULL /\ files'[q][e] \in {f0, f1}
      /\ \A d, e \in Fds : files'[p][d] = files'[p][e] /\ files'[p][d] \in {f0, f1}
           => d = e \/ files[p][d] = files'[p][d] \/ files[p][e] = files'[p][e]
  BY <1>0, InstallEffect DEF Inv
<1>4. \A q \in Pids, e \in Fds : files[q][e] \notin {f0, f1}
  BY <1>0, NullAssumption DEF Inv, FilesInv, NoDanglingFile
<1>5. /\ filep'[f0].ref_count = 1 /\ filep'[f0].mode = O_READ /\ filep'[f0].pipe = x
      /\ filep'[f1].ref_count = 1 /\ filep'[f1].mode = O_WRITE /\ filep'[f1].pipe = x
      /\ filep'[f0] # FreeFile /\ filep'[f1] # FreeFile
      /\ \A g \in FileIds \ {f0, f1} : filep'[g] = filep[g]
  BY <1>0, <1>2 DEF PipeFile, FreeFile
<1>6. /\ \A j \in Slots : /\ j = 0 => pipe_per_proc'[x][j].pid = p /\ Ends(pipe_per_proc'[x][j]) = Modes
                          /\ j # 0 => pipe_per_proc'[x][j].pid = NoPid /\ Ends(pipe_per_proc'[x][j]) = {}
      /\ \A y \in PipeIds \ {x} : pipe_per_proc'[y] = pipe_per_proc[y]
      /\ allocated' = allocated \cup {x}
  <2>1. /\ \A j \in Slots : pipe_per_proc'[x][j] =
             IF j = 0 THEN [pid |-> p, read_open |-> 1, write_open |-> 1] ELSE FreeSlot
        /\ \A y \in PipeIds \ {x} : pipe_per_proc'[y] = pipe_per_proc[y]
    BY <1>0 DEF AllocPipe, Inv, TypeOK
  <2> QED BY <1>0, <2>1, OtherEnds DEF AllocPipe
<1>7. 0 \in Slots
  BY SizesAssumption DEF EnoughSlots, Slots
<1>8. \A g \in FileIds : /\ Holders(g) = {h \in Pids \X Fds : files[h[1]][h[2]] = g}
                         /\ Holders(g)' = {h \in Pids \X Fds : files'[h[1]][h[2]] = g}
  BY <1>1 DEF Holders, Pending
<1>9. \A g \in FileIds, q \in Pids, e \in Fds : /\ <<q, e>> \in Holders(g)' <=> files'[q][e] = g
                                                /\ <<q, e>> \in Holders(g) <=> files[q][e] = g
  BY <1>8
<1>10. ASSUME NEW g \in FileIds \ {f0, f1}
       PROVE  Holders(g)' = Holders(g) /\ (Orphan(g)' <=> Orphan(g)) /\ filep'[g] = filep[g]
  <2>1. \A q \in Pids, e \in Fds : files'[q][e] = g <=> files[q][e] = g
    BY <1>3, NullAssumption
  <2>2. Holders(g)' = Holders(g)
    <3>1. \A h \in Pids \X Fds : files'[h[1]][h[2]] = g <=> files[h[1]][h[2]] = g
      BY <2>1
    <3>2. /\ Holders(g) = {h \in Pids \X Fds : files[h[1]][h[2]] = g}
          /\ Holders(g)' = {h \in Pids \X Fds : files'[h[1]][h[2]] = g}
      BY <1>8
    <3> QED BY <3>1, <3>2
  <2>3. Orphan(g)' <=> Orphan(g)
    BY <1>5, <2>1 DEF Orphan, Held
  <2> QED BY <1>5, <2>2, <2>3
<1>11. ASSUME NEW g \in {f0, f1}, ~Orphan(g)' PROVE Cardinality(Holders(g)') = 1
  <2>1. filep'[g] # FreeFile
    BY <1>5
  <2>2. PICK q \in Pids, e \in Fds : files'[q][e] = g
    BY <1>11, <2>1 DEF Orphan, Held
  <2>3. q = p
    BY <1>3, <1>4, <2>2
  <2>4. Holders(g)' = {<<p, e>>}
    <3>1. \A r \in Pids, k \in Fds : files'[r][k] = g => r = p /\ k = e
      BY <1>3, <1>4, <2>2, <2>3
    <3>2. <<p, e>> \in Holders(g)'
      BY <1>9, <2>2, <2>3
    <3>3. \A h \in Holders(g)' : h = <<p, e>>
      BY <1>8, <3>1
    <3> QED BY <3>2, <3>3
  <2> QED BY <2>4, HoldersExact
<1>12. \A g \in FileIds \ {f0, f1} : filep[g] # FreeFile => filep[g].pipe \in allocated
  BY DEF Inv, FilesInv
<1>13. SlotsInv'
  <2>1. OneSlotPerProcess'
    BY <1>6 DEF Inv, SlotsInv, OneSlotPerProcess
  <2>2. ASSUME NEW y \in PipeIds, NEW i \in Slots
        PROVE  pipe_per_proc'[y][i].pid = NoPid <=> Ends(pipe_per_proc'[y][i]) = {}
    <3>1. CASE y = x
      BY <1>6, <3>1, ConstantFacts
    <3>2. CASE y # x
      BY <1>6, <3>2 DEF Inv, SlotsInv
    <3> QED BY <3>1, <3>2
  <2> QED BY <2>1, <2>2 DEF SlotsInv
<1>14. RefCountExact'
  <2> SUFFICES ASSUME NEW g \in FileIds, filep'[g] # FreeFile
               PROVE  filep'[g].ref_count = IF Orphan(g)' THEN 1 ELSE Cardinality(Holders(g)')
    BY DEF RefCountExact
  <2>1. CASE g \in {f0, f1}
    BY <1>5, <1>11, <2>1
  <2>2. CASE g \notin {f0, f1}
    <3>1. filep'[g] = filep[g] /\ Holders(g)' = Holders(g) /\ (Orphan(g)' <=> Orphan(g))
      BY <1>10, <2>2
    <3>2. filep[g].ref_count = IF Orphan(g) THEN 1 ELSE Cardinality(Holders(g))
      BY <3>1 DEF Inv, FilesInv, RefCountExact
    <3> QED BY <3>1, <3>2
  <2> QED BY <2>1, <2>2
<1>15. FilesInv'
  <2>1. \A g \in FileIds : filep'[g] # FreeFile => filep'[g].pipe \in allocated'
    <3>1. \A g \in FileIds : g \in {f0, f1} => filep'[g].pipe = x
      BY <1>5
    <3>2. \A g \in FileIds \ {f0, f1} : filep'[g] # FreeFile => filep'[g].pipe \in allocated
      BY <1>5, <1>12
    <3>3. allocated' = allocated \cup {x}
      BY <1>6
    <3> QED BY <3>1, <3>2, <3>3
  <2>2. \A g, h \in FileIds :
          filep'[g] # FreeFile /\ filep'[h] # FreeFile
            /\ filep'[g].pipe = filep'[h].pipe /\ filep'[g].mode = filep'[h].mode => g = h
    <3> SUFFICES ASSUME NEW g \in FileIds, NEW h \in FileIds,
                        filep'[g] # FreeFile, filep'[h] # FreeFile,
                        filep'[g].pipe = filep'[h].pipe, filep'[g].mode = filep'[h].mode
                 PROVE  g = h
      OBVIOUS
    <3>1. CASE g \in {f0, f1} /\ h \in {f0, f1}
      BY <1>5, <3>1, ConstantFacts
    <3>2. CASE g \notin {f0, f1} /\ h \notin {f0, f1}
      <4>1. filep'[g] = filep[g] /\ filep'[h] = filep[h]
        BY <1>5, <3>2
      <4> QED BY <4>1 DEF Inv, FilesInv
    <3>3. \A k \in FileIds \ {f0, f1} : filep'[k] # FreeFile => filep'[k].pipe # x
      BY <1>5, <1>12
    <3>4. \A k \in {f0, f1} : filep'[k].pipe = x
      BY <1>5
    <3> QED BY <3>1, <3>2, <3>3, <3>4
  <2>3. \A q \in Pids, e \in Fds : files'[q][e] # NULL => filep'[files'[q][e]] # FreeFile
    BY <1>2, <1>3, <1>5 DEF Inv, FilesInv, NoDanglingFile
  <2>4. \A q \in Pids, d, e \in Fds : files'[q][d] = files'[q][e] /\ files'[q][d] # NULL => d = e
    <3> SUFFICES ASSUME NEW q \in Pids, NEW d \in Fds, NEW e \in Fds,
                        files'[q][d] = files'[q][e], files'[q][d] # NULL
                 PROVE  d = e
      OBVIOUS
    <3>1. CASE files'[q][d] \in {f0, f1}
      BY <1>3, <1>4, <3>1
    <3>2. CASE files'[q][d] \notin {f0, f1}
      BY <1>3, <3>2 DEF Inv, FilesInv
    <3> QED BY <3>1, <3>2
  <2> QED BY <1>14, <2>1, <2>2, <2>3, <2>4 DEF FilesInv, NoDanglingFile
<1>16. DescriptorsHaveEnds'
  <2> SUFFICES ASSUME NEW q \in Pids, NEW e \in Fds, files'[q][e] # NULL
               PROVE  \E j \in Slots : LET g == filep'[files'[q][e]] IN
                        pipe_per_proc'[g.pipe][j].pid = q /\ g.mode \in Ends(pipe_per_proc'[g.pipe][j])
    BY DEF DescriptorsHaveEnds
  <2>1. CASE files'[q][e] \in {f0, f1}
    <3>1. q = p
      BY <1>3, <1>4, <2>1
    <3> QED BY <1>5, <1>6, <1>7, <2>1, <3>1, ConstantFacts
  <2>2. CASE files'[q][e] \notin {f0, f1}
    <3> PICK g \in FileIds, y \in PipeIds, k \in Modes :
           g = files[q][e] /\ filep[g].pipe = y /\ filep[g].mode = k /\ y \in allocated
      BY <1>3, <2>2, FileOfDescriptor
    <3>1. \E j \in Slots : pipe_per_proc[y][j].pid = q /\ k \in Ends(pipe_per_proc[y][j])
      <4>1. files[q][e] # NULL
        BY NullAssumption
      <4>2. ~Pending(q, e)
        BY <1>1 DEF Pending
      <4> QED BY <4>1, <4>2, EndOfDescriptor
    <3>2. files'[q][e] = g
      BY <1>3, <2>2
    <3>3. pipe_per_proc'[y] = pipe_per_proc[y] /\ filep'[g] = filep[g]
      BY <1>5, <1>6, <2>2, <3>2
    <3> QED BY <3>1, <3>2, <3>3
  <2> QED BY <2>1, <2>2
<1>17. EndsHaveFiles'
  <2> SUFFICES ASSUME NEW y \in PipeIds, NEW j \in Slots, NEW k \in Modes,
                      k \in Ends(pipe_per_proc'[y][j])
               PROVE  \E g \in FileIds :
                        /\ filep'[g] # FreeFile /\ filep'[g].pipe = y /\ filep'[g].mode = k
                        /\ Orphan(g)' \/ \E e \in Fds : files'[pipe_per_proc'[y][j].pid][e] = g
    BY DEF EndsHaveFiles
  <2>1. CASE y = x
    <3>1. pipe_per_proc'[y][j].pid = p
      BY <1>6, <2>1
    <3> PICK g \in {f0, f1} : filep'[g] # FreeFile /\ filep'[g].pipe = x /\ filep'[g].mode = k
      BY <1>5 DEF Modes
    <3>2. Orphan(g)' \/ \E e \in Fds : files'[p][e] = g
      BY <1>3, <1>4 DEF Orphan, Held
    <3> QED BY <2>1, <3>1, <3>2
  <2>2. CASE y # x
    <3>1. pipe_per_proc'[y] = pipe_per_proc[y]
      BY <1>6, <2>2
    <3>2. PICK q \in Pids, g \in FileIds :
            /\ q = pipe_per_proc[y][j].pid
            /\ filep[g] # FreeFile /\ filep[g].pipe = y /\ filep[g].mode = k
            /\ Orphan(g) \/ \E e \in Fds : files[q][e] = g
      BY <3>1, FileOfEnd
    <3>3. filep'[g] = filep[g] /\ (Orphan(g)' <=> Orphan(g))
      BY <1>0, <1>10, <3>2
    <3>4. \A e \in Fds : files[q][e] = g => files'[q][e] = g
      BY <1>3, NullAssumption
    <3> QED BY <3>1, <3>2, <3>3, <3>4
  <2> QED BY <2>1, <2>2
<1>18. OrphanEndsOpen'
  <2> SUFFICES ASSUME NEW g \in FileIds, Orphan(g)'
               PROVE  LET y == filep'[g].pipe IN
                      /\ \E j \in Slots : pipe_per_proc'[y][j].pid # NoPid
                      /\ \A j \in Slots : pipe_per_proc'[y][j].pid # NoPid
                                            => filep'[g].mode \in Ends(pipe_per_proc'[y][j])
    BY DEF OrphanEndsOpen
  <2>1. CASE g \in {f0, f1}
    <3>1. filep'[g].pipe = x /\ filep'[g].mode \in Modes
      BY <1>5, <2>1, ConstantFacts
    <3>2. \A j \in Slots : pipe_per_proc'[x][j].pid # NoPid => Ends(pipe_per_proc'[x][j]) = Modes
      BY <1>6
    <3>3. pipe_per_proc'[x][0].pid # NoPid
      BY <1>6, <1>7, ConstantFacts
    <3> QED BY <1>7, <3>1, <3>2, <3>3
  <2>2. CASE g \notin {f0, f1}
    <3>1. Orphan(g) /\ filep'[g] = filep[g] /\ filep[g].pipe \in PipeIds \ {x}
      BY <1>2, <1>10, <1>12, <2>2 DEF Orphan
    <3>2. pipe_per_proc'[filep[g].pipe] = pipe_per_proc[filep[g].pipe]
      BY <1>6, <3>1
    <3> QED BY <3>1, <3>2 DEF Inv, EndsInv, OrphanEndsOpen
  <2> QED BY <2>1, <2>2
<1> QED BY <1>13, <1>15, <1>16, <1>17, <1>18 DEF EndsInv

-----------------------------------------------------------------------------
\* Fork.

\* A step that changes none of the tables, nor what is pending.
LEMMA SameTables ==
  ASSUME Inv, UNCHANGED <<files, filep, allocated, pipe_per_proc>>,
         \A q \in Pids, e \in Fds : Pending(q, e)' <=> Pending(q, e)
  PROVE  FilesInv' /\ SlotsInv' /\ EndsInv' /\ NoNewOrphan
<1>1. \A g : Orphan(g)' <=> Orphan(g)
  BY DEF Orphan, Held
<1>2. ASSUME NEW g PROVE Holders(g)' = Holders(g)
  <2>1. \A h \in Pids \X Fds : Pending(h[1], h[2])' <=> Pending(h[1], h[2])
    OBVIOUS
  <2> QED BY <2>1 DEF Holders
<1>3. RefCountExact'
  <2> SUFFICES ASSUME NEW g \in FileIds, filep[g] # FreeFile
               PROVE  filep[g].ref_count = IF Orphan(g)' THEN 1 ELSE Cardinality(Holders(g)')
    BY DEF RefCountExact
  <2>1. filep[g].ref_count = IF Orphan(g) THEN 1 ELSE Cardinality(Holders(g))
    BY DEF Inv, FilesInv, RefCountExact
  <2>2. Holders(g)' = Holders(g) /\ (Orphan(g)' <=> Orphan(g))
    BY <1>1, <1>2
  <2> QED BY <2>1, <2>2
<1>4. FilesInv'
  BY <1>3 DEF Inv, FilesInv, NoDanglingFile
<1>5. SlotsInv'
  BY DEF Inv, SlotsInv, OneSlotPerProcess
<1>6. DescriptorsHaveEnds'
  BY DEF Inv, EndsInv, DescriptorsHaveEnds
<1>7. EndsHaveFiles'
  BY <1>1 DEF Inv, EndsInv, EndsHaveFiles
<1>8. OrphanEndsOpen'
  BY <1>1 DEF Inv, EndsInv, OrphanEndsOpen
<1> QED BY <1>1, <1>4, <1>5, <1>6, <1>7, <1>8 DEF EndsInv, NoNewOrphan

\* The child that do_fork makes: unused so far, and of another pid.
LEMMA NewChild ==
  ASSUME Inv, NEW p \in Pids, do_fork(p)
  PROVE  \E c \in Pids \ {p} :
           /\ p \in alive /\ c \notin alive /\ alive' = alive \cup {c}
           /\ files' = [files EXCEPT ![c] = files[p]]
           /\ kernel' = Loop("fork", c, p, OpenFds(p))
           /\ \A e \in Fds : files[c][e] = NULL
<1> PICK c \in Pids :
      /\ c \notin alive /\ alive' = alive \cup {c}
      /\ files' = [files EXCEPT ![c] = files[p]]
      /\ kernel' = Loop("fork", c, p, OpenFds(p))
  BY DEF do_fork, IsLowest
<1>1. p \in alive /\ c # p
  BY DEF do_fork, Running
<1>2. \A e \in Fds : files[c][e] = NULL
  BY DEF Inv, LoopInv, OpenFds
<1> QED BY <1>1, <1>2

\* The descriptors copied to the child are pending: nothing is counted yet.
LEMMA ForkStartKeeps ==
  ASSUME Inv, NEW p \in Pids, do_fork(p)
  PROVE  FilesInv' /\ SlotsInv' /\ EndsInv' /\ NoNewOrphan
<1>1. PICK c \in Pids \ {p} :
        /\ files' = [files EXCEPT ![c] = files[p]]
        /\ kernel' = Loop("fork", c, p, OpenFds(p))
        /\ \A e \in Fds : files[c][e] = NULL
  BY NewChild
<1>2. UNCHANGED <<filep, allocated, pipe_per_proc>> /\ \A q, e : ~Pending(q, e)
  BY DEF do_fork, Running, Idle, Pending
<1>3. /\ \A q \in Pids, e \in Fds : files'[q][e] = IF q = c THEN files[p][e] ELSE files[q][e]
      /\ files'[c] = files[p] /\ \A q \in Pids : q # c => files'[q] = files[q]
  BY <1>1 DEF Inv, TypeOK
<1>4. \A q \in Pids, e \in Fds : Pending(q, e)' <=> q = c /\ files[p][e] # NULL
  BY <1>1 DEF Pending, Loop, OpenFds
<1>5. ASSUME NEW g \in FileIds
      PROVE  Holders(g)' = Holders(g) /\ (Orphan(g)' <=> Orphan(g))
  <2>1. \A h \in Pids \X Fds : (files'[h[1]][h[2]] = g /\ ~Pending(h[1], h[2])')
                                 <=> (files[h[1]][h[2]] = g /\ ~Pending(h[1], h[2]))
    BY <1>1, <1>2, <1>3, <1>4, NullAssumption
  <2>2. Holders(g)' = Holders(g)
    BY <2>1 DEF Holders
  <2>3. Held(g)' <=> Held(g)
    BY <1>1, <1>3, NullAssumption DEF Held
  <2> QED BY <1>2, <2>2, <2>3 DEF Orphan
<1>6. RefCountExact'
  <2> SUFFICES ASSUME NEW g \in FileIds, filep[g] # FreeFile
               PROVE  filep[g].ref_count = IF Orphan(g)' THEN 1 ELSE Cardinality(Holders(g)')
    BY <1>2 DEF RefCountExact
  <2>1. filep[g].ref_count = IF Orphan(g) THEN 1 ELSE Cardinality(Holders(g))
    BY DEF Inv, FilesInv, RefCountExact
  <2>2. Holders(g)' = Holders(g) /\ (Orphan(g)' <=> Orphan(g))
    BY <1>5
  <2> QED BY <2>1, <2>2
<1>7. FilesInv'
  <2>1. \A q \in Pids, d, e \in Fds : files'[q][d] = files'[q][e] /\ files'[q][d] # NULL => d = e
    BY <1>3 DEF Inv, FilesInv
  <2>2. \A q \in Pids, e \in Fds : files'[q][e] # NULL => filep[files'[q][e]] # FreeFile
    BY <1>3 DEF Inv, FilesInv, NoDanglingFile
  <2> QED BY <1>2, <1>6, <2>1, <2>2 DEF Inv, FilesInv, NoDanglingFile
<1>8. SlotsInv'
  BY <1>2 DEF Inv, SlotsInv, OneSlotPerProcess
<1>9. DescriptorsHaveEnds'
  <2> SUFFICES ASSUME NEW q \in Pids, NEW e \in Fds, files'[q][e] # NULL, ~Pending(q, e)'
               PROVE  \E j \in Slots : LET g == filep[files'[q][e]] IN
                        pipe_per_proc[g.pipe][j].pid = q /\ g.mode \in Ends(pipe_per_proc[g.pipe][j])
    BY <1>2 DEF DescriptorsHaveEnds
  <2>1. files'[q][e] = files[q][e]
    BY <1>3, <1>4
  <2> QED BY <1>2, <2>1 DEF Inv, EndsInv, DescriptorsHaveEnds
<1>10. EndsHaveFiles'
  <2> SUFFICES ASSUME NEW y \in PipeIds, NEW j \in Slots, NEW k \in Modes,
                      k \in Ends(pipe_per_proc[y][j])
               PROVE  \E g \in FileIds :
                        /\ filep[g] # FreeFile /\ filep[g].pipe = y /\ filep[g].mode = k
                        /\ Orphan(g)' \/ \E e \in Fds : files'[pipe_per_proc[y][j].pid][e] = g
    BY <1>2 DEF EndsHaveFiles
  <2>1. PICK q \in Pids, g \in FileIds :
          /\ q = pipe_per_proc[y][j].pid
          /\ filep[g] # FreeFile /\ filep[g].pipe = y /\ filep[g].mode = k
          /\ Orphan(g) \/ \E e \in Fds : files[q][e] = g
    BY FileOfEnd
  <2>2. \A e \in Fds : files[q][e] = g => files'[q][e] = g
    BY <1>1, <1>3, NullAssumption
  <2>3. Orphan(g)' <=> Orphan(g)
    BY <1>5
  <2> QED BY <2>1, <2>2, <2>3
<1>11. OrphanEndsOpen'
  BY <1>2, <1>5 DEF Inv, EndsInv, OrphanEndsOpen
<1> QED BY <1>5, <1>7, <1>8, <1>9, <1>10, <1>11 DEF EndsInv, NoNewOrphan

\* Slot i of pipe x, the child's or a free one, gets the ends of the parent's
\* slot j, and no other slot is changed.
EndsInherited(x, i, j, c, p) ==
  /\ pipe_per_proc[x][j].pid = p /\ pipe_per_proc[x][i].pid \in {c, NoPid}
  /\ \A k \in Slots : pipe_per_proc[x][k].pid = c => k = i
  /\ pipe_per_proc'[x][i].pid = c
  /\ Ends(pipe_per_proc'[x][i]) = Ends(pipe_per_proc[x][j])
  /\ \A y \in PipeIds, k \in Slots :
       y # x \/ k # i => pipe_per_proc'[y][k] = pipe_per_proc[y][k]

\* With enough slots the handler of a pipe finds both, and does not fail.
LEMMA ForkEffect ==
  ASSUME Inv, EnoughSlots, NEW c \in Pids, NEW p \in Pids, NEW d \in Fds, p # c,
         files[p][d] # NULL, ~Pending(p, d), NEW f, f = files[p][d],
         NEW x \in PipeIds, filep[f].pipe = x, NEW ret, do_pipe_fork(x, c, p, ret)
  PROVE  ret = 0 /\ \E i, j \in Slots : EndsInherited(x, i, j, c, p)
<1> DEFINE m == filep[f].mode
<1>1. \E j \in Slots : pipe_per_proc[x][j].pid = p /\ m \in Ends(pipe_per_proc[x][j])
  BY EndOfDescriptor
<1>2. PICK j \in Slots : pipe_per_proc[x][j].pid = p
  BY <1>1
<1>3. SlotsOf(x, p) = {j} /\ \A k \in Slots : IsSlotOf(k, x, p) => k = j
  BY <1>2, SlotUnique DEF Inv, SlotsInv, IsSlotOf, IsLowest
<1>4. ChildSlots(x, c) # {}
  BY SlotForChild DEF Inv, SlotsInv
<1>5. PICK i \in Slots :
        /\ IsLowest(i, ChildSlots(x, c)) /\ ret = 0
        /\ pipe_per_proc' = [pipe_per_proc EXCEPT ![x][i] = InheritedSlot(c, pipe_per_proc[x][j])]
  BY <1>3, <1>4 DEF do_pipe_fork
<1>6. pipe_per_proc[x][i].pid \in {c, NoPid} /\ \A k \in Slots : pipe_per_proc[x][k].pid = c => k = i
  <2>1. i \in ChildSlots(x, c)
    BY <1>5 DEF IsLowest
  <2>2. CASE SlotsOf(x, c) = {}
    BY <2>1, <2>2 DEF ChildSlots, SlotsOf
  <2>3. CASE SlotsOf(x, c) # {}
    <3>1. pipe_per_proc[x][i].pid = c
      BY <2>1, <2>3 DEF ChildSlots, SlotsOf
    <3> QED BY <3>1, ConstantFacts DEF Inv, SlotsInv, OneSlotPerProcess
  <2> QED BY <2>2, <2>3
<1>7. /\ pipe_per_proc'[x][i] = InheritedSlot(c, pipe_per_proc[x][j])
      /\ \A y \in PipeIds, k \in Slots :
           y # x \/ k # i => pipe_per_proc'[y][k] = pipe_per_proc[y][k]
  BY <1>5 DEF Inv, TypeOK
<1>8. EndsInherited(x, i, j, c, p)
  BY <1>2, <1>6, <1>7, OtherEnds DEF EndsInherited
<1> QED BY <1>5, <1>8

\* One round of do_file_fork: a pending descriptor is counted, and has its end.
LEMMA ForkRoundKeeps ==
  ASSUME Inv, EnoughSlots, do_file_fork
  PROVE  FilesInv' /\ SlotsInv' /\ EndsInv' /\ NoNewOrphan /\ kernel'.ret = 0
<1> PICK c \in Pids, p \in Pids : c = kernel.proc /\ p = kernel.parent
  BY DEF Inv, TypeOK, LoopState
<1>1. PICK d \in Fds, ret \in {0, EOTHERS} :
        /\ d \in kernel.todo
        /\ filep' = add_ref(filep, files[c][d])
        /\ do_pipe_fork(filep[files[c][d]].pipe, c, p, ret)
        /\ kernel' = [kernel EXCEPT !.todo = @ \ {d}, !.ret = ret]
  BY DEF do_file_fork, IsLowest
<1>2. /\ kernel.op = "fork" /\ p # c /\ files[c] = files[p] /\ files[c][d] # NULL
      /\ UNCHANGED <<files, allocated>>
  BY <1>1 DEF do_file_fork, Inv, LoopInv, OpenFds
<1>3. kernel'.op = "fork" /\ kernel'.proc = c /\ kernel'.todo = kernel.todo \ {d} /\ kernel'.ret = ret
  BY <1>1, <1>2 DEF Inv, TypeOK, LoopState
<1>4. \A q \in Pids, e \in Fds : /\ Pending(q, e) <=> q = c /\ e \in kernel.todo
                                 /\ Pending(q, e)' <=> q = c /\ e \in kernel.todo \ {d}
  BY <1>2, <1>3 DEF Pending
<1>5. files[p][d] # NULL /\ ~Pending(p, d)
  BY <1>2, <1>4
<1> PICK f \in FileIds, x \in PipeIds, m \in Modes :
      f = files[p][d] /\ filep[f].pipe = x /\ filep[f].mode = m /\ filep[f] # FreeFile
  BY <1>5, FileOfDescriptor
<1>6. files[c][d] = f
  BY <1>2
<1>7. do_pipe_fork(x, c, p, ret)
  BY <1>1, <1>6
<1>8. ret = 0 /\ \E i, j \in Slots : EndsInherited(x, i, j, c, p)
  BY <1>2, <1>5, <1>7, ForkEffect
<1> PICK i \in Slots, j \in Slots : EndsInherited(x, i, j, c, p)
  BY <1>8
<1>9. /\ filep'[f] = [filep[f] EXCEPT !.ref_count = @ + 1]
      /\ \A g \in FileIds \ {f} : filep'[g] = filep[g]
  BY <1>1, <1>6 DEF add_ref, Inv, TypeOK
<1>10. /\ filep'[f].pipe = x /\ filep'[f].mode = m /\ filep'[f] # FreeFile
       /\ filep'[f].ref_count = filep[f].ref_count + 1
  <2>1. filep'[f].pipe = x /\ filep'[f].mode = m /\ filep'[f].ref_count = filep[f].ref_count + 1
    BY <1>9 DEF Inv, TypeOK, File
  <2> QED BY <2>1, NullAssumption DEF FreeFile
<1>11. \A g \in FileIds : /\ filep'[g] # FreeFile <=> filep[g] # FreeFile
                          /\ filep'[g].pipe = filep[g].pipe /\ filep'[g].mode = filep[g].mode
  BY <1>9, <1>10
<1>12. \A g \in FileIds : Orphan(g)' <=> Orphan(g)
  BY <1>2, <1>11 DEF Orphan, Held
<1>13. /\ <<c, d>> \notin Holders(f) /\ Holders(f)' = Holders(f) \cup {<<c, d>>}
       /\ \A g \in FileIds \ {f} : Holders(g)' = Holders(g)
  <2>1. \A h \in Pids \X Fds : Pending(h[1], h[2]) <=> Pending(h[1], h[2])' \/ h = <<c, d>>
    BY <1>1, <1>4
  <2>2. ~Pending(c, d)' /\ Pending(c, d)
    BY <1>1, <1>4
  <2>3. /\ <<c, d>> \in Pids \X Fds /\ files[<<c, d>>[1]][<<c, d>>[2]] = f
        /\ ~Pending(<<c, d>>[1], <<c, d>>[2])'
    BY <1>6, <2>2
  <2>4. <<c, d>> \notin Holders(f)
    BY <2>2 DEF Holders
  <2>5. Holders(f)' = Holders(f) \cup {<<c, d>>}
    BY <1>2, <2>1, <2>3 DEF Holders
  <2>6. ASSUME NEW g \in FileIds \ {f} PROVE Holders(g)' = Holders(g)
    <3>1. \A h \in Pids \X Fds : files[h[1]][h[2]] = g => h # <<c, d>>
      BY <1>6
    <3> QED BY <1>2, <2>1, <3>1 DEF Holders
  <2> QED BY <2>4, <2>5, <2>6
<1>14. RefCountExact'
  <2> SUFFICES ASSUME NEW g \in FileIds, filep'[g] # FreeFile
               PROVE  filep'[g].ref_count = IF Orphan(g)' THEN 1 ELSE Cardinality(Holders(g)')
    BY DEF RefCountExact
  <2>1. filep[g].ref_count = IF Orphan(g) THEN 1 ELSE Cardinality(Holders(g))
    BY <1>11 DEF Inv, FilesInv, RefCountExact
  <2>2. CASE g = f
    <3>1. ~Orphan(f)
      BY DEF Orphan, Held
    <3>2. Cardinality(Holders(f)') = Cardinality(Holders(f)) + 1
      BY <1>13, HoldersExact
    <3> QED BY <1>10, <1>12, <2>1, <2>2, <3>1, <3>2
  <2>3. CASE g # f
    <3>1. filep'[g] = filep[g] /\ Holders(g)' = Holders(g) /\ (Orphan(g)' <=> Orphan(g))
      BY <1>9, <1>12, <1>13, <2>3
    <3> QED BY <2>1, <3>1
  <2> QED BY <2>2, <2>3
<1>15. FilesInv'
  <2>1. \A q \in Pids, e \in Fds : files[q][e] # NULL => filep'[files[q][e]] # FreeFile
    BY <1>11 DEF Inv, FilesInv, NoDanglingFile, TypeOK
  <2>2. \A g \in FileIds : filep'[g] # FreeFile => filep'[g].pipe \in allocated
    BY <1>11 DEF Inv, FilesInv
  <2>3. \A g, h \in FileIds :
          filep'[g] # FreeFile /\ filep'[h] # FreeFile
            /\ filep'[g].pipe = filep'[h].pipe /\ filep'[g].mode = filep'[h].mode => g = h
    BY <1>11 DEF Inv, FilesInv
  <2>4. \A q \in Pids, k, e \in Fds : files[q][k] = files[q][e] /\ files[q][k] # NULL => k = e
    BY DEF Inv, FilesInv
  <2> QED BY <1>2, <1>14, <2>1, <2>2, <2>3, <2>4 DEF FilesInv, NoDanglingFile
<1>16. SlotsInv'
  <2>1. OneSlotPerProcess'
    BY ConstantFacts DEF Inv, SlotsInv, OneSlotPerProcess, EndsInherited
  <2>2. ASSUME NEW y \in PipeIds, NEW k \in Slots
        PROVE  pipe_per_proc'[y][k].pid = NoPid <=> Ends(pipe_per_proc'[y][k]) = {}
    <3>1. \A z \in PipeIds, l \in Slots : pipe_per_proc[z][l].pid = NoPid <=> Ends(pipe_per_proc[z][l]) = {}
      BY DEF Inv, SlotsInv
    <3>2. CASE y = x /\ k = i
      BY <3>1, <3>2, ConstantFacts DEF EndsInherited
    <3>3. CASE y # x \/ k # i
      BY <3>1, <3>3 DEF EndsInherited
    <3> QED BY <3>2, <3>3
  <2> QED BY <2>1, <2>2 DEF SlotsInv
<1>17. DescriptorsHaveEnds'
  <2> SUFFICES ASSUME NEW q \in Pids, NEW e \in Fds, files[q][e] # NULL, ~Pending(q, e)'
               PROVE  \E k \in Slots : LET g == filep'[files[q][e]] IN
                        pipe_per_proc'[g.pipe][k].pid = q /\ g.mode \in Ends(pipe_per_proc'[g.pipe][k])
    BY <1>2 DEF DescriptorsHaveEnds
  <2> PICK g \in FileIds, y \in PipeIds, n \in Modes :
        g = files[q][e] /\ filep[g].pipe = y /\ filep[g].mode = n
    BY FileOfDescriptor
  <2>1. filep'[g].pipe = y /\ filep'[g].mode = n
    BY <1>11
  <2>2. CASE q = c /\ y = x
    <3>1. files[p][e] = g /\ files[p][e] # NULL
      BY <1>2, <2>2
    <3>2. ~Pending(p, e)
      BY <1>2, <1>4
    <3>3. PICK k \in Slots : pipe_per_proc[y][k].pid = p /\ n \in Ends(pipe_per_proc[y][k])
      BY <3>1, <3>2, EndOfDescriptor
    <3>4. k = j
      BY <2>2, <3>3, ConstantFacts DEF Inv, SlotsInv, OneSlotPerProcess, EndsInherited
    <3> QED BY <2>1, <2>2, <3>3, <3>4 DEF EndsInherited
  <2>3. CASE q # c \/ y # x
    <3>1. ~Pending(q, e)
      <4>1. CASE q = c /\ e = d
        BY <1>6, <2>3, <4>1
      <4>2. CASE q # c \/ e # d
        BY <1>4, <4>2
      <4> QED BY <4>1, <4>2
    <3>2. PICK k \in Slots : pipe_per_proc[y][k].pid = q /\ n \in Ends(pipe_per_proc[y][k])
      BY <3>1, EndOfDescriptor
    <3>3. y # x \/ k # i
      BY <2>3, <3>2, ConstantFacts DEF EndsInherited
    <3> QED BY <2>1, <3>2, <3>3 DEF EndsInherited
  <2> QED BY <2>2, <2>3
<1>18. EndsHaveFiles'
  <2> SUFFICES ASSUME NEW y \in PipeIds, NEW k \in Slots, NEW n \in Modes,
                      n \in Ends(pipe_per_proc'[y][k])
               PROVE  \E g \in FileIds :
                        /\ filep'[g] # FreeFile /\ filep'[g].pipe = y /\ filep'[g].mode = n
                        /\ Orphan(g)' \/ \E e \in Fds : files[pipe_per_proc'[y][k].pid][e] = g
    BY <1>2 DEF EndsHaveFiles
  <2>1. CASE y = x /\ k = i
    <3>1. n \in Ends(pipe_per_proc[x][j]) /\ pipe_per_proc'[y][k].pid = c /\ pipe_per_proc[x][j].pid = p
      BY <2>1 DEF EndsInherited
    <3>2. PICK g \in FileIds :
            /\ filep[g] # FreeFile /\ filep[g].pipe = x /\ filep[g].mode = n
            /\ Orphan(g) \/ \E e \in Fds : files[p][e] = g
      BY <3>1, FileOfEnd
    <3>3. \A e \in Fds : files[p][e] = g => files[c][e] = g
      BY <1>2
    <3> QED BY <1>11, <1>12, <2>1, <3>1, <3>2, <3>3
  <2>2. CASE y # x \/ k # i
    <3>1. pipe_per_proc'[y][k] = pipe_per_proc[y][k]
      BY <2>2 DEF EndsInherited
    <3>2. PICK q \in Pids, g \in FileIds :
            /\ q = pipe_per_proc[y][k].pid
            /\ filep[g] # FreeFile /\ filep[g].pipe = y /\ filep[g].mode = n
            /\ Orphan(g) \/ \E e \in Fds : files[q][e] = g
      BY <3>1, FileOfEnd
    <3> QED BY <1>11, <1>12, <3>1, <3>2
  <2> QED BY <2>1, <2>2
<1>19. OrphanEndsOpen'
  <2> SUFFICES ASSUME NEW g \in FileIds, Orphan(g)
               PROVE  LET y == filep'[g].pipe IN
                      /\ \E k \in Slots : pipe_per_proc'[y][k].pid # NoPid
                      /\ \A k \in Slots : pipe_per_proc'[y][k].pid # NoPid
                                            => filep'[g].mode \in Ends(pipe_per_proc'[y][k])
    BY <1>12 DEF OrphanEndsOpen
  <2>1. /\ \E k \in Slots : pipe_per_proc[filep[g].pipe][k].pid # NoPid
        /\ \A k \in Slots : pipe_per_proc[filep[g].pipe][k].pid # NoPid
                              => filep[g].mode \in Ends(pipe_per_proc[filep[g].pipe][k])
    BY DEF Inv, EndsInv, OrphanEndsOpen
  <2> PICK y \in PipeIds, n \in Modes : filep[g].pipe = y /\ filep[g].mode = n
    BY DEF Orphan, Inv, FilesInv, TypeOK, File, Modes
  <2>2. filep'[g].pipe = y /\ filep'[g].mode = n
    BY <1>11
  <2>3. CASE y # x
    BY <2>1, <2>2, <2>3 DEF EndsInherited
  <2>4. CASE y = x
    <3>1. n \in Ends(pipe_per_proc[x][j])
      BY <2>1, <2>4, ConstantFacts DEF EndsInherited
    <3>2. pipe_per_proc'[x][i].pid # NoPid /\ n \in Ends(pipe_per_proc'[x][i])
      BY <3>1, ConstantFacts DEF EndsInherited
    <3>3. \A k \in Slots : pipe_per_proc'[x][k].pid # NoPid => n \in Ends(pipe_per_proc'[x][k])
      BY <2>1, <2>4, <3>2 DEF EndsInherited
    <3> QED BY <2>2, <2>4, <3>2, <3>3
  <2> QED BY <2>3, <2>4
<1> QED BY <1>3, <1>8, <1>12, <1>15, <1>16, <1>17, <1>18, <1>19 DEF EndsInv, NoNewOrphan

-----------------------------------------------------------------------------
\* The invariant.

\* With all descriptors closed, nothing is allocated and no slot is in use.
LEMMA InitInv == Init => Inv
<1> SUFFICES ASSUME Init PROVE Inv
  OBVIOUS
<1> USE DEF Init
<1>1. \A x \in PipeIds, i \in Slots :
        pipe_per_proc[x][i].pid = NoPid /\ Ends(pipe_per_proc[x][i]) = {}
  BY OtherEnds
<1>2. /\ \A f \in FileIds : filep[f] = FreeFile /\ ~Orphan(f)
      /\ \A p \in Pids, d \in Fds : files[p][d] = NULL
  BY DEF Orphan
<1>3. FilesInv
  BY <1>2 DEF FilesInv, NoDanglingFile, RefCountExact
<1>4. SlotsInv
  BY <1>1 DEF SlotsInv, OneSlotPerProcess
<1>5. EndsInv
  BY <1>1, <1>2 DEF EndsInv, DescriptorsHaveEnds, EndsHaveFiles, OrphanEndsOpen
<1>6. LoopInv
  BY <1>2 DEF LoopInv, Idle, OpenFds
<1> QED BY <1>3, <1>4, <1>5, <1>6, InitTypeOK DEF Inv

\* Every step of a program that does not duplicate descriptors keeps it.
LEMMA NextInv == EnoughSlots /\ Inv /\ [Next]_vars => Inv'
<1> SUFFICES ASSUME EnoughSlots, Inv, [Next]_vars
             PROVE  FilesInv' /\ SlotsInv' /\ EndsInv' /\ LoopInv'
  BY NextTypeOK DEF Inv
<1> DEFINE Goal == FilesInv' /\ SlotsInv' /\ EndsInv' /\ LoopInv'
<1>1. /\ files \in [Pids -> [Fds -> FileIds \cup {NULL}]] /\ alive \subseteq Pids
      /\ kernel \in LoopState /\ LoopInv
  BY DEF Inv, TypeOK
<1>2. ASSUME UNCHANGED <<alive, files, filep, allocated, pipe_per_proc, kernel>> PROVE Goal
  <2>1. FilesInv' /\ SlotsInv' /\ EndsInv'
    BY <1>2, SameTables DEF Pending
  <2>2. LoopInv'
    BY <1>1, <1>2 DEF LoopInv, OpenFds
  <2> QED BY <2>1, <2>2
<1>3. ASSUME NEW p \in Pids, create_pipe(p) PROVE Goal
  <2>1. FilesInv' /\ SlotsInv' /\ EndsInv'
    BY <1>3, CreateKeeps
  <2>2. \A q \in Pids \ {p} : files'[q] = files[q]
    BY <1>1, <1>3 DEF create_pipe, InstallEnds
  <2>3. p \in alive /\ UNCHANGED <<alive, kernel>> /\ kernel = Idle
    BY <1>3 DEF create_pipe, Running
  <2>4. LoopInv'
    BY <1>1, <2>2, <2>3 DEF LoopInv, Idle, OpenFds
  <2> QED BY <2>1, <2>4
<1>4. ASSUME NEW p \in Pids, NEW d \in Fds, do_close(p, d) PROVE Goal
  <2>1. kernel = Idle /\ p \in alive /\ UNCHANGED <<alive, kernel>>
    BY <1>4 DEF do_close, Running
  <2>2. kernel.op # "fork" /\ kernel'.op # "fork"
    BY <2>1 DEF Idle
  <2>3. FilesInv' /\ SlotsInv' /\ EndsInv'
    BY <1>4, <2>2, CloseKeeps DEF do_close
  <2>4. \A q \in Pids \ {p} : files'[q] = files[q]
    BY <1>1, <1>4 DEF do_close
  <2>5. LoopInv'
    BY <1>1, <2>1, <2>4 DEF LoopInv, Idle, OpenFds
  <2> QED BY <2>3, <2>5
<1>5. ASSUME NEW p \in Pids, do_exit(p) PROVE Goal
  <2>1. /\ kernel = Idle /\ p \in alive /\ kernel' = Loop("exit", p, p, OpenFds(p))
        /\ UNCHANGED <<alive, files, filep, allocated, pipe_per_proc>>
    BY <1>5 DEF do_exit, Running
  <2>2. FilesInv' /\ SlotsInv' /\ EndsInv'
    BY <2>1, SameTables DEF Pending, Idle, Loop
  <2>3. LoopInv'
    BY <1>1, <2>1 DEF LoopInv, Loop, OpenFds
  <2> QED BY <2>2, <2>3
<1>6. CASE do_file_exit
  <2> PICK p \in Pids : p = kernel.proc
    BY <1>1 DEF LoopState
  <2>1. PICK d \in Fds :
          /\ d \in kernel.todo
          /\ pipe_close(p, files[p][d], filep')
          /\ files' = [files EXCEPT ![p][d] = NULL]
          /\ kernel' = [kernel EXCEPT !.todo = @ \ {d}]
    BY <1>6 DEF do_file_exit, IsLowest
  <2>2. kernel.op = "exit" /\ p \in alive /\ kernel.todo = OpenFds(p) /\ alive' = alive
    BY <1>1, <1>6 DEF do_file_exit, LoopInv
  <2>3. kernel'.op = "exit" /\ kernel'.proc = p /\ kernel'.todo = kernel.todo \ {d} /\ kernel'.ret = kernel.ret
    BY <1>1, <2>1, <2>2 DEF LoopState
  <2>4. files[p][d] # NULL /\ kernel.op # "fork" /\ kernel'.op # "fork"
    BY <2>1, <2>2, <2>3 DEF OpenFds
  <2>5. FilesInv' /\ SlotsInv' /\ EndsInv'
    BY <2>1, <2>4, CloseKeeps
  <2>6. OpenFds(p)' = OpenFds(p) \ {d} /\ \A q \in Pids \ {p} : files'[q] = files[q]
    BY <1>1, <2>1 DEF OpenFds
  <2>7. LoopInv'
    BY <1>1, <2>2, <2>3, <2>6 DEF LoopInv, OpenFds
  <2> QED BY <2>5, <2>7
<1>7. CASE ExitReturn
  <2>1. /\ kernel.op = "exit" /\ kernel.todo = {} /\ alive' = alive \ {kernel.proc} /\ kernel' = Idle
        /\ UNCHANGED <<files, filep, allocated, pipe_per_proc>>
    BY <1>7 DEF ExitReturn
  <2>2. FilesInv' /\ SlotsInv' /\ EndsInv'
    BY <2>1, SameTables DEF Pending, Idle
  <2>3. LoopInv'
    BY <1>1, <2>1 DEF LoopInv, Idle, OpenFds
  <2> QED BY <2>2, <2>3
<1>8. ASSUME NEW p \in Pids, do_fork(p) PROVE Goal
  <2>1. PICK c \in Pids \ {p} :
          /\ p \in alive /\ c \notin alive /\ alive' = alive \cup {c}
          /\ files' = [files EXCEPT ![c] = files[p]]
          /\ kernel' = Loop("fork", c, p, OpenFds(p))
    BY <1>8, NewChild
  <2>2. FilesInv' /\ SlotsInv' /\ EndsInv'
    BY <1>8, ForkStartKeeps
  <2>3. files'[c] = files[p] /\ \A q \in Pids \ {c} : files'[q] = files[q]
    BY <1>1, <2>1
  <2>4. LoopInv'
    BY <1>1, <2>1, <2>3 DEF LoopInv, Loop, OpenFds
  <2> QED BY <2>2, <2>4
<1>9. CASE do_file_fork
  <2>1. FilesInv' /\ SlotsInv' /\ EndsInv' /\ kernel'.ret = 0
    BY <1>9, ForkRoundKeeps
  <2>2. /\ kernel.op = "fork" /\ kernel'.op = "fork" /\ UNCHANGED <<alive, files>>
        /\ kernel'.proc = kernel.proc /\ kernel'.parent = kernel.parent
        /\ kernel'.todo \subseteq kernel.todo
    BY <1>1, <1>9 DEF do_file_fork, LoopState
  <2>3. LoopInv'
    BY <1>1, <2>1, <2>2 DEF LoopInv, OpenFds
  <2> QED BY <2>1, <2>3
<1>10. CASE ForkReturn
  <2>1. /\ kernel.op = "fork" /\ kernel.todo = {} /\ kernel' = Idle
        /\ UNCHANGED <<alive, files, filep, allocated, pipe_per_proc>>
    BY <1>10 DEF ForkReturn
  <2>2. FilesInv' /\ SlotsInv' /\ EndsInv'
    BY <2>1, SameTables DEF Pending, Idle
  <2>3. LoopInv'
    BY <1>1, <2>1 DEF LoopInv, Idle, OpenFds
  <2> QED BY <2>2, <2>3
<1>11. ASSUME NEW p \in Pids, Transfer(p) PROVE Goal
  BY <1>2, <1>11 DEF Transfer, Rejected, BadBuffer, pipe_read, pipe_write, vars
<1>12. CASE UNCHANGED vars
  BY <1>2, <1>12 DEF vars
<1> QED
  BY <1>3, <1>4, <1>5, <1>6, <1>7, <1>8, <1>9, <1>10, <1>11, <1>12 DEF Next, KernelLoop

\* Only a create_pipe that ran out of descriptors loses a file object.
LEMMA CreateLeak ==
  ASSUME Inv, NEW p \in Pids, create_pipe(p), NEW g \in FileIds, Orphan(g)', ~Orphan(g)
  PROVE  Cardinality(FreeFds(p)) < 2
<1>1. PICK f0 \in FileIds, f1 \in FileIds, x \in PipeIds :
        /\ f0 # f1 /\ InstallEnds(p, f0, f1)
        /\ filep' = [filep EXCEPT ![f0] = PipeFile(O_READ, x), ![f1] = PipeFile(O_WRITE, x)]
  BY DEF create_pipe
<1>2. /\ files \in [Pids -> [Fds -> FileIds \cup {NULL}]]
      /\ \A h \in FileIds \ {f0, f1} : filep'[h] = filep[h]
  BY <1>1 DEF Inv, TypeOK
<1>3. \A q \in Pids, e \in Fds : files'[q][e] # files[q][e] =>
        q = p /\ files[q][e] = NULL /\ files'[q][e] \in {f0, f1}
  BY <1>1, InstallEffect DEF Inv
<1>4. g \in {f0, f1}
  <2> SUFFICES ASSUME g \notin {f0, f1} PROVE FALSE
    OBVIOUS
  <2>1. \A q \in Pids, e \in Fds : files[q][e] = g => files'[q][e] = g
    BY <1>3, NullAssumption
  <2> QED BY <1>2, <2>1 DEF Orphan, Held
<1>5. CASE FreeFds(p) = {}
  BY <1>5, FS_EmptySet
<1>6. ASSUME NEW d0, FreeFds(p) = {d0} PROVE Cardinality(FreeFds(p)) < 2
  <2>1. Cardinality({d0}) = 1
    BY FS_Singleton
  <2> QED BY <1>6, <2>1
<1>7. ASSUME NEW d0 \in Fds, NEW d1 \in Fds, d0 # d1,
             files' = [files EXCEPT ![p][d0] = f0, ![p][d1] = f1]
      PROVE  FALSE
  <2>1. files'[p][d0] = f0 /\ files'[p][d1] = f1
    BY <1>2, <1>7
  <2> QED BY <1>4, <2>1 DEF Orphan, Held
<1> QED BY <1>1, <1>5, <1>6, <1>7 DEF InstallEnds, FreeFds, IsLowest

LEMMA NextLeak ==
  ASSUME EnoughSlots, Inv, Next, NEW g \in FileIds, Orphan(g)', ~Orphan(g)
  PROVE  \E p \in Pids : create_pipe(p) /\ Cardinality(FreeFds(p)) < 2
<1>1. ~NoNewOrphan
  BY DEF NoNewOrphan
<1>2. ASSUME NEW p \in Pids, create_pipe(p)
      PROVE  Cardinality(FreeFds(p)) < 2
  BY <1>2, CreateLeak
<1>3. ASSUME NEW p \in Pids, NEW d \in Fds, do_close(p, d) PROVE FALSE
  <2>1. kernel.op # "fork" /\ kernel'.op # "fork"
    BY <1>3 DEF do_close, Running, Idle
  <2> QED BY <1>1, <1>3, <2>1, CloseKeeps DEF do_close
<1>4. ASSUME do_file_exit PROVE FALSE
  <2> PICK p \in Pids : p = kernel.proc
    BY DEF Inv, TypeOK, LoopState
  <2>1. PICK d \in Fds :
          /\ d \in kernel.todo
          /\ pipe_close(p, files[p][d], filep')
          /\ files' = [files EXCEPT ![p][d] = NULL]
          /\ kernel' = [kernel EXCEPT !.todo = @ \ {d}]
    BY <1>4 DEF do_file_exit, IsLowest
  <2>2. files[p][d] # NULL /\ kernel.op # "fork" /\ kernel'.op # "fork"
    BY <1>4, <2>1 DEF do_file_exit, Inv, TypeOK, LoopInv, LoopState, OpenFds
  <2> QED BY <1>1, <2>1, <2>2, CloseKeeps
<1>5. ASSUME NEW p \in Pids, do_fork(p) PROVE FALSE
  BY <1>1, <1>5, ForkStartKeeps
<1>6. ASSUME do_file_fork PROVE FALSE
  BY <1>1, <1>6, ForkRoundKeeps
<1>7. ~UNCHANGED <<files, filep>>
  BY DEF Orphan, Held
<1>8. ASSUME NEW p \in Pids, Transfer(p) PROVE UNCHANGED <<files, filep>>
  BY <1>8 DEF Transfer, Rejected, BadBuffer, pipe_read, pipe_write, vars
<1>9. /\ ExitReturn \/ ForkReturn => UNCHANGED <<files, filep>>
      /\ \A p \in Pids : do_exit(p) => UNCHANGED <<files, filep>>
  BY DEF ExitReturn, ForkReturn, do_exit
<1> QED BY <1>2, <1>3, <1>4, <1>5, <1>6, <1>7, <1>8, <1>9 DEF Next, KernelLoop

-----------------------------------------------------------------------------
\* The theorems, for all programs that do not duplicate descriptors.

LEMMA Inductive == ASSUME EnoughSlots PROVE Spec => []Inv
<1>1. Inv /\ [Next]_vars => Inv'
  BY NextInv
<1> QED BY <1>1, InitInv, PTL DEF Spec

\* ref_count is the number of descriptors that refer to the file object, in all
\* processes, so that a file object goes with the last of them.
THEOREM RefCountsExact == ASSUME EnoughSlots PROVE Spec => []RefCountExact
<1>1. Inv => RefCountExact
  BY DEF Inv, FilesInv
<1> QED BY <1>1, Inductive, PTL

\* A pipe is never removed while a process has a descriptor for it.
THEOREM PipesOutliveDescriptors == ASSUME EnoughSlots PROVE Spec => []PipeOutlivesDescriptors
<1>1. Inv => PipeOutlivesDescriptors
  BY FileOfDescriptor DEF PipeOutlivesDescriptors
<1> QED BY <1>1, Inductive, PTL

\* An open end is that of a descriptor, or of a creation that failed.
THEOREM SlotsHaveDescriptors == ASSUME EnoughSlots PROVE Spec => []SlotHasDescriptor
<1>1. ASSUME Inv, NEW x \in allocated, NEW i \in Slots, NEW m \in {O_READ, O_WRITE},
             EndOpen(pipe_per_proc[x][i], m)
      PROVE  \/ \E f \in FileIds : Orphan(f) /\ filep[f].pipe = x /\ filep[f].mode = m
             \/ \E d \in Fds : LET p == pipe_per_proc[x][i].pid IN
                  files[p][d] # NULL /\ filep[files[p][d]].pipe = x /\ filep[files[p][d]].mode = m
  <2>1. x \in PipeIds /\ m \in Modes /\ m \in Ends(pipe_per_proc[x][i])
    BY <1>1 DEF Inv, TypeOK, Modes, Ends
  <2>2. PICK q \in Pids, g \in FileIds :
          /\ q = pipe_per_proc[x][i].pid
          /\ filep[g] # FreeFile /\ filep[g].pipe = x /\ filep[g].mode = m
          /\ Orphan(g) \/ \E d \in Fds : files[q][d] = g
    BY <1>1, <2>1, FileOfEnd
  <2> QED BY <2>2, NullAssumption
<1>2. Inv => SlotHasDescriptor
  BY <1>1 DEF SlotHasDescriptor
<1> QED BY <1>2, Inductive, PTL

\* Every read, write and close of an open descriptor finds its process's slot,
\* and the end open.
THEOREM DescriptorEndsOpen == ASSUME EnoughSlots PROVE Spec => []DescriptorEndOpen
<1>1. ASSUME Inv, NEW p \in alive, NEW d \in Fds, files[p][d] # NULL, ~Pending(p, d)
      PROVE  \E i \in Slots : LET f == filep[files[p][d]] IN
               IsSlotOf(i, f.pipe, p) /\ EndOpen(pipe_per_proc[f.pipe][i], f.mode)
  <2>1. p \in Pids
    BY <1>1 DEF Inv, TypeOK
  <2> PICK f \in FileIds, x \in PipeIds, m \in Modes :
        f = files[p][d] /\ filep[f].pipe = x /\ filep[f].mode = m
    BY <1>1, <2>1, FileOfDescriptor
  <2>2. PICK i \in Slots : pipe_per_proc[x][i].pid = p /\ m \in Ends(pipe_per_proc[x][i])
    BY <1>1, <2>1, EndOfDescriptor
  <2>3. IsSlotOf(i, x, p)
    BY <1>1, <2>1, <2>2, SlotUnique DEF Inv, SlotsInv
  <2>4. EndOpen(pipe_per_proc[x][i], m)
    BY <2>2 DEF Ends
  <2> QED BY <2>3, <2>4
<1>2. Inv => DescriptorEndOpen
  BY <1>1 DEF DescriptorEndOpen
<1> QED BY <1>2, Inductive, PTL

\* No process ever has two slots in a pipe, and no slot is given twice.
THEOREM SlotsUnique == ASSUME EnoughSlots PROVE Spec => []OneSlotPerProcess
<1>1. Inv => OneSlotPerProcess
  BY DEF Inv, SlotsInv
<1> QED BY <1>1, Inductive, PTL

\* No fork of a process with pipe ends fails.
THEOREM ForksSucceed == ASSUME EnoughSlots PROVE Spec => []ForkNeverFails
<1>1. Inv => ForkNeverFails
  BY DEF Inv, LoopInv, ForkNeverFails
<1> QED BY <1>1, Inductive, PTL

\* A step that leaves a file object without a descriptor is a create_pipe, of a
\* process with fewer than two free descriptors: no close, exit or fork does.
THEOREM OnlyCreatesLeak == ASSUME EnoughSlots PROVE Spec => OnlyCreateLeaks
<1>1. Inv /\ [Next]_vars =>
        [\A f \in FileIds : Orphan(f)' /\ ~Orphan(f) =>
           \E p \in Pids : create_pipe(p) /\ Cardinality(FreeFds(p)) < 2]_vars
  BY NextLeak
<1> QED BY <1>1, Inductive, PTL DEF Spec, OnlyCreateLeaks

-----------------------------------------------------------------------------
\* Pipes implement the channels of FifoChannel.

\* The abstract state, as functions of the slots and of the global records.
EndsOf(slots) == {e \in Pids \X Modes : \E i \in Slots : slots[i].pid = e[1] /\ e[2] \in Ends(slots[i])}
ContentsOf(g) == CyclicRead(g.buff, g.read_pos, g.buff_len, MAX_PIPE_SIZE)
EndsMap(table) == [x \in PipeIds |-> EndsOf(table[x])]
Inherited(held, p, c) == {<<c, k>> : k \in {k \in Modes : <<p, k>> \in held}}
ChanMap(live, records) == [x \in PipeIds |-> IF x \in live THEN ContentsOf(records[x]) ELSE << >>]

LEMMA MappedState ==
  /\ [x \in PipeIds |-> OpenEnds(x)] = EndsMap(pipe_per_proc)
  /\ [x \in PipeIds |-> OpenEnds(x)]' = EndsMap(pipe_per_proc')
  /\ [x \in PipeIds |-> IF x \in allocated THEN Contents(x) ELSE << >>] = ChanMap(allocated, pipe_global)
  /\ [x \in PipeIds |-> IF x \in allocated THEN Contents(x) ELSE << >>]'
       = ChanMap(allocated', pipe_global')
<1>1. \A slots, m : /\ EndOpen(slots, m) /\ m \in Modes <=> m \in Ends(slots)
  BY DEF Ends
<1>2. \A x \in PipeIds : OpenEnds(x) = EndsOf(pipe_per_proc[x])
  BY <1>1 DEF OpenEnds, EndsOf, Modes
<1>3. [x \in PipeIds |-> OpenEnds(x)]' = EndsMap(pipe_per_proc')
  BY <1>1 DEF OpenEnds, EndsOf, Modes, EndsMap
<1> QED BY <1>2, <1>3 DEF EndsMap, ChanMap, Contents, ContentsOf

LEMMA AsClose ==
  ASSUME NEW x \in PipeIds, NEW p \in Pids, NEW m \in Modes,
         <<p, m>> \in EndsMap(pipe_per_proc)[x],
         EndsMap(pipe_per_proc') = [EndsMap(pipe_per_proc) EXCEPT ![x] = @ \ {<<p, m>>}],
         IF EndsMap(pipe_per_proc')[x] = {}
           THEN allocated' = allocated \ {x}
                /\ ChanMap(allocated', pipe_global') = [ChanMap(allocated, pipe_global) EXCEPT ![x] = << >>]
           ELSE UNCHANGED allocated /\ ChanMap(allocated', pipe_global') = ChanMap(allocated, pipe_global),
         UNCHANGED user
  PROVE  Channel!Close(x, p, m)
  BY MappedState DEF Channel!Close

LEMMA AsOpen ==
  ASSUME NEW x \in PipeIds \ allocated, NEW p \in Pids, allocated' = allocated \cup {x},
         EndsMap(pipe_per_proc') = [EndsMap(pipe_per_proc) EXCEPT ![x] = {p} \X Modes],
         ChanMap(allocated', pipe_global') = [ChanMap(allocated, pipe_global) EXCEPT ![x] = << >>],
         UNCHANGED user
  PROVE  Channel!Open(x, p)
  BY MappedState DEF Channel!Open, Modes

LEMMA AsInherit ==
  ASSUME NEW x \in PipeIds, NEW p \in Pids, NEW c \in Pids, p # c,
         NEW m \in Modes, <<p, m>> \in EndsMap(pipe_per_proc)[x],
         NEW held, held = EndsMap(pipe_per_proc)[x],
         EndsMap(pipe_per_proc') = [EndsMap(pipe_per_proc) EXCEPT ![x] = held \cup Inherited(held, p, c)],
         UNCHANGED <<allocated, user>>, ChanMap(allocated', pipe_global') = ChanMap(allocated, pipe_global)
  PROVE  Channel!Inherit(x, p, c)
  BY MappedState DEF Channel!Inherit, Modes, Inherited

LEMMA AsReceive ==
  ASSUME NEW x \in PipeIds, NEW p \in Pids, NEW m \in Modes, <<p, m>> \in EndsMap(pipe_per_proc)[x],
         NEW count, NEW s, s = ChanMap(allocated, pipe_global)[x],
         NEW n, n = IF count <= Len(s) THEN count ELSE Len(s),
         user' = SubSeq(s, 1, n),
         ChanMap(allocated', pipe_global')
           = [ChanMap(allocated, pipe_global) EXCEPT ![x] = SubSeq(@, n + 1, Len(@))],
         UNCHANGED allocated, EndsMap(pipe_per_proc') = EndsMap(pipe_per_proc)
  PROVE  Channel!Receive(x, p, m, count)
  BY MappedState DEF Channel!Receive

LEMMA AsSend ==
  ASSUME NEW x \in PipeIds, NEW p \in Pids, NEW m \in Modes, <<p, m>> \in EndsMap(pipe_per_proc)[x],
         NEW data, NEW count, NEW n,
         n = LET room == MAX_PIPE_SIZE - Len(ChanMap(allocated, pipe_global)[x])
             IN IF count <= room THEN count ELSE room,
         user' = SubSeq(data, 1, n),
         ChanMap(allocated', pipe_global')
           = [ChanMap(allocated, pipe_global) EXCEPT ![x] = @ \o user'],
         UNCHANGED allocated, EndsMap(pipe_per_proc') = EndsMap(pipe_per_proc)
  PROVE  Channel!Send(x, p, m, data, count)
  BY MappedState DEF Channel!Send

\* A step that changes neither slots, pages, records nor the user's bytes.
LEMMA AsStutter ==
  ASSUME UNCHANGED <<allocated, pipe_per_proc, pipe_global, user>>
  PROVE  UNCHANGED Channel!vars
  BY MappedState DEF Channel!vars

\* Closing a descriptor closes one end; the pipe goes with the last.
LEMMA CloseSimulates ==
  ASSUME Inv, Inv', kernel.op # "fork", NEW p \in Pids, NEW d \in Fds, files[p][d] # NULL,
         pipe_close(p, files[p][d], filep'), UNCHANGED <<pipe_global, user>>
  PROVE  \E x \in PipeIds, m \in Modes : Channel!Close(x, p, m)
<1> PICK f \in FileIds, x \in PipeIds, m \in Modes :
      /\ f = files[p][d] /\ filep[f].pipe = x /\ filep[f].mode = m /\ x \in allocated
  BY FileOfDescriptor
<1>1. pipe_close(p, f, filep')
  OBVIOUS
<1> PICK i \in Slots : EndClosed(x, i, p, m)
  BY <1>1, CloseEffect
<1>2. allocated' = IF \A j \in Slots : pipe_per_proc'[x][j].pid = NoPid
                   THEN allocated \ {x} ELSE allocated
  BY <1>1, CloseEffect
<1>3. <<p, m>> \in EndsOf(pipe_per_proc[x])
  BY DEF EndsOf, EndClosed
<1>4. EndsOf(pipe_per_proc'[x]) = EndsOf(pipe_per_proc[x]) \ {<<p, m>>}
  <2>1. \A j \in Slots : pipe_per_proc[x][j].pid = p => j = i
    BY ConstantFacts DEF Inv, SlotsInv, OneSlotPerProcess, EndClosed
  <2>2. ASSUME NEW q \in Pids, NEW k \in Modes
        PROVE  (\E j \in Slots : pipe_per_proc'[x][j].pid = q /\ k \in Ends(pipe_per_proc'[x][j]))
                 <=> /\ \E j \in Slots : pipe_per_proc[x][j].pid = q /\ k \in Ends(pipe_per_proc[x][j])
                     /\ <<q, k>> # <<p, m>>
    <3>1. ASSUME NEW j \in Slots, j # i
          PROVE  pipe_per_proc'[x][j].pid = q /\ k \in Ends(pipe_per_proc'[x][j])
                   <=> pipe_per_proc[x][j].pid = q /\ k \in Ends(pipe_per_proc[x][j]) /\ q # p
      BY <2>1, <3>1 DEF EndClosed
    <3>2. pipe_per_proc'[x][i].pid = q /\ k \in Ends(pipe_per_proc'[x][i])
            <=> pipe_per_proc[x][i].pid = q /\ k \in Ends(pipe_per_proc[x][i]) /\ k # m
      BY DEF EndClosed
    <3>3. <<q, k>> # <<p, m>> <=> q # p \/ k # m
      OBVIOUS
    <3>4. \A j \in Slots : pipe_per_proc[x][j].pid = q => (q = p <=> j = i)
      BY <2>1 DEF EndClosed
    <3> QED BY <3>1, <3>2, <3>3, <3>4
  <2>3. \A e \in Pids \X Modes : e \in EndsOf(pipe_per_proc'[x])
          <=> e \in EndsOf(pipe_per_proc[x]) /\ e # <<p, m>>
    BY <2>2 DEF EndsOf
  <2> QED BY <2>3 DEF EndsOf
<1>5. EndsMap(pipe_per_proc') = [EndsMap(pipe_per_proc) EXCEPT ![x] = @ \ {<<p, m>>}]
  <2>1. \A y \in PipeIds \ {x} : pipe_per_proc'[y] = pipe_per_proc[y]
    <3>1. /\ pipe_per_proc \in [PipeIds -> [Slots -> PipeSlot]]
          /\ pipe_per_proc' \in [PipeIds -> [Slots -> PipeSlot]]
      BY DEF Inv, TypeOK
    <3> QED BY <3>1 DEF EndClosed
  <2> QED BY <1>4, <2>1 DEF EndsMap
<1>6. EndsOf(pipe_per_proc'[x]) = {} <=> \A j \in Slots : pipe_per_proc'[x][j].pid = NoPid
  <2>1. \A j \in Slots : /\ pipe_per_proc'[x][j].pid = NoPid <=> Ends(pipe_per_proc'[x][j]) = {}
                         /\ pipe_per_proc'[x][j].pid \in Pids \cup {NoPid}
    <3>1. \A j \in Slots : pipe_per_proc'[x][j].pid = NoPid <=> Ends(pipe_per_proc'[x][j]) = {}
      BY DEF Inv, SlotsInv
    <3>2. \A j \in Slots : pipe_per_proc'[x][j] \in PipeSlot
      BY DEF Inv, TypeOK
    <3> QED BY <3>1, <3>2 DEF PipeSlot
  <2>2. \A slot : Ends(slot) \subseteq Modes
    BY DEF Ends
  <2>3. ASSUME NEW j \in Slots, pipe_per_proc'[x][j].pid # NoPid PROVE EndsOf(pipe_per_proc'[x]) # {}
    <3> PICK k \in Modes : k \in Ends(pipe_per_proc'[x][j])
      BY <2>1, <2>2, <2>3
    <3>1. <<pipe_per_proc'[x][j].pid, k>> \in EndsOf(pipe_per_proc'[x])
      BY <2>1, <2>3 DEF EndsOf
    <3> QED BY <3>1
  <2>4. ASSUME \A j \in Slots : pipe_per_proc'[x][j].pid = NoPid PROVE EndsOf(pipe_per_proc'[x]) = {}
    BY <2>4, ConstantFacts DEF EndsOf
  <2> QED BY <2>3, <2>4
<1>7. IF EndsMap(pipe_per_proc')[x] = {}
        THEN allocated' = allocated \ {x}
             /\ ChanMap(allocated', pipe_global') = [ChanMap(allocated, pipe_global) EXCEPT ![x] = << >>]
        ELSE UNCHANGED allocated /\ ChanMap(allocated', pipe_global') = ChanMap(allocated, pipe_global)
  <2>1. EndsMap(pipe_per_proc')[x] = EndsOf(pipe_per_proc'[x])
    BY DEF EndsMap
  <2>2. allocated' = allocated \ {x} =>
          ChanMap(allocated', pipe_global') = [ChanMap(allocated, pipe_global) EXCEPT ![x] = << >>]
    BY DEF ChanMap
  <2>3. allocated' = allocated => ChanMap(allocated', pipe_global') = ChanMap(allocated, pipe_global)
    OBVIOUS
  <2> QED BY <1>2, <1>6, <2>1, <2>2, <2>3
<1>8. <<p, m>> \in EndsMap(pipe_per_proc)[x]
  BY <1>3 DEF EndsMap
<1>9. Channel!Close(x, p, m)
  BY <1>5, <1>7, <1>8, AsClose
<1> QED BY <1>9

LEMMA CreateSimulates ==
  ASSUME Inv, Inv', EnoughSlots, NEW p \in Pids, create_pipe(p)
  PROVE  \E x \in PipeIds : Channel!Open(x, p)
<1>1. PICK x \in PipeIds \ allocated : AllocPipe(p, x)
  BY DEF create_pipe
<1>2. allocated' = allocated \cup {x} /\ UNCHANGED user
  BY <1>1 DEF AllocPipe, create_pipe
<1>3. /\ pipe_per_proc' = [pipe_per_proc EXCEPT ![x] =
           [i \in Slots |-> IF i = 0 THEN [pid |-> p, read_open |-> 1, write_open |-> 1] ELSE FreeSlot]]
      /\ pipe_per_proc \in [PipeIds -> [Slots -> PipeSlot]]
  BY <1>1 DEF AllocPipe, Inv, TypeOK
<1>4. EndsOf(pipe_per_proc'[x]) = {p} \X Modes
  <2>1. \A i \in Slots : /\ i = 0 => pipe_per_proc'[x][i].pid = p /\ Ends(pipe_per_proc'[x][i]) = Modes
                         /\ i # 0 => Ends(pipe_per_proc'[x][i]) = {}
    BY <1>3, OtherEnds
  <2>2. 0 \in Slots
    BY SizesAssumption DEF EnoughSlots, Slots
  <2> QED BY <2>1, <2>2 DEF EndsOf
<1>5. EndsMap(pipe_per_proc') = [EndsMap(pipe_per_proc) EXCEPT ![x] = {p} \X Modes]
  BY <1>3, <1>4 DEF EndsMap
<1>6. /\ pipe_global'[x].buff_len = 0 /\ pipe_global'[x] \in PipeGlobal
      /\ \A y \in PipeIds \ {x} : pipe_global'[y] = pipe_global[y]
  <2>1. pipe_global' \in [PipeIds -> PipeGlobal]
    BY DEF Inv, TypeOK
  <2> QED BY <1>1, <2>1 DEF AllocPipe, Inv, TypeOK, PipeGlobal
<1>7. ContentsOf(pipe_global'[x]) = << >>
  <2> PICK g \in PipeGlobal : g = pipe_global'[x]
    BY <1>6
  <2>1. g.buff \in Memory(MAX_PIPE_SIZE, Bytes) /\ g.read_pos \in 0..(MAX_PIPE_SIZE - 1)
    BY DEF PipeGlobal
  <2>2. IsWindow(CyclicRead(g.buff, g.read_pos, 0, MAX_PIPE_SIZE),
                 g.buff, g.read_pos, 0, MAX_PIPE_SIZE, Bytes)
    <3>1. 0 \in 0..MAX_PIPE_SIZE
      BY SizesAssumption
    <3> QED BY <2>1, <3>1, SizesAssumption, CyclicReadSeq
  <2>3. CyclicRead(g.buff, g.read_pos, 0, MAX_PIPE_SIZE) = << >>
    BY <2>2, EmptySeq DEF IsWindow
  <2> QED BY <1>6, <2>3 DEF ContentsOf
<1>8. ChanMap(allocated', pipe_global') = [ChanMap(allocated, pipe_global) EXCEPT ![x] = << >>]
  BY <1>2, <1>6, <1>7 DEF ChanMap
<1> QED BY <1>2, <1>5, <1>8, AsOpen

LEMMA InheritedEnds ==
  ASSUME NEW held, held \subseteq Pids \X Modes, NEW after, after \subseteq Pids \X Modes,
         NEW p \in Pids, NEW c \in Pids,
         \A q \in Pids, k \in Modes :
           <<q, k>> \in after <=> <<q, k>> \in held \/ (q = c /\ <<p, k>> \in held)
  PROVE  after = held \cup Inherited(held, p, c)
<1>1. \A k : <<c, k>> \in Inherited(held, p, c) <=> k \in Modes /\ <<p, k>> \in held
  BY DEF Inherited
<1>2. \A e \in Inherited(held, p, c) : \E k \in Modes : e = <<c, k>>
  BY DEF Inherited
<1>3. ASSUME NEW e \in Pids \X Modes PROVE e \in after <=> e \in held \cup Inherited(held, p, c)
  <2> PICK q \in Pids, k \in Modes : e = <<q, k>>
    OBVIOUS
  <2>1. CASE q = c
    BY <1>1, <2>1
  <2>2. CASE q # c
    BY <1>2, <2>2
  <2> QED BY <2>1, <2>2
<1>4. Inherited(held, p, c) \subseteq Pids \X Modes
  BY <1>2
<1> QED BY <1>3, <1>4

\* One round of do_file_fork hands the parent's ends to the child.  What the
\* child has already is of the parent, or of an orphan, and the parent's too.
LEMMA ForkSimulates ==
  ASSUME Inv, EnoughSlots, do_file_fork
  PROVE  \E x \in PipeIds, p, c \in Pids : Channel!Inherit(x, p, c)
<1> PICK c \in Pids, p \in Pids : c = kernel.proc /\ p = kernel.parent
  BY DEF Inv, TypeOK, LoopState
<1>1. PICK d \in Fds, ret \in {0, EOTHERS} :
        d \in kernel.todo /\ do_pipe_fork(filep[files[c][d]].pipe, c, p, ret)
  BY DEF do_file_fork, IsLowest
<1>2. /\ p # c /\ files[c] = files[p] /\ files[c][d] # NULL
      /\ UNCHANGED <<allocated, pipe_global, user>>
  BY <1>1 DEF do_file_fork, Inv, LoopInv, OpenFds
<1>3. files[p][d] # NULL /\ \A e \in Fds : ~Pending(p, e)
  BY <1>2 DEF Pending
<1> PICK f \in FileIds, x \in PipeIds, m \in Modes :
      f = files[p][d] /\ filep[f].pipe = x /\ filep[f].mode = m
  BY <1>3, FileOfDescriptor
<1>4. do_pipe_fork(x, c, p, ret)
  BY <1>1, <1>2
<1>5. ret = 0 /\ \E i, j \in Slots : EndsInherited(x, i, j, c, p)
  BY <1>2, <1>3, <1>4, ForkEffect
<1> PICK i \in Slots, j \in Slots : EndsInherited(x, i, j, c, p)
  BY <1>5
<1>6. \A k \in Slots : pipe_per_proc[x][k].pid = p => k = j
  BY ConstantFacts DEF Inv, SlotsInv, OneSlotPerProcess, EndsInherited
<1>7. <<p, m>> \in EndsOf(pipe_per_proc[x])
  <2>1. \E k \in Slots : pipe_per_proc[x][k].pid = p /\ m \in Ends(pipe_per_proc[x][k])
    BY <1>3, EndOfDescriptor
  <2> QED BY <2>1 DEF EndsOf
<1>8. ASSUME NEW k \in Modes, k \in Ends(pipe_per_proc[x][i]) PROVE k \in Ends(pipe_per_proc[x][j])
  <2>1. PICK q \in Pids, g \in FileIds :
          /\ q = pipe_per_proc[x][i].pid
          /\ filep[g] # FreeFile /\ filep[g].pipe = x /\ filep[g].mode = k
          /\ Orphan(g) \/ \E e \in Fds : files[q][e] = g
    BY <1>8, FileOfEnd
  <2>2. q = c
    BY <2>1, ConstantFacts DEF EndsInherited
  <2>3. CASE Orphan(g)
    BY <2>1, <2>3, ConstantFacts DEF Inv, EndsInv, OrphanEndsOpen, EndsInherited
  <2>4. ASSUME NEW e \in Fds, files[q][e] = g PROVE k \in Ends(pipe_per_proc[x][j])
    <3>1. files[p][e] = g /\ files[p][e] # NULL
      BY <1>2, <2>2, <2>4, NullAssumption
    <3>2. \E l \in Slots : pipe_per_proc[x][l].pid = p /\ k \in Ends(pipe_per_proc[x][l])
      BY <1>3, <2>1, <3>1, EndOfDescriptor
    <3> QED BY <1>6, <3>2
  <2> QED BY <2>1, <2>3, <2>4
<1>9. ASSUME NEW q \in Pids, NEW k \in Modes
      PROVE  (\E l \in Slots : pipe_per_proc'[x][l].pid = q /\ k \in Ends(pipe_per_proc'[x][l]))
               <=> \/ \E l \in Slots : pipe_per_proc[x][l].pid = q /\ k \in Ends(pipe_per_proc[x][l])
                   \/ q = c /\ \E l \in Slots : pipe_per_proc[x][l].pid = p /\ k \in Ends(pipe_per_proc[x][l])
  <2>1. \A l \in Slots : l # i => pipe_per_proc'[x][l] = pipe_per_proc[x][l] /\ pipe_per_proc[x][l].pid # c
    BY DEF EndsInherited
  <2>2. /\ pipe_per_proc'[x][i].pid = c /\ Ends(pipe_per_proc'[x][i]) = Ends(pipe_per_proc[x][j])
        /\ pipe_per_proc[x][i].pid \in {c, NoPid} /\ pipe_per_proc[x][j].pid = p
    BY DEF EndsInherited
  <2>3. (\E l \in Slots : pipe_per_proc[x][l].pid = p /\ k \in Ends(pipe_per_proc[x][l]))
          <=> k \in Ends(pipe_per_proc[x][j])
    BY <1>6, <2>2
  <2>4. CASE q = c
    BY <1>8, <2>1, <2>2, <2>3, <2>4
  <2>5. CASE q # c
    BY <2>1, <2>2, <2>5, ConstantFacts
  <2> QED BY <2>4, <2>5
<1> PICK held : held = EndsOf(pipe_per_proc[x])
  OBVIOUS
<1>10. EndsOf(pipe_per_proc'[x]) = held \cup Inherited(held, p, c)
  <2>1. \A q \in Pids, k \in Modes : <<q, k>> \in held
          <=> \E l \in Slots : pipe_per_proc[x][l].pid = q /\ k \in Ends(pipe_per_proc[x][l])
    BY DEF EndsOf
  <2>2. \A q \in Pids, k \in Modes : <<q, k>> \in EndsOf(pipe_per_proc'[x])
          <=> \E l \in Slots : pipe_per_proc'[x][l].pid = q /\ k \in Ends(pipe_per_proc'[x][l])
    BY DEF EndsOf
  <2> PICK after : after = EndsOf(pipe_per_proc'[x])
    OBVIOUS
  <2>3. held \subseteq Pids \X Modes /\ after \subseteq Pids \X Modes
    BY DEF EndsOf
  <2>4. ASSUME NEW q \in Pids, NEW k \in Modes
        PROVE  <<q, k>> \in after <=> <<q, k>> \in held \/ (q = c /\ <<p, k>> \in held)
    <3>1. <<q, k>> \in after
            <=> \E l \in Slots : pipe_per_proc'[x][l].pid = q /\ k \in Ends(pipe_per_proc'[x][l])
      BY <2>2
    <3>2. <<q, k>> \in held
            <=> \E l \in Slots : pipe_per_proc[x][l].pid = q /\ k \in Ends(pipe_per_proc[x][l])
      BY <2>1
    <3>3. <<p, k>> \in held
            <=> \E l \in Slots : pipe_per_proc[x][l].pid = p /\ k \in Ends(pipe_per_proc[x][l])
      BY <2>1
    <3>4. (\E l \in Slots : pipe_per_proc'[x][l].pid = q /\ k \in Ends(pipe_per_proc'[x][l]))
            <=> \/ \E l \in Slots : pipe_per_proc[x][l].pid = q /\ k \in Ends(pipe_per_proc[x][l])
                \/ q = c /\ \E l \in Slots : pipe_per_proc[x][l].pid = p /\ k \in Ends(pipe_per_proc[x][l])
      BY <1>9
    <3> QED BY <3>1, <3>2, <3>3, <3>4
  <2>5. after = held \cup Inherited(held, p, c)
    BY <2>3, <2>4, InheritedEnds
  <2> QED BY <2>5
<1>11. EndsMap(pipe_per_proc') = [EndsMap(pipe_per_proc) EXCEPT ![x] = held \cup Inherited(held, p, c)]
  <2>1. EndsMap(pipe_per_proc)[x] = held
    BY DEF EndsMap
  <2>2. \A y \in PipeIds \ {x} : EndsOf(pipe_per_proc'[y]) = EndsOf(pipe_per_proc[y])
    BY DEF EndsOf, EndsInherited
  <2> QED BY <1>10, <2>1, <2>2 DEF EndsMap
<1>12. <<p, m>> \in EndsMap(pipe_per_proc)[x] /\ held = EndsMap(pipe_per_proc)[x]
  BY <1>7 DEF EndsMap
<1>13. ChanMap(allocated', pipe_global') = ChanMap(allocated, pipe_global) /\ UNCHANGED <<allocated, user>>
  BY <1>2
<1>14. Channel!Inherit(x, p, c)
  BY <1>2, <1>11, <1>12, <1>13, AsInherit
<1> QED BY <1>14

\* The bytes of a global record, and what its transfers make of them.
LEMMA ContentsType ==
  ASSUME NEW g \in PipeGlobal
  PROVE  ContentsOf(g) \in Seq(Bytes) /\ Len(ContentsOf(g)) = g.buff_len
<1>1. /\ g.buff \in Memory(MAX_PIPE_SIZE, Bytes) /\ g.read_pos \in 0..(MAX_PIPE_SIZE - 1)
      /\ g.buff_len \in 0..MAX_PIPE_SIZE
  BY DEF PipeGlobal
<1>2. IsWindow(CyclicRead(g.buff, g.read_pos, g.buff_len, MAX_PIPE_SIZE),
               g.buff, g.read_pos, g.buff_len, MAX_PIPE_SIZE, Bytes)
  BY <1>1, SizesAssumption, CyclicReadSeq
<1> QED BY <1>2 DEF IsWindow, ContentsOf

LEMMA ReadContents ==
  ASSUME NEW g \in PipeGlobal, NEW n \in 0..g.buff_len, NEW s, s = ContentsOf(g)
  PROVE  /\ CyclicRead(g.buff, g.read_pos, n, MAX_PIPE_SIZE) = SubSeq(s, 1, n)
         /\ ContentsOf(AfterRead(g, n)) = SubSeq(s, n + 1, Len(s))
<1>1. /\ g.buff \in Memory(MAX_PIPE_SIZE, Bytes) /\ g.read_pos \in 0..(MAX_PIPE_SIZE - 1)
      /\ g.buff_len \in 0..MAX_PIPE_SIZE
  BY DEF PipeGlobal
<1>2. /\ AfterRead(g, n).buff = g.buff /\ AfterRead(g, n).buff_len = g.buff_len - n
      /\ AfterRead(g, n).read_pos = Advance(g.read_pos, n, MAX_PIPE_SIZE)
  BY DEF AfterRead, PipeGlobal
<1>3. /\ CyclicRead(g.buff, g.read_pos, n, MAX_PIPE_SIZE) = SubSeq(s, 1, n)
      /\ CyclicRead(g.buff, Advance(g.read_pos, n, MAX_PIPE_SIZE), g.buff_len - n, MAX_PIPE_SIZE)
           = SubSeq(s, n + 1, Len(s))
  BY <1>1, SizesAssumption, ReadFromFront DEF ContentsOf
<1> QED BY <1>2, <1>3 DEF ContentsOf

LEMMA WriteContents ==
  ASSUME NEW g \in PipeGlobal, RingInv(g), NEW n \in 0..(MAX_PIPE_SIZE - g.buff_len),
         NEW data \in [1..MAX_PIPE_SIZE -> Bytes], NEW s, s = ContentsOf(g)
  PROVE  ContentsOf(AfterWrite(g, data, n)) = s \o SubSeq(data, 1, n)
<1>1. /\ g.buff \in Memory(MAX_PIPE_SIZE, Bytes) /\ g.read_pos \in 0..(MAX_PIPE_SIZE - 1)
      /\ g.buff_len \in 0..MAX_PIPE_SIZE
  BY DEF PipeGlobal
<1>2. /\ AfterWrite(g, data, n).buff = CyclicWrite(g.buff, g.write_pos, data, n, MAX_PIPE_SIZE)
      /\ AfterWrite(g, data, n).buff_len = g.buff_len + n
      /\ AfterWrite(g, data, n).read_pos = g.read_pos
      /\ g.write_pos = Advance(g.read_pos, g.buff_len, MAX_PIPE_SIZE)
  BY DEF AfterWrite, PipeGlobal, RingInv
<1>3. MAX_PIPE_SIZE \in Nat \ {0}
  BY SizesAssumption
<1>4. IsAppended(CyclicRead(CyclicWrite(g.buff, Advance(g.read_pos, g.buff_len, MAX_PIPE_SIZE), data, n, MAX_PIPE_SIZE),
                            g.read_pos, g.buff_len + n, MAX_PIPE_SIZE),
                 CyclicRead(g.buff, g.read_pos, g.buff_len, MAX_PIPE_SIZE), data, n)
  BY <1>1, <1>3, WriteAtEnd
<1> QED BY <1>2, <1>4 DEF ContentsOf, IsAppended

\* A process that is permitted a transfer holds the end for it.
LEMMA PermittedEnd ==
  ASSUME Inv, NEW p \in Pids, NEW d \in Fds, NEW mode \in Modes, Permitted(p, d, mode)
  PROVE  \E x \in PipeIds, g \in PipeGlobal :
           /\ x = filep[files[p][d]].pipe /\ x \in allocated /\ g = pipe_global[x]
           /\ <<p, mode>> \in EndsMap(pipe_per_proc)[x]
           /\ ChanMap(allocated, pipe_global)[x] = ContentsOf(g)
<1>1. files[p][d] # NULL /\ filep[files[p][d]].mode = mode
  BY DEF Permitted
<1> PICK f \in FileIds, x \in PipeIds, m \in Modes :
      f = files[p][d] /\ filep[f].pipe = x /\ x \in allocated
  BY <1>1, FileOfDescriptor
<1> PICK i \in Slots : IsSlotOf(i, x, p) /\ EndOpen(pipe_per_proc[x][i], mode)
  BY DEF Permitted
<1>2. pipe_per_proc[x][i].pid = p /\ mode \in Ends(pipe_per_proc[x][i])
  BY DEF IsSlotOf, IsLowest, SlotsOf, Ends
<1>3. <<p, mode>> \in EndsMap(pipe_per_proc)[x]
  BY <1>2 DEF EndsMap, EndsOf
<1>4. pipe_global[x] \in PipeGlobal
  BY DEF Inv, TypeOK
<1> QED BY <1>3, <1>4 DEF ChanMap

\* After a transfer only the bytes of its pipe are others.
LEMMA OneRecord ==
  ASSUME TypeOK, NEW x \in allocated, NEW h, pipe_global' = [pipe_global EXCEPT ![x] = h],
         UNCHANGED allocated
  PROVE  ChanMap(allocated', pipe_global')
           = [ChanMap(allocated, pipe_global) EXCEPT ![x] = ContentsOf(h)]
<1>1. x \in PipeIds
  BY DEF TypeOK
<1>2. pipe_global'[x] = h /\ \A y \in PipeIds \ {x} : pipe_global'[y] = pipe_global[y]
  BY <1>1 DEF TypeOK
<1>3. ContentsOf(pipe_global'[x]) = ContentsOf(h)
  BY <1>2
<1>4. \A y \in PipeIds : ContentsOf(pipe_global'[y]) = IF y = x THEN ContentsOf(h)
                                                       ELSE ContentsOf(pipe_global[y])
  BY <1>2, <1>3
<1> HIDE DEF ContentsOf
<1> QED BY <1>1, <1>4 DEF ChanMap

LEMMA ReadSimulates ==
  ASSUME Inv, NEW p \in Pids, NEW d \in Fds, NEW count \in 0..MAX_COUNT, pipe_read(p, d, count)
  PROVE  \E x \in PipeIds : Channel!Receive(x, p, O_READ, count)
<1>1. Permitted(p, d, O_READ)
  BY DEF pipe_read
<1> PICK x \in PipeIds, g \in PipeGlobal :
      /\ x = filep[files[p][d]].pipe /\ x \in allocated /\ g = pipe_global[x]
      /\ <<p, O_READ>> \in EndsMap(pipe_per_proc)[x]
      /\ ChanMap(allocated, pipe_global)[x] = ContentsOf(g)
  BY <1>1, ConstantFacts, PermittedEnd
<1> DEFINE s == ChanMap(allocated, pipe_global)[x]
           n == Clamp(g.buff_len, count)
<1>2. /\ user' = CyclicRead(g.buff, g.read_pos, n, MAX_PIPE_SIZE)
      /\ pipe_global' = [pipe_global EXCEPT ![x] = AfterRead(g, n)]
      /\ UNCHANGED <<allocated, pipe_per_proc>>
  BY DEF pipe_read
<1>3. n \in 0..g.buff_len
  BY SizesAssumption, ClampBounds DEF PipeGlobal
<1>4. s \in Seq(Bytes) /\ Len(s) = g.buff_len
  BY ContentsType
<1>5. n = IF count <= Len(s) THEN count ELSE Len(s)
  BY <1>4 DEF Clamp, PipeGlobal
<1> HIDE DEF n
<1>6. user' = SubSeq(s, 1, n) /\ ContentsOf(AfterRead(g, n)) = SubSeq(s, n + 1, Len(s))
  BY <1>2, <1>3, ReadContents
<1>7. ChanMap(allocated', pipe_global')
        = [ChanMap(allocated, pipe_global) EXCEPT ![x] = SubSeq(@, n + 1, Len(@))]
  <2>1. ChanMap(allocated', pipe_global')
          = [ChanMap(allocated, pipe_global) EXCEPT ![x] = ContentsOf(AfterRead(g, n))]
    BY <1>2, OneRecord DEF Inv
  <2> QED BY <1>6, <2>1
<1>8. EndsMap(pipe_per_proc') = EndsMap(pipe_per_proc) /\ UNCHANGED allocated
  BY <1>2
<1>9. Channel!Receive(x, p, O_READ, count)
  <2> HIDE DEF s
  <2>1. s = ChanMap(allocated, pipe_global)[x]
    BY DEF s
  <2> QED BY <1>5, <1>6, <1>7, <1>8, <2>1, ConstantFacts, AsReceive
<1> QED BY <1>9

LEMMA WriteSimulates ==
  ASSUME Inv, BufferConsistent, NEW p \in Pids, NEW d \in Fds, NEW count \in 0..MAX_COUNT,
         NEW data \in [1..MAX_PIPE_SIZE -> Bytes], pipe_write(p, d, data, count)
  PROVE  \E x \in PipeIds : Channel!Send(x, p, O_WRITE, data, count)
<1>1. Permitted(p, d, O_WRITE)
  BY DEF pipe_write
<1> PICK x \in PipeIds, g \in PipeGlobal :
      /\ x = filep[files[p][d]].pipe /\ x \in allocated /\ g = pipe_global[x]
      /\ <<p, O_WRITE>> \in EndsMap(pipe_per_proc)[x]
      /\ ChanMap(allocated, pipe_global)[x] = ContentsOf(g)
  BY <1>1, ConstantFacts, PermittedEnd
<1> DEFINE s == ChanMap(allocated, pipe_global)[x]
           n == Clamp(MAX_PIPE_SIZE - g.buff_len, count)
<1>2. /\ user' = SubSeq(data, 1, n)
      /\ pipe_global' = [pipe_global EXCEPT ![x] = AfterWrite(g, data, n)]
      /\ UNCHANGED <<allocated, pipe_per_proc>>
  BY DEF pipe_write
<1>3. n \in 0..(MAX_PIPE_SIZE - g.buff_len)
  <2>1. MAX_PIPE_SIZE - g.buff_len \in Nat /\ count \in Nat
    BY SizesAssumption DEF PipeGlobal
  <2> QED BY <2>1, ClampBounds
<1>4. s \in Seq(Bytes) /\ Len(s) = g.buff_len
  BY ContentsType
<1>5. n = LET room == MAX_PIPE_SIZE - Len(s) IN IF count <= room THEN count ELSE room
  BY <1>4, SizesAssumption DEF Clamp, PipeGlobal
<1> HIDE DEF n
<1>6. ContentsOf(AfterWrite(g, data, n)) = s \o user'
  <2>1. RingInv(g)
    BY DEF BufferConsistent
  <2> QED BY <1>2, <1>3, <2>1, WriteContents
<1>7. ChanMap(allocated', pipe_global')
        = [ChanMap(allocated, pipe_global) EXCEPT ![x] = @ \o user']
  <2>1. ChanMap(allocated', pipe_global')
          = [ChanMap(allocated, pipe_global) EXCEPT ![x] = ContentsOf(AfterWrite(g, data, n))]
    BY <1>2, OneRecord DEF Inv
  <2> QED BY <1>6, <2>1
<1>8. EndsMap(pipe_per_proc') = EndsMap(pipe_per_proc) /\ UNCHANGED allocated
  BY <1>2
<1>9. Channel!Send(x, p, O_WRITE, data, count)
  BY <1>2, <1>5, <1>7, <1>8, ConstantFacts, AsSend
<1> QED BY <1>9

\* Each kind of step of a channel, of some process, is a step of the channels.
LEMMA AbstractSteps ==
  ASSUME NEW x \in PipeIds, NEW p \in Pids
  PROVE  /\ Channel!Open(x, p) => Channel!Next
         /\ \A m \in Modes : Channel!Close(x, p, m) => Channel!Next
         /\ \A c \in Pids : Channel!Inherit(x, p, c) => Channel!Next
         /\ \A m \in Modes, count \in 0..MAX_COUNT :
              /\ Channel!Receive(x, p, m, count) => Channel!Next
              /\ \A data \in [1..MAX_PIPE_SIZE -> Bytes] :
                   Channel!Send(x, p, m, data, count) => Channel!Next
  BY DEF Channel!Next, Modes

\* Every step is a step of the channels or leaves them as they are: forks and
\* exits one step per descriptor, all else in one.
LEMMA NextSimulates ==
  ASSUME EnoughSlots, Inv, Inv', BufferConsistent, [Next]_vars
  PROVE  [Channel!Next]_(Channel!vars)
<1>1. ASSUME UNCHANGED <<allocated, pipe_per_proc, pipe_global, user>>
      PROVE  [Channel!Next]_(Channel!vars)
  BY <1>1, AsStutter
<1>2. ASSUME NEW p \in Pids, create_pipe(p) PROVE Channel!Next
  BY <1>2, CreateSimulates, AbstractSteps
<1>3. ASSUME NEW p \in Pids, NEW d \in Fds, do_close(p, d) PROVE Channel!Next
  <2>1. /\ kernel.op # "fork" /\ files[p][d] # NULL
        /\ pipe_close(p, files[p][d], filep') /\ UNCHANGED <<pipe_global, user>>
    BY <1>3 DEF do_close, Running, Idle
  <2> QED BY <2>1, CloseSimulates, AbstractSteps
<1>4. ASSUME do_file_exit PROVE Channel!Next
  <2> PICK p \in Pids, d \in Fds :
        /\ p = kernel.proc /\ d \in kernel.todo
        /\ pipe_close(p, files[p][d], filep')
    BY <1>4 DEF do_file_exit, IsLowest, Inv, TypeOK, LoopState
  <2>1. kernel.op # "fork" /\ files[p][d] # NULL /\ UNCHANGED <<pipe_global, user>>
    BY <1>4 DEF do_file_exit, Inv, LoopInv, OpenFds
  <2> QED BY <2>1, CloseSimulates, AbstractSteps
<1>5. ASSUME do_file_fork PROVE Channel!Next
  BY <1>5, ForkSimulates, AbstractSteps
<1>6. ASSUME NEW p \in Pids, NEW d \in Fds, NEW count \in 0..MAX_COUNT, pipe_read(p, d, count)
      PROVE  Channel!Next
  BY <1>6, ReadSimulates, AbstractSteps, ConstantFacts
<1>7. ASSUME NEW p \in Pids, NEW d \in Fds, NEW count \in 0..MAX_COUNT,
             NEW data \in [1..MAX_PIPE_SIZE -> Bytes], pipe_write(p, d, data, count)
      PROVE  Channel!Next
  BY <1>7, WriteSimulates, AbstractSteps, ConstantFacts
<1>8. CASE UNCHANGED vars \/ ExitReturn \/ ForkReturn
  BY <1>1, <1>8 DEF vars, ExitReturn, ForkReturn
<1>9. ASSUME NEW p \in Pids, do_fork(p) \/ do_exit(p) PROVE [Channel!Next]_(Channel!vars)
  BY <1>1, <1>9 DEF do_fork, do_exit
<1>10. ASSUME NEW p \in Pids, NEW d \in Fds, NEW mode, Rejected(p, d, mode) \/ BadBuffer(p, d, mode)
       PROVE  [Channel!Next]_(Channel!vars)
  BY <1>1, <1>10 DEF Rejected, BadBuffer, vars
<1> QED
  BY <1>2, <1>3, <1>4, <1>5, <1>6, <1>7, <1>8, <1>9, <1>10
  DEF Next, KernelLoop, Transfer

\* At first there are no channels.
LEMMA InitSimulates == Init => Channel!Init
<1> SUFFICES ASSUME Init PROVE Channel!Init
  OBVIOUS
<1>1. allocated = {} /\ user = << >>
  BY DEF Init
<1>2. \A x \in PipeIds : EndsOf(pipe_per_proc[x]) = {}
  <2>1. \A x \in PipeIds, i \in Slots : Ends(pipe_per_proc[x][i]) = {}
    BY OtherEnds DEF Init
  <2> QED BY <2>1 DEF EndsOf
<1>3. EndsMap(pipe_per_proc) = [x \in PipeIds |-> {}]
  BY <1>2 DEF EndsMap
<1>4. ChanMap(allocated, pipe_global) = [x \in PipeIds |-> << >>]
  BY <1>1 DEF ChanMap
<1> QED BY <1>1, <1>3, <1>4, MappedState DEF Channel!Init

\* Pipes implement bounded first-in first-out channels that exist exactly as
\* long as some process has an end open: through forks, exits and closes, and
\* with the buffer's bytes across its end, full and empty.
THEOREM PipesAreChannels == ASSUME EnoughSlots PROVE Spec => ImplementsChannel
<1>1. TypeOK /\ BufferConsistent /\ [Next]_vars => BufferConsistent'
  BY NextBuffer
<1>2. Inv => TypeOK
  BY DEF Inv
<1>3. Init => BufferConsistent
  BY InitBuffer
<1>4. Inv /\ Inv' /\ BufferConsistent /\ [Next]_vars => [Channel!Next]_(Channel!vars)
  BY NextSimulates
<1> QED BY <1>1, <1>2, <1>3, <1>4, Inductive, InitSimulates, PTL DEF Spec, ImplementsChannel, Channel!Spec
=============================================================================
