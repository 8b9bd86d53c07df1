------------------------ MODULE SdramRequests_proofs ------------------------
(***************************************************************************)
(* The three request ports of the SDRAM controller: no request is lost,    *)
(* dropped or overwritten, no payload changes while its toggle travels,    *)
(* and no word of a VGA burst is lost in the FIFO.  The argument is one of *)
(* ownership: each port has at most one request outstanding, which is in   *)
(* exactly one place, and the words of a VGA burst that have not been      *)
(* popped yet are counted.                                                 *)
(*                                                                         *)
(* Then the refinement: for a board whose 2D engine asks for no burst,     *)
(* every step of SdramBoard is a step of WordMemory or leaves it alone.    *)
(* The requests' tokens say where the operation is, the timing which       *)
(* command is on the pins, the row discipline which cell it names; what is *)
(* left to show is that the operation and its answer are carried unchanged.*)
(***************************************************************************)
EXTENDS SdramBoard_proofs

-----------------------------------------------------------------------------
(***************************************************************************)
(* Toggles in flight.                                                      *)
(***************************************************************************)

\* A flip of the toggle t has not left its chain of flops yet.
Travels(t, chain) == t # chain[4]

\* A chain holds at most one edge: the flops up to some place have the new
\* value of the toggle, the others the old one.
OneEdge(t, chain) ==
  /\ chain[1] # t => chain[2] # t
  /\ chain[2] # t => chain[3] # t
  /\ chain[3] # t => chain[4] # t

ReqTravels    == Travels(req_toggle_cpu, req_sync)
AcceptTravels == Travels(req_accept_toggle, accept_sync)
AckTravels    == Travels(ack_toggle, ack_sync)
VgaTravels    == Travels(vga_toggle_cpu, vga_sync)

-----------------------------------------------------------------------------
(***************************************************************************)
(* The inductive invariant.                                                *)
(***************************************************************************)
SingleStates ==
  {"S_TRCD_WAIT", "S_READ_WAIT", "S_READ_CAPTURE", "S_WRITE_SETUP", "S_WRITE_CMD",
   "S_WRITE_WAIT", "S_WRITE_RECOVERY", "S_PRECHARGE", "S_TRP_WAIT"}
VgaStates ==
  {"S_VGA_TRCD_WAIT", "S_VGA_READ", "S_VGA_CAPTURE", "S_VGA_PRECHARGE", "S_VGA_TRP_WAIT"}
GpuStates == {"S_GPU_TRCD_WAIT", "S_GPU_WRITE", "S_GPU_PRECHARGE", "S_GPU_TRP_WAIT"}

\* Whatever path S_ACTIVATE chooses, its request is latched until it ends.
Owned ==
  /\ state = "S_ACTIVATE" => vga_valid \/ gpu_wr_valid \/ req_valid
  /\ state \in SingleStates => req_valid
  /\ state \in VgaStates => vga_valid
  /\ state \in GpuStates => gpu_wr_valid

\* The CPU's operation is in one place: its toggle travels, it is latched, or
\* its acknowledge travels.  The acceptance, which frees p_req_cpu for the
\* next strobe, never falls behind the acknowledge.
CpuToken ==
  /\ OneEdge(req_toggle_cpu, req_sync)
  /\ OneEdge(req_accept_toggle, accept_sync)
  /\ OneEdge(ack_toggle, ack_sync)
  /\ ~(ReqTravels /\ req_valid) /\ ~(ReqTravels /\ AckTravels) /\ ~(req_valid /\ AckTravels)
  /\ cpu # NoOp <=> ReqTravels \/ req_valid \/ AckTravels
  /\ req_busy_cpu <=> ReqTravels \/ AcceptTravels
  /\ AcceptTravels => req_valid \/ AckTravels
  /\ AckTravels => \A i \in 1 .. 3 : ack_sync[i] = ack_toggle => accept_sync[i] = req_accept_toggle

\* The 2D engine waits for done exactly while its request is a pulse, latched,
\* or reported done.
GpuToken ==
  /\ gpu_wait <=> gpu_wr_req \/ gpu_wr_valid \/ gpu_done_r
  /\ ~(gpu_wr_req /\ gpu_wr_valid) /\ ~(gpu_wr_req /\ gpu_done_r) /\ ~(gpu_wr_valid /\ gpu_done_r)

\* Words on their way into the FIFO, and still to be read for this burst.
Writing == IF vga_fifo_wr = NoOp THEN 0 ELSE 1
Left ==
  IF VgaTravels \/ (vga_valid /\ (state \notin VgaStates \/ state = "S_VGA_TRCD_WAIT"))
  THEN BURST_WORDS
  ELSE IF state \in {"S_VGA_READ", "S_VGA_CAPTURE"} THEN BURST_WORDS - vga_col_cnt ELSE 0

\* A VGA burst is over for the reader only when it is over for the controller,
\* but for the last cycle of its precharge wait.
VgaToken ==
  /\ OneEdge(vga_toggle_cpu, vga_sync)
  /\ VgaTravels => vga_req_pending /\ ~vga_valid
  /\ vga_col_cnt <= BURST_WORDS - 1
  /\ state = "S_VGA_TRP_WAIT" => trcd_cnt <= 1
  /\ state = "S_VGA_PRECHARGE" => vga_fifo_wr # NoOp
  /\ vga_req_pending => vga_fifo_pop_cnt + Len(vga_fifo) + Writing + Left <= BURST_WORDS
  /\ ~vga_req_pending => /\ vga_fifo_pop_cnt = 0 /\ vga_fifo = << >> /\ vga_fifo_wr = NoOp
                         /\ vga_valid => state = "S_VGA_TRP_WAIT" /\ trcd_cnt = 1

Tokens == Owned /\ CpuToken /\ GpuToken /\ VgaToken
-----------------------------------------------------------------------------
(***************************************************************************)
(* Lemmas about one chain of flops.                                        *)
(***************************************************************************)
LEMMA Shifted ==
  ASSUME NEW chain \in Chain, NEW first \in BOOLEAN
  PROVE  LET new == Sync(chain, first)
         IN new[1] = first /\ new[2] = chain[1] /\ new[3] = chain[2] /\ new[4] = chain[3]
  BY DEF Sync

LEMMA FireIsEdge ==
  ASSUME NEW t \in BOOLEAN, NEW chain \in Chain, OneEdge(t, chain), Fire(chain)
  PROVE  Travels(t, chain) /\ chain[3] = t
  BY DEF OneEdge, Fire, Travels, Chain

\* The toggle is still: its edge goes on, and is gone after it fired.
LEMMA EdgeMoves ==
  ASSUME NEW t \in BOOLEAN, NEW chain \in Chain, OneEdge(t, chain)
  PROVE  /\ OneEdge(t, Sync(chain, t))
         /\ Travels(t, Sync(chain, t)) <=> Travels(t, chain) /\ ~Fire(chain)
<1> DEFINE new == Sync(chain, t)
<1>1. new[1] = t /\ new[2] = chain[1] /\ new[3] = chain[2] /\ new[4] = chain[3]
  BY Shifted
<1> HIDE DEF new
<1> QED
  BY <1>1 DEF OneEdge, Travels, Fire, Chain, new

\* The toggle flips while none of its edges travels: the first flop may see it
\* or not.
LEMMA EdgeStarts ==
  ASSUME NEW t \in BOOLEAN, NEW chain \in Chain, OneEdge(t, chain), ~Travels(t, chain),
         NEW first \in BOOLEAN
  PROVE  OneEdge(~t, Sync(chain, first)) /\ Travels(~t, Sync(chain, first))
<1> DEFINE new == Sync(chain, first)
<1>1. new[1] = first /\ new[2] = chain[1] /\ new[3] = chain[2] /\ new[4] = chain[3]
  BY Shifted
<1>2. chain[1] = t /\ chain[2] = t /\ chain[3] = t
  BY DEF OneEdge, Travels
<1> HIDE DEF new
<1> QED
  BY <1>1, <1>2 DEF OneEdge, Travels, new

-----------------------------------------------------------------------------
(***************************************************************************)
(* The paths of the state machine and their latches.                       *)
(***************************************************************************)
LEMMA Paths ==
  ASSUME TypeOK, P_sdram
  PROVE  /\ state' = "S_ACTIVATE" => state = "S_IDLE" /\ (vga_valid \/ gpu_wr_valid \/ req_valid)
         /\ state' \in SingleStates =>
              \/ state \in SingleStates /\ ~TrpDone("S_TRP_WAIT")
              \/ state = "S_ACTIVATE" /\ ~vga_valid /\ ~gpu_wr_valid
         /\ state' \in VgaStates =>
              \/ state \in VgaStates /\ ~TrpDone("S_VGA_TRP_WAIT")
              \/ state = "S_ACTIVATE" /\ vga_valid
         /\ state' \in GpuStates =>
              \/ state \in GpuStates /\ ~TrpDone("S_GPU_TRP_WAIT")
              \/ state = "S_ACTIVATE" /\ gpu_wr_valid
  BY DEF SingleStates, VgaStates, GpuStates, TrpDone,
     P_sdram, Init_wait, Prechg_all, Prechg_wait, Init_refresh, Ref_wait, Load_mode,
     Mode_wait, Idle, Auto_refresh, Activate, Trcd_wait, Read_wait, Read_capture,
     Write_setup, Write_cmd, Write_wait, Write_recovery, Vga_capture, Gpu_write,
     Precharge, Trp_wait, Wait, Step, Pick, TrcdNext, Goto

\* The processes of one edge, of both clocks or of the fast one.
LEMMA NextParts ==
  ASSUME TypeOK, Next
  PROVE  \E op \in CPU_OPS \cup {NoOp}, adr \in VGA_ADRS \cup {NoOp}, pop \in BOOLEAN :
           /\ P_req_latch /\ P_vga_latch /\ P_gpu_latch(gpu_wr_req, gpu_wr_adr)
           /\ P_data(pop) /\ P_sdram /\ ChipStep /\ Gpu /\ P_sync_req
           /\ pop => VgaPop
           /\ \/ FastEdge /\ ~pop
              \/ BothEdges(op, adr, pop)
<1>1. CASE FastEdge
  <2>1. FALSE \in BOOLEAN /\ NoOp \in CPU_OPS \cup {NoOp} /\ NoOp \in VGA_ADRS \cup {NoOp}
    OBVIOUS
  <2> QED
    BY <1>1, <2>1 DEF FastEdge, SdramEdge
<1>2. ASSUME NEW op \in CPU_OPS \cup {NoOp}, NEW adr \in VGA_ADRS \cup {NoOp},
             NEW pop \in BOOLEAN, BothEdges(op, adr, pop)
      PROVE  /\ P_req_latch /\ P_vga_latch /\ P_gpu_latch(gpu_wr_req, gpu_wr_adr)
             /\ P_data(pop) /\ P_sdram /\ ChipStep /\ Gpu /\ P_sync_req
             /\ pop => VgaPop
  BY <1>2 DEF BothEdges, SdramEdge
<1> QED
  BY <1>1, <1>2 DEF Next

LEMMA OwnedStep ==
  ASSUME TypeOK, Owned, Next
  PROVE  Owned'
<1>1. P_req_latch /\ P_vga_latch /\ P_gpu_latch(gpu_wr_req, gpu_wr_adr) /\ P_sdram
  BY NextParts
<1>2. /\ req_valid /\ ~TrpDone("S_TRP_WAIT") => req_valid'
      /\ vga_valid /\ ~TrpDone("S_VGA_TRP_WAIT") => vga_valid'
      /\ gpu_wr_valid /\ ~TrpDone("S_GPU_TRP_WAIT") => gpu_wr_valid'
  BY <1>1 DEF P_req_latch, P_vga_latch, P_gpu_latch
<1>3. state \in {"S_IDLE", "S_ACTIVATE"} =>
         ~TrpDone("S_TRP_WAIT") /\ ~TrpDone("S_VGA_TRP_WAIT") /\ ~TrpDone("S_GPU_TRP_WAIT")
  BY DEF TrpDone
<1>4. state' = "S_ACTIVATE" => vga_valid' \/ gpu_wr_valid' \/ req_valid'
  BY <1>1, <1>2, <1>3, Paths
<1>5. state' \in SingleStates => req_valid'
  BY <1>1, <1>2, <1>3, Paths DEF Owned
<1>6. state' \in VgaStates => vga_valid'
  BY <1>1, <1>2, <1>3, Paths DEF Owned
<1>7. state' \in GpuStates => gpu_wr_valid'
  BY <1>1, <1>2, <1>3, Paths DEF Owned
<1> QED
  BY <1>4, <1>5, <1>6, <1>7 DEF Owned

LEMMA GpuTokenStep ==
  ASSUME TypeOK, Owned, GpuToken, Next
  PROVE  GpuToken'
<1>1. P_gpu_latch(gpu_wr_req, gpu_wr_adr) /\ Gpu
  BY NextParts
<1>2. TrpDone("S_GPU_TRP_WAIT") => gpu_wr_valid
  BY DEF Owned, GpuStates, TrpDone
<1> DEFINE over == TrpDone("S_GPU_TRP_WAIT")
<1>3. /\ gpu_wr_valid' = ((gpu_wr_valid \/ gpu_wr_req) /\ ~over)
      /\ gpu_done_r' = over
  BY <1>1 DEF P_gpu_latch
<1>4. \/ ~gpu_wait /\ gpu_wr_req' = TRUE /\ gpu_wait' = TRUE
      \/ gpu_wr_req' = FALSE /\ gpu_wait' = (gpu_wait /\ ~gpu_done_r)
  BY <1>1 DEF Gpu
<1>5. /\ gpu_wait \in BOOLEAN /\ gpu_wr_req \in BOOLEAN /\ gpu_wr_valid \in BOOLEAN
      /\ gpu_done_r \in BOOLEAN
  BY DEF TypeOK, MastersType, GpuType
<1> HIDE DEF over
<1> QED
  BY <1>2, <1>3, <1>4, <1>5, Zenon DEF GpuToken, over
-----------------------------------------------------------------------------
(***************************************************************************)
(* The single-word port.                                                   *)
(***************************************************************************)

\* One step of a toggle and its chain: the toggle flips only when its last edge
\* is gone, and the chain shifts or stands still.
LEMMA ToggleStep ==
  ASSUME NEW t \in BOOLEAN, NEW t2 \in BOOLEAN, NEW chain \in Chain, NEW chain2,
         NEW shift \in BOOLEAN, OneEdge(t, chain),
         t2 # t => ~Travels(t, chain),
         shift => \E b \in {t, t2} : chain2 = Sync(chain, b),
         ~shift => chain2 = chain
  PROVE  /\ OneEdge(t2, chain2)
         /\ Travels(t2, chain2) <=> t2 # t \/ (Travels(t, chain) /\ ~(shift /\ Fire(chain)))
<1>1. CASE shift /\ t2 = t
  BY <1>1, EdgeMoves
<1>2. CASE shift /\ t2 # t
  <2>1. t2 = ~t
    BY <1>2
  <2>2. PICK b \in {t, t2} : chain2 = Sync(chain, b)
    BY <1>2
  <2>3. b \in BOOLEAN
    BY <2>2
  <2> QED
    BY <1>2, <2>1, <2>2, <2>3, EdgeStarts
<1>3. CASE ~shift
  BY <1>3 DEF OneEdge, Travels, Chain
<1> QED
  BY <1>1, <1>2, <1>3

\* What one edge does to the three toggles of the port.
LEMMA CpuToggles ==
  ASSUME TypeOK, TypeOK', Owned, CpuToken, Next
  PROVE  /\ OneEdge(req_toggle_cpu, req_sync)'
         /\ OneEdge(req_accept_toggle, accept_sync)'
         /\ OneEdge(ack_toggle, ack_sync)'
         /\ ReqTravels' <=> req_toggle_cpu' # req_toggle_cpu \/ (ReqTravels /\ ~ReqFire)
         /\ AcceptTravels' <=> ReqFire \/ (AcceptTravels /\ ~(phase = 0 /\ AcceptFire))
         /\ AckTravels' <=> TrpDone("S_TRP_WAIT") \/ (AckTravels /\ ~(phase = 0 /\ AckFire))
         /\ req_valid' = ((req_valid /\ ~TrpDone("S_TRP_WAIT")) \/ ReqFire)
         /\ req_toggle_cpu' # req_toggle_cpu => cpu = NoOp
<1> DEFINE over == TrpDone("S_TRP_WAIT")
           both == phase = 0
<1>1. /\ req_toggle_cpu \in BOOLEAN /\ req_toggle_cpu' \in BOOLEAN /\ req_sync \in Chain
      /\ req_accept_toggle \in BOOLEAN /\ req_accept_toggle' \in BOOLEAN /\ accept_sync \in Chain
      /\ ack_toggle \in BOOLEAN /\ ack_toggle' \in BOOLEAN /\ ack_sync \in Chain
      /\ req_valid \in BOOLEAN /\ req_busy_cpu \in BOOLEAN
  BY DEF TypeOK, ReqType
<1>2. PICK op \in CPU_OPS \cup {NoOp}, adr \in VGA_ADRS \cup {NoOp}, pop \in BOOLEAN :
        /\ P_req_latch /\ P_data(pop) /\ P_sync_req
        /\ \/ FastEdge
           \/ BothEdges(op, adr, pop)
  BY NextParts
<1>3. both \/ ~both
  OBVIOUS
<1>4. /\ ~both => UNCHANGED <<cpu, reqCpuVars, accept_sync, ack_sync>>
      /\ both => Cpu(op) /\ P_req_cpu(op) /\ P_sync_ack
  <2>1. FastEdge => ~both /\ UNCHANGED <<cpu, reqCpuVars, accept_sync, ack_sync>>
    BY DEF FastEdge
  <2>2. BothEdges(op, adr, pop) => both /\ Cpu(op) /\ P_req_cpu(op) /\ P_sync_ack
    BY DEF BothEdges, CpuEdge
  <2> QED
    BY <1>2, <2>1, <2>2
<1>5. over => req_valid /\ ~ReqTravels /\ ~AckTravels
  BY DEF Owned, CpuToken, SingleStates, TrpDone
<1>6. ReqFire => ReqTravels /\ ~req_valid /\ ~AckTravels /\ ~AcceptTravels /\ ~over
  <2>1. ReqFire => ReqTravels
    BY <1>1, FireIsEdge DEF CpuToken, ReqFire, ReqTravels
  <2> QED
    BY <1>5, <2>1 DEF CpuToken
<1>7. /\ ack_toggle' = (ack_toggle # over)
      /\ req_valid' = ((req_valid /\ ~over) \/ ReqFire)
      /\ req_accept_toggle' # req_accept_toggle <=> ReqFire
  <2>1. ack_toggle' = (ack_toggle # over)
    BY <1>2 DEF P_data
  <2>2. ReqFire => req_valid' = TRUE /\ req_accept_toggle' = ~req_accept_toggle
    BY <1>2 DEF P_req_latch
  <2>3. ~ReqFire => req_valid' = (req_valid /\ ~over) /\ req_accept_toggle' = req_accept_toggle
    BY <1>2 DEF P_req_latch
  <2> QED
    BY <1>1, <2>1, <2>2, <2>3
<1>8. req_toggle_cpu' # req_toggle_cpu => cpu = NoOp
  <2>1. CASE ~both
    BY <1>4, <2>1 DEF reqCpuVars
  <2>2. CASE both
    <3>1. req_toggle_cpu' # req_toggle_cpu => op # NoOp
      BY <1>4, <2>2 DEF P_req_cpu
    <3>2. op # NoOp => cpu = NoOp
      BY <1>4, <2>2 DEF Cpu
    <3> QED
      BY <3>1, <3>2
  <2> QED
    BY <2>1, <2>2
<1>9. /\ OneEdge(req_toggle_cpu, req_sync)'
      /\ ReqTravels' <=> req_toggle_cpu' # req_toggle_cpu \/ (ReqTravels /\ ~ReqFire)
  <2>1. req_toggle_cpu' # req_toggle_cpu => ~Travels(req_toggle_cpu, req_sync)
    BY <1>8 DEF CpuToken, ReqTravels
  <2>2. \E b \in {req_toggle_cpu, req_toggle_cpu'} : req_sync' = Sync(req_sync, b)
    BY <1>2 DEF P_sync_req
  <2>3. OneEdge(req_toggle_cpu, req_sync)
    BY DEF CpuToken
  <2>4. /\ OneEdge(req_toggle_cpu', req_sync')
        /\ Travels(req_toggle_cpu', req_sync') <=>
             req_toggle_cpu' # req_toggle_cpu \/ (Travels(req_toggle_cpu, req_sync) /\ ~(TRUE /\ Fire(req_sync)))
    BY <1>1, <2>1, <2>2, <2>3, ToggleStep, ZenonT(60)
  <2> QED
    BY <2>4 DEF ReqTravels, ReqFire, OneEdge, Travels
<1>10. /\ OneEdge(req_accept_toggle, accept_sync)'
       /\ AcceptTravels' <=> ReqFire \/ (AcceptTravels /\ ~(both /\ AcceptFire))
  <2>1. req_accept_toggle' # req_accept_toggle => ~Travels(req_accept_toggle, accept_sync)
    BY <1>6, <1>7 DEF AcceptTravels
  <2>2. both => \E b \in {req_accept_toggle, req_accept_toggle'} : accept_sync' = Sync(accept_sync, b)
    BY <1>4 DEF P_sync_ack
  <2>3. OneEdge(req_accept_toggle, accept_sync) /\ (~both => accept_sync' = accept_sync)
    BY <1>4 DEF CpuToken
  <2>4. /\ OneEdge(req_accept_toggle', accept_sync')
        /\ Travels(req_accept_toggle', accept_sync') <=>
             req_accept_toggle' # req_accept_toggle
               \/ (Travels(req_accept_toggle, accept_sync) /\ ~(both /\ Fire(accept_sync)))
    <3>0. req_accept_toggle \in BOOLEAN /\ req_accept_toggle' \in BOOLEAN /\ accept_sync \in Chain
      BY <1>1
    <3>1. CASE both
      <4>1. \E b \in {req_accept_toggle, req_accept_toggle'} : accept_sync' = Sync(accept_sync, b)
        BY <2>2, <3>1
      <4>2. /\ OneEdge(req_accept_toggle', accept_sync')
            /\ Travels(req_accept_toggle', accept_sync') <=>
                 req_accept_toggle' # req_accept_toggle \/ (Travels(req_accept_toggle, accept_sync) /\ ~(TRUE /\ Fire(accept_sync)))
        BY <2>1, <2>3, <3>0, <4>1, ToggleStep, ZenonT(60)
      <4> QED
        BY <3>1, <4>2
    <3>2. CASE ~both
      <4>1. /\ OneEdge(req_accept_toggle', accept_sync')
            /\ Travels(req_accept_toggle', accept_sync') <=>
                 req_accept_toggle' # req_accept_toggle \/ (Travels(req_accept_toggle, accept_sync) /\ ~(FALSE /\ Fire(accept_sync)))
        BY <2>1, <2>3, <3>0, <3>2, ToggleStep, ZenonT(60)
      <4> QED
        BY <3>2, <4>1
    <3> QED
      BY <3>1, <3>2
  <2> QED
    BY <1>7, <2>4 DEF AcceptTravels, AcceptFire, OneEdge, Travels
<1>11. /\ OneEdge(ack_toggle, ack_sync)'
       /\ AckTravels' <=> over \/ (AckTravels /\ ~(both /\ AckFire))
  <2>0. ack_toggle' # ack_toggle <=> over
    BY <1>1, <1>7 DEF TrpDone
  <2>1. ack_toggle' # ack_toggle => ~Travels(ack_toggle, ack_sync)
    BY <1>5, <2>0 DEF AckTravels
  <2>2. both => \E b \in {ack_toggle, ack_toggle'} : ack_sync' = Sync(ack_sync, b)
    BY <1>4 DEF P_sync_ack
  <2>3. OneEdge(ack_toggle, ack_sync) /\ (~both => ack_sync' = ack_sync)
    BY <1>4 DEF CpuToken
  <2>4. /\ OneEdge(ack_toggle', ack_sync')
        /\ Travels(ack_toggle', ack_sync') <=>
             ack_toggle' # ack_toggle \/ (Travels(ack_toggle, ack_sync) /\ ~(both /\ Fire(ack_sync)))
    <3>0. ack_toggle \in BOOLEAN /\ ack_toggle' \in BOOLEAN /\ ack_sync \in Chain
      BY <1>1
    <3>1. CASE both
      <4>1. \E b \in {ack_toggle, ack_toggle'} : ack_sync' = Sync(ack_sync, b)
        BY <2>2, <3>1
      <4>2. /\ OneEdge(ack_toggle', ack_sync')
            /\ Travels(ack_toggle', ack_sync') <=>
                 ack_toggle' # ack_toggle \/ (Travels(ack_toggle, ack_sync) /\ ~(TRUE /\ Fire(ack_sync)))
        BY <2>1, <2>3, <3>0, <4>1, ToggleStep, ZenonT(60)
      <4> QED
        BY <3>1, <4>2
    <3>2. CASE ~both
      <4>1. /\ OneEdge(ack_toggle', ack_sync')
            /\ Travels(ack_toggle', ack_sync') <=>
                 ack_toggle' # ack_toggle \/ (Travels(ack_toggle, ack_sync) /\ ~(FALSE /\ Fire(ack_sync)))
        BY <2>1, <2>3, <3>0, <3>2, ToggleStep, ZenonT(60)
      <4> QED
        BY <3>2, <4>1
    <3> QED
      BY <3>1, <3>2
  <2> QED
    BY <2>0, <2>4 DEF AckTravels, AckFire, OneEdge, Travels
<1> QED
  BY <1>7, <1>8, <1>9, <1>10, <1>11

LEMMA CpuTokenStep ==
  ASSUME TypeOK, TypeOK', Owned, CpuToken, Next
  PROVE  CpuToken'
<1> DEFINE over == TrpDone("S_TRP_WAIT")
           both == phase = 0
<1>1. /\ OneEdge(req_toggle_cpu, req_sync)'
      /\ OneEdge(req_accept_toggle, accept_sync)'
      /\ OneEdge(ack_toggle, ack_sync)'
  BY CpuToggles
<1>2. /\ ReqTravels' <=> req_toggle_cpu' # req_toggle_cpu \/ (ReqTravels /\ ~ReqFire)
      /\ AcceptTravels' <=> ReqFire \/ (AcceptTravels /\ ~(both /\ AcceptFire))
      /\ AckTravels' <=> over \/ (AckTravels /\ ~(both /\ AckFire))
      /\ req_valid' <=> (req_valid /\ ~over) \/ ReqFire
      /\ req_toggle_cpu' # req_toggle_cpu => cpu = NoOp
  BY CpuToggles
<1>3. over => req_valid
  BY DEF Owned, SingleStates, TrpDone
<1>4. /\ ReqFire => ReqTravels
      /\ AckFire => AckTravels /\ ack_sync[3] = ack_toggle
      /\ AcceptFire => AcceptTravels
      /\ AcceptTravels /\ accept_sync[3] = req_accept_toggle => AcceptFire
  <2>1. ReqFire => ReqTravels
    BY FireIsEdge DEF CpuToken, ReqFire, ReqTravels, TypeOK, ReqType
  <2>2. AckFire => AckTravels /\ ack_sync[3] = ack_toggle
    BY FireIsEdge DEF CpuToken, AckFire, AckTravels, TypeOK, ReqType
  <2>3. AcceptTravels /\ accept_sync[3] = req_accept_toggle => AcceptFire
    BY DEF AcceptTravels, Travels, AcceptFire, Fire
  <2>4. AcceptFire => AcceptTravels
    BY FireIsEdge DEF CpuToken, AcceptFire, AcceptTravels, TypeOK, ReqType
  <2> QED
    BY <2>1, <2>2, <2>3, <2>4
<1> DEFINE Answered == /\ both /\ AckFire /\ cpu' = NoOp /\ req_toggle_cpu' = req_toggle_cpu
                       /\ req_busy_cpu' <=> req_busy_cpu /\ ~(both /\ AcceptFire)
           Still    == /\ ~(both /\ AckFire) /\ cpu' = cpu /\ req_toggle_cpu' = req_toggle_cpu
                       /\ req_busy_cpu' <=> req_busy_cpu /\ ~(both /\ AcceptFire)
           Strobed  == /\ both /\ cpu = NoOp /\ cpu' # NoOp
                       /\ req_toggle_cpu' # req_toggle_cpu /\ req_busy_cpu'
<1>5. Answered \/ Still \/ Strobed
  <2>1. CASE FastEdge
    BY <2>1 DEF FastEdge, reqCpuVars
  <2>2. ASSUME NEW op \in CPU_OPS \cup {NoOp}, both, Cpu(op), P_req_cpu(op)
        PROVE  Answered \/ Still \/ Strobed
    <3> DEFINE busy == req_busy_cpu /\ ~AcceptFire
    <3>1. CASE AckFire
      <4>1. op = NoOp /\ cpu' = NoOp
        BY <2>2, <3>1 DEF Cpu
      <4>2. req_busy_cpu' = busy /\ req_toggle_cpu' = req_toggle_cpu
        BY <2>2, <4>1 DEF P_req_cpu
      <4> QED
        BY <2>2, <3>1, <4>1, <4>2
    <3>2. CASE ~AckFire /\ op = NoOp
      <4>1. cpu' = cpu
        BY <2>2, <3>2 DEF Cpu
      <4>2. req_busy_cpu' = busy /\ req_toggle_cpu' = req_toggle_cpu
        BY <2>2, <3>2 DEF P_req_cpu
      <4> QED
        BY <2>2, <3>2, <4>1, <4>2
    <3>3. CASE ~AckFire /\ op # NoOp
      <4>1. cpu = NoOp /\ cpu' = op
        BY <2>2, <3>3 DEF Cpu
      <4>2. ~req_busy_cpu
        BY <4>1 DEF CpuToken
      <4>3. req_toggle_cpu' = ~req_toggle_cpu /\ req_busy_cpu' = TRUE
        BY <2>2, <3>3, <4>2 DEF P_req_cpu
      <4>4. req_toggle_cpu' # req_toggle_cpu
        BY <4>3 DEF TypeOK, ReqType
      <4> QED
        BY <2>2, <3>3, <4>1, <4>3, <4>4
    <3> QED
      BY <3>1, <3>2, <3>3
  <2>3. \A op \in CPU_OPS \cup {NoOp}, adr \in VGA_ADRS \cup {NoOp}, pop \in BOOLEAN :
          BothEdges(op, adr, pop) => both /\ Cpu(op) /\ P_req_cpu(op)
    BY DEF BothEdges, CpuEdge
  <2> QED
    BY <2>1, <2>2, <2>3 DEF Next
<1>6. /\ ~(ReqTravels' /\ req_valid') /\ ~(ReqTravels' /\ AckTravels') /\ ~(req_valid' /\ AckTravels')
      /\ cpu' # NoOp <=> ReqTravels' \/ req_valid' \/ AckTravels'
      /\ req_busy_cpu' <=> ReqTravels' \/ AcceptTravels'
      /\ AcceptTravels' => req_valid' \/ AckTravels'
  <2>1. AckFire /\ AcceptTravels => AcceptFire
    BY <1>4 DEF CpuToken
  <2> HIDE DEF over, both
  <2>2. /\ ~(ReqTravels /\ req_valid) /\ ~(ReqTravels /\ AckTravels) /\ ~(req_valid /\ AckTravels)
        /\ cpu # NoOp <=> ReqTravels \/ req_valid \/ AckTravels
        /\ req_busy_cpu <=> ReqTravels \/ AcceptTravels
        /\ AcceptTravels => req_valid \/ AckTravels
    BY DEF CpuToken
  <2>3. CASE Answered
    BY <1>2, <1>3, <1>4, <2>1, <2>2, <2>3
  <2>4. CASE Still
    BY <1>2, <1>3, <1>4, <2>2, <2>4
  <2>5. CASE Strobed
    BY <1>2, <1>3, <1>4, <2>2, <2>5
  <2> QED
    BY <1>5, <2>3, <2>4, <2>5
<1>7. AckTravels' => \A i \in 1 .. 3 : ack_sync'[i] = ack_toggle' => accept_sync'[i] = req_accept_toggle'
  <2> SUFFICES ASSUME AckTravels'
               PROVE  \A i \in 1 .. 3 : ack_sync'[i] = ack_toggle' => accept_sync'[i] = req_accept_toggle'
    OBVIOUS
  <2>1. ~ReqFire
    BY <1>2, <1>3, <1>4 DEF CpuToken
  <2>2. PICK op \in CPU_OPS \cup {NoOp}, adr \in VGA_ADRS \cup {NoOp}, pop \in BOOLEAN :
          /\ P_req_latch /\ P_data(pop)
          /\ FastEdge \/ BothEdges(op, adr, pop)
    BY NextParts
  <2>3. req_accept_toggle' = req_accept_toggle /\ ack_toggle' = (ack_toggle # over)
    BY <2>1, <2>2 DEF P_req_latch, P_data
  <2>4. /\ ack_toggle \in BOOLEAN /\ ack_sync \in Chain /\ accept_sync \in Chain
        /\ req_accept_toggle \in BOOLEAN
    BY DEF TypeOK, ReqType
  <2>5. CASE over
    <3>1. ack_toggle' = ~ack_toggle
      BY <2>3, <2>5
    <3>2. ack_sync[1] = ack_toggle /\ ack_sync[2] = ack_toggle /\ ack_sync[3] = ack_toggle
      BY <1>3, <2>4, <2>5 DEF CpuToken, OneEdge, AckTravels, Travels
    <3>3. CASE FastEdge
      BY <2>4, <3>1, <3>2, <3>3 DEF FastEdge
    <3>4. CASE BothEdges(op, adr, pop)
      <4>1. PICK b \in {ack_toggle, ack_toggle'} : ack_sync' = Sync(ack_sync, b)
        BY <3>4 DEF BothEdges, P_sync_ack
      <4>2. accept_sync' = Sync(accept_sync, req_accept_toggle)
        BY <2>3, <3>4 DEF BothEdges, P_sync_ack
      <4>3. ack_sync'[2] = ack_toggle /\ ack_sync'[3] = ack_toggle
        BY <3>2, <4>1 DEF Sync
      <4>4. accept_sync'[1] = req_accept_toggle
        BY <4>2 DEF Sync
      <4> QED
        BY <2>3, <2>4, <3>1, <4>3, <4>4
    <3> QED
      BY <2>2, <3>3, <3>4
  <2>6. CASE ~over
    <3>1. ack_toggle' = ack_toggle
      BY <2>3, <2>4, <2>6 DEF TrpDone
    <3>2. \A i \in 1 .. 3 : ack_sync[i] = ack_toggle => accept_sync[i] = req_accept_toggle
      BY <1>2, <2>6 DEF CpuToken
    <3>3. CASE FastEdge
      BY <2>3, <3>1, <3>2, <3>3 DEF FastEdge
    <3>4. CASE BothEdges(op, adr, pop)
      <4>1. ack_sync' = Sync(ack_sync, ack_toggle)
        BY <3>1, <3>4 DEF BothEdges, P_sync_ack
      <4>2. accept_sync' = Sync(accept_sync, req_accept_toggle)
        BY <2>3, <3>4 DEF BothEdges, P_sync_ack
      <4>3. /\ ack_sync'[2] = ack_sync[1] /\ ack_sync'[3] = ack_sync[2]
            /\ accept_sync'[1] = req_accept_toggle
            /\ accept_sync'[2] = accept_sync[1] /\ accept_sync'[3] = accept_sync[2]
        BY <4>1, <4>2 DEF Sync
      <4> QED
        BY <2>3, <3>1, <3>2, <4>3
    <3> QED
      BY <2>2, <3>3, <3>4
  <2> QED
    BY <2>5, <2>6
<1> QED
  BY <1>1, <1>6, <1>7 DEF CpuToken

-----------------------------------------------------------------------------
(***************************************************************************)
(* The VGA port.                                                           *)
(***************************************************************************)

\* The words of a burst are counted down as the state machine reads them.
LEMMA VgaPath ==
  ASSUME TypeOK, TypeOK', VgaToken, P_sdram
  PROVE  /\ vga_col_cnt' <= BURST_WORDS - 1
         /\ state' = "S_VGA_TRCD_WAIT" => state \in {"S_ACTIVATE", "S_VGA_TRCD_WAIT"}
         /\ state' = "S_VGA_READ" =>
              \/ state \in {"S_VGA_TRCD_WAIT", "S_VGA_READ"} /\ vga_col_cnt' = vga_col_cnt
              \/ state = "S_VGA_CAPTURE" /\ vga_col_cnt' = vga_col_cnt + 1
         /\ state' = "S_VGA_CAPTURE" => state = "S_VGA_READ" /\ vga_col_cnt' = vga_col_cnt
         /\ state' = "S_VGA_PRECHARGE" => state = "S_VGA_CAPTURE"
         /\ state = "S_VGA_TRCD_WAIT" => state' \in {"S_VGA_TRCD_WAIT", "S_VGA_READ"}
         /\ state = "S_VGA_READ" => state' \in {"S_VGA_READ", "S_VGA_CAPTURE"}
         /\ state = "S_VGA_CAPTURE" => state' \in {"S_VGA_READ", "S_VGA_PRECHARGE"}
         /\ state = "S_VGA_PRECHARGE" => state' = "S_VGA_TRP_WAIT"
         /\ state' = "S_VGA_TRP_WAIT" =>
              \/ state = "S_VGA_PRECHARGE" /\ trcd_cnt' = 0
              \/ state = "S_VGA_TRP_WAIT" /\ trcd_cnt = 0 /\ trcd_cnt' = 1
         /\ state = "S_VGA_TRP_WAIT" /\ trcd_cnt = 0 => state' = "S_VGA_TRP_WAIT"
         /\ state = "S_ACTIVATE" /\ vga_valid => state' = "S_VGA_TRCD_WAIT"
<1>1. vga_col_cnt \in 0 .. 7 /\ BURST_WORDS \in 1 .. 8 /\ trcd_cnt \in 0 .. 3
  BY CtrlAssumption DEF TypeOK, AccessType, FsmType
<1>2. vga_col_cnt <= BURST_WORDS - 1 /\ (state = "S_VGA_TRP_WAIT" => trcd_cnt <= 1)
  BY DEF VgaToken
<1> QED
  BY <1>1, <1>2 DEF P_sdram, Init_wait, Prechg_all, Prechg_wait, Init_refresh, Ref_wait, Load_mode,
     Mode_wait, Idle, Auto_refresh, Activate, Trcd_wait, Read_wait, Read_capture,
     Write_setup, Write_cmd, Write_wait, Write_recovery, Vga_capture, Gpu_write,
     Precharge, Trp_wait, Wait, Step, Pick, TrcdNext, Goto, adrVars, colVars

\* What one edge does to the toggle of the port and to its latch.
LEMMA VgaToggles ==
  ASSUME TypeOK, TypeOK', Owned, VgaToken, Next
  PROVE  /\ OneEdge(vga_toggle_cpu, vga_sync)'
         /\ VgaTravels' <=> vga_toggle_cpu' # vga_toggle_cpu \/ (VgaTravels /\ ~VgaFire)
         /\ VgaFire => VgaTravels
         /\ vga_valid' = ((vga_valid \/ VgaFire) /\ ~TrpDone("S_VGA_TRP_WAIT"))
         /\ vga_toggle_cpu' # vga_toggle_cpu => ~vga_req_pending
<1>1. /\ vga_toggle_cpu \in BOOLEAN /\ vga_toggle_cpu' \in BOOLEAN /\ vga_sync \in Chain
  BY DEF TypeOK, VgaType
<1>2. PICK op \in CPU_OPS \cup {NoOp}, adr \in VGA_ADRS \cup {NoOp}, pop \in BOOLEAN :
        /\ P_vga_latch /\ P_sync_req
        /\ \/ FastEdge
           \/ BothEdges(op, adr, pop)
  BY NextParts
<1>3. vga_toggle_cpu' # vga_toggle_cpu => ~vga_req_pending
  <2>1. CASE FastEdge
    BY <2>1 DEF FastEdge, vgaCpuVars
  <2>2. CASE BothEdges(op, adr, pop)
    BY <1>1, <2>2 DEF BothEdges, CpuEdge, P_vga
  <2> QED
    BY <1>2, <2>1, <2>2
<1>4. /\ OneEdge(vga_toggle_cpu, vga_sync)'
      /\ VgaTravels' <=> vga_toggle_cpu' # vga_toggle_cpu \/ (VgaTravels /\ ~VgaFire)
  <2>1. vga_toggle_cpu' # vga_toggle_cpu => ~Travels(vga_toggle_cpu, vga_sync)
    BY <1>3 DEF VgaToken, VgaTravels
  <2>2. \E b \in {vga_toggle_cpu, vga_toggle_cpu'} : vga_sync' = Sync(vga_sync, b)
    BY <1>2 DEF P_sync_req
  <2>3. OneEdge(vga_toggle_cpu, vga_sync)
    BY DEF VgaToken
  <2>4. /\ OneEdge(vga_toggle_cpu', vga_sync')
        /\ Travels(vga_toggle_cpu', vga_sync') <=>
             vga_toggle_cpu' # vga_toggle_cpu \/ (Travels(vga_toggle_cpu, vga_sync) /\ ~(TRUE /\ Fire(vga_sync)))
    BY <1>1, <2>1, <2>2, <2>3, ToggleStep, ZenonT(60)
  <2> QED
    BY <2>4 DEF VgaTravels, VgaFire, OneEdge, Travels
<1>5. VgaFire => VgaTravels
  BY <1>1, FireIsEdge DEF VgaToken, VgaFire, VgaTravels
<1> QED
  BY <1>2, <1>3, <1>4, <1>5 DEF P_vga_latch

\* Every word of the FIFO is accounted for, whether it is pushed, popped or
\* both on one edge.
LEMMA FifoStep ==
  ASSUME TypeOK, NEW pop \in BOOLEAN, pop => VgaPop, P_data(pop)
  PROVE  LET gone == IF pop THEN 1 ELSE 0
         IN /\ Len(vga_fifo) \in Nat /\ Len(vga_fifo') \in Nat
            /\ gone <= Len(vga_fifo)
            /\ Len(vga_fifo') <= Len(vga_fifo) - gone + Writing
            /\ Writing' = 1 <=> state = "S_VGA_CAPTURE"
            /\ Writing \in {0, 1} /\ Writing' \in {0, 1}
<1>1. vga_fifo \in Seq(DATA) /\ vga_fifo_wr \in DATA \cup {NoOp} /\ dq \in DATA /\ NoOp \notin DATA
  BY CtrlAssumption DEF TypeOK, VgaType, ChipType
<1>2. Len(vga_fifo) \in Nat /\ (vga_fifo # << >> => Len(vga_fifo) >= 1)
  BY <1>1
<1>3. PICK left \in Seq(DATA) :
        /\ left = IF pop THEN Tail(vga_fifo) ELSE vga_fifo
        /\ Len(left) = Len(vga_fifo) - (IF pop THEN 1 ELSE 0)
  <2>1. CASE pop
    <3>1. vga_fifo # << >>
      BY <2>1 DEF VgaPop
    <3>2. Tail(vga_fifo) \in Seq(DATA) /\ Len(Tail(vga_fifo)) = Len(vga_fifo) - 1
      BY <1>1, <3>1
    <3> QED
      BY <2>1, <3>2
  <2>2. CASE ~pop
    BY <1>1, <1>2, <2>2
  <2> QED
    BY <2>1, <2>2
<1>4. vga_fifo' = IF vga_fifo_wr = NoOp \/ Len(vga_fifo) = BURST_WORDS
                  THEN left ELSE Append(left, vga_fifo_wr)
  BY <1>3 DEF P_data
<1>5. Len(vga_fifo') = Len(left) \/ (vga_fifo_wr # NoOp /\ Len(vga_fifo') = Len(left) + 1)
  BY <1>1, <1>3, <1>4
<1>6. Writing' = 1 <=> state = "S_VGA_CAPTURE"
  BY <1>1 DEF P_data, Writing
<1>7. Len(left) \in Nat
  BY <1>3
<1>8. pop => Len(vga_fifo) >= 1
  BY <1>2 DEF VgaPop
<1> QED
  BY <1>2, <1>3, <1>5, <1>6, <1>7, <1>8 DEF Writing

\* The words still to be read never grow but with a new request, and shrink by
\* each word captured.
LEMMA LeftStep ==
  ASSUME TypeOK, TypeOK', Owned, VgaToken, Next
  PROVE  /\ Left \in 0 .. BURST_WORDS /\ Left' \in 0 .. BURST_WORDS
         /\ VgaTravels => state \notin VgaStates /\ Left = BURST_WORDS
         /\ ~VgaTravels /\ ~VgaTravels' =>
              Left' + (IF state = "S_VGA_CAPTURE" THEN 1 ELSE 0) <= Left
<1>1. /\ vga_col_cnt \in 0 .. 7 /\ vga_col_cnt' \in 0 .. 7 /\ BURST_WORDS \in 1 .. 8
      /\ vga_col_cnt <= BURST_WORDS - 1
  BY CtrlAssumption DEF TypeOK, AccessType, VgaToken
<1>2. P_sdram
  BY NextParts
<1>3. vga_col_cnt' <= BURST_WORDS - 1
  BY <1>2, VgaPath
<1>4. Left \in 0 .. BURST_WORDS /\ Left' \in 0 .. BURST_WORDS
  <2>1. Left \in {BURST_WORDS, BURST_WORDS - vga_col_cnt, 0}
    BY DEF Left
  <2>2. Left' \in {BURST_WORDS, BURST_WORDS - vga_col_cnt', 0}
    BY DEF Left
  <2>3. BURST_WORDS \in 0 .. BURST_WORDS /\ 0 \in 0 .. BURST_WORDS
    BY <1>1
  <2>4. BURST_WORDS - vga_col_cnt \in 0 .. BURST_WORDS
    BY <1>1
  <2>5. BURST_WORDS - vga_col_cnt' \in 0 .. BURST_WORDS
    <3>1. \A n \in 1 .. 8, k \in 0 .. 7 : k <= n - 1 => n - k \in 0 .. n
      OBVIOUS
    <3> QED
      BY <1>1, <1>3, <3>1
  <2>6. Left \in 0 .. BURST_WORDS
    BY <2>1, <2>3, <2>4
  <2>7. Left' \in 0 .. BURST_WORDS
    BY <2>2, <2>3, <2>5
  <2> QED
    BY <2>6, <2>7
<1>5. VgaTravels => state \notin VgaStates /\ Left = BURST_WORDS
  BY DEF VgaToken, Owned, Left
<1>6. ASSUME ~VgaTravels, ~VgaTravels'
      PROVE  Left' + (IF state = "S_VGA_CAPTURE" THEN 1 ELSE 0) <= Left
  <2>1. vga_valid' = (vga_valid /\ ~TrpDone("S_VGA_TRP_WAIT"))
    BY <1>6, VgaToggles
  <2>2. state \in VgaStates => vga_valid
    BY DEF Owned
  <2>3. CASE state = "S_VGA_CAPTURE"
    <3>1. Left = BURST_WORDS - vga_col_cnt
      BY <1>6, <2>3 DEF Left, VgaStates
    <3>2. CASE state' = "S_VGA_READ"
      <4>1. vga_col_cnt' = vga_col_cnt + 1
        BY <1>2, <2>3, <3>2, VgaPath
      <4>2. Left' = BURST_WORDS - vga_col_cnt'
        BY <1>6, <3>2 DEF Left, VgaStates
      <4> QED
        BY <1>1, <2>3, <3>1, <4>1, <4>2
    <3>3. CASE state' = "S_VGA_PRECHARGE"
      <4>1. Left' = 0
        BY <1>6, <3>3 DEF Left, VgaStates
      <4> QED
        BY <1>1, <2>3, <3>1, <4>1
    <3> QED
      BY <1>2, <2>3, <3>2, <3>3, VgaPath
  <2>4. CASE state = "S_VGA_READ"
    <3>1. Left = BURST_WORDS - vga_col_cnt
      BY <1>6, <2>4 DEF Left, VgaStates
    <3>2. state' \in {"S_VGA_READ", "S_VGA_CAPTURE"} /\ vga_col_cnt' = vga_col_cnt
      BY <1>2, <2>4, VgaPath
    <3>3. Left' = BURST_WORDS - vga_col_cnt'
      BY <1>6, <3>2 DEF Left, VgaStates
    <3> QED
      BY <1>1, <2>4, <3>1, <3>2, <3>3
  <2>5. CASE state \in {"S_VGA_PRECHARGE", "S_VGA_TRP_WAIT"}
    <3>1. state' \notin {"S_VGA_TRCD_WAIT", "S_VGA_READ", "S_VGA_CAPTURE"}
      BY <1>2, <2>5, VgaPath
    <3>2. vga_valid' => state' \in VgaStates
      <4>1. vga_valid' => ~(state = "S_VGA_TRP_WAIT" /\ trcd_cnt = 1)
        BY <2>1 DEF TrpDone
      <4>2. state = "S_VGA_TRP_WAIT" => trcd_cnt \in {0, 1}
        BY DEF VgaToken, TypeOK, FsmType
      <4> QED
        BY <1>2, <2>5, <4>1, <4>2, VgaPath DEF VgaStates
    <3>3. Left' = 0
      BY <1>6, <3>1, <3>2 DEF Left
    <3> QED
      BY <1>4, <2>5, <3>3
  <2>6. CASE state \notin VgaStates \/ state = "S_VGA_TRCD_WAIT"
    <3>1. vga_valid => Left = BURST_WORDS
      BY <2>6 DEF Left
    <3>2. state # "S_VGA_CAPTURE"
      BY <2>6 DEF VgaStates
    <3>3. ~vga_valid => Left' = 0
      <4> SUFFICES ASSUME ~vga_valid PROVE Left' = 0
        OBVIOUS
      <4>1. ~vga_valid'
        BY <2>1
      <4>2. state' \notin VgaStates
        BY <1>2, <2>2, Paths
      <4> QED
        BY <1>6, <4>1, <4>2 DEF Left, VgaStates
    <3>4. Left' <= Left
      BY <1>4, <3>1, <3>3
    <3>5. Left' \in Int
      BY <1>1, <1>4
    <3> QED
      BY <3>2, <3>4, <3>5
  <2> QED
    BY <2>3, <2>4, <2>5, <2>6 DEF VgaStates
<1> QED
  BY <1>4, <1>5, <1>6

LEMMA Balance ==
  \A p, k, k2, w, l, l2, g, r, n \in Int :
    p + k + w + l <= n /\ k2 <= k - g + w /\ l2 + r <= l => p + g + k2 + r + l2 <= n
OBVIOUS

LEMMA VgaTokenStep ==
  ASSUME TypeOK, TypeOK', Owned, VgaToken, Next
  PROVE  VgaToken'
<1>1. PICK op \in CPU_OPS \cup {NoOp}, adr \in VGA_ADRS \cup {NoOp}, pop \in BOOLEAN :
        /\ P_data(pop) /\ P_sdram
        /\ pop => VgaPop
        /\ \/ FastEdge /\ ~pop
           \/ BothEdges(op, adr, pop)
  BY NextParts
<1> DEFINE last == vga_fifo_pop_cnt = BURST_WORDS - 1
           gone == IF pop THEN 1 ELSE 0
           read == IF state = "S_VGA_CAPTURE" THEN 1 ELSE 0
<1>2. /\ Len(vga_fifo) \in Nat /\ Len(vga_fifo') \in Nat /\ gone <= Len(vga_fifo)
      /\ Len(vga_fifo') <= Len(vga_fifo) - gone + Writing
      /\ Writing' = read /\ Writing \in {0, 1}
  <2>1. Writing' = 1 <=> state = "S_VGA_CAPTURE"
    BY <1>1, FifoStep
  <2>2. Writing' \in {0, 1}
    BY <1>1, FifoStep
  <2> QED
    BY <1>1, <2>1, <2>2, FifoStep
<1>3. /\ Left \in 0 .. BURST_WORDS /\ Left' \in 0 .. BURST_WORDS
      /\ VgaTravels => state \notin VgaStates /\ Left = BURST_WORDS
      /\ ~VgaTravels /\ ~VgaTravels' => Left' + read <= Left
  BY LeftStep
<1>4. /\ VgaTravels' <=> vga_toggle_cpu' # vga_toggle_cpu \/ (VgaTravels /\ ~VgaFire)
      /\ VgaFire => VgaTravels
      /\ vga_valid' = ((vga_valid \/ VgaFire) /\ ~TrpDone("S_VGA_TRP_WAIT"))
      /\ vga_toggle_cpu' # vga_toggle_cpu => ~vga_req_pending
  BY VgaToggles
<1>5. /\ BURST_WORDS \in 1 .. 8 /\ vga_fifo_pop_cnt \in 0 .. BURST_WORDS - 1
      /\ vga_fifo_pop_cnt' \in 0 .. BURST_WORDS - 1
      /\ vga_req_pending \in BOOLEAN /\ vga_req_pending' \in BOOLEAN
  BY CtrlAssumption DEF TypeOK, VgaType
<1>6. /\ VgaTravels => vga_req_pending /\ ~vga_valid
      /\ vga_req_pending => vga_fifo_pop_cnt + Len(vga_fifo) + Writing + Left <= BURST_WORDS
      /\ ~vga_req_pending => vga_fifo_pop_cnt = 0 /\ Len(vga_fifo) = 0 /\ Writing = 0
      /\ ~vga_req_pending /\ vga_valid => state = "S_VGA_TRP_WAIT" /\ trcd_cnt = 1
  BY DEF VgaToken, Writing
<1>7. state \in VgaStates => vga_valid
  BY DEF Owned
\* The reader asks anew, waits on, or has popped its last word.
<1> DEFINE Asks  == /\ ~vga_req_pending /\ ~pop /\ vga_req_pending' = TRUE
                    /\ vga_fifo_pop_cnt' = 0 /\ vga_toggle_cpu' # vga_toggle_cpu
           Rests == /\ ~pop /\ ~vga_req_pending /\ vga_req_pending' = FALSE
                    /\ vga_fifo_pop_cnt' = 0 /\ vga_toggle_cpu' = vga_toggle_cpu
           Waits == /\ vga_req_pending /\ vga_req_pending' = TRUE /\ ~(pop /\ last)
                    /\ vga_fifo_pop_cnt' = vga_fifo_pop_cnt + gone
                    /\ vga_toggle_cpu' = vga_toggle_cpu
           Ends  == /\ vga_req_pending /\ vga_req_pending' = FALSE /\ pop /\ last
                    /\ vga_fifo_pop_cnt' = 0 /\ vga_toggle_cpu' = vga_toggle_cpu
<1>8. Asks \/ Rests \/ Waits \/ Ends
  <2>1. CASE FastEdge /\ ~pop
    BY <1>5, <1>6, <2>1 DEF FastEdge, vgaCpuVars
  <2>2. CASE BothEdges(op, adr, pop)
    <3>1. P_vga(adr, pop) /\ (vga_req_pending => adr = NoOp)
      BY <2>2 DEF BothEdges, CpuEdge
    <3>2. pop => vga_req_pending
      BY <1>1 DEF VgaPop
    <3>3. vga_toggle_cpu \in BOOLEAN
      BY DEF TypeOK, VgaType
    <3>4. CASE ~vga_req_pending /\ adr # NoOp
      BY <3>1, <3>2, <3>3, <3>4 DEF P_vga
    <3>5. CASE ~vga_req_pending /\ adr = NoOp
      BY <1>6, <3>1, <3>2, <3>3, <3>5 DEF P_vga
    <3>6. CASE vga_req_pending /\ pop /\ last
      BY <3>1, <3>3, <3>6 DEF P_vga
    <3>7. CASE vga_req_pending /\ ~(pop /\ last)
      <4>1. vga_fifo_pop_cnt' = IF pop THEN vga_fifo_pop_cnt + 1 ELSE vga_fifo_pop_cnt
        BY <3>1, <3>7 DEF P_vga
      <4>2. vga_req_pending' = TRUE /\ vga_toggle_cpu' = vga_toggle_cpu
        BY <3>1, <3>3, <3>7 DEF P_vga
      <4> QED
        BY <1>5, <3>7, <4>1, <4>2
    <3> QED
      BY <3>4, <3>5, <3>6, <3>7
  <2> QED
    BY <1>1, <2>1, <2>2
<1> HIDE DEF last, gone, read
<1>9. OneEdge(vga_toggle_cpu, vga_sync)'
  BY VgaToggles
<1>10. /\ vga_col_cnt' <= BURST_WORDS - 1
       /\ state' = "S_VGA_TRP_WAIT" => trcd_cnt' <= 1
       /\ state' = "S_VGA_PRECHARGE" => vga_fifo_wr' # NoOp
  <2>1. state' = "S_VGA_PRECHARGE" => vga_fifo_wr' # NoOp
    <3>1. state' = "S_VGA_PRECHARGE" => state = "S_VGA_CAPTURE"
      BY <1>1, VgaPath
    <3>2. dq # NoOp
      BY CtrlAssumption DEF TypeOK, ChipType
    <3> QED
      BY <1>1, <3>1, <3>2 DEF P_data
  <2>2. state' = "S_VGA_TRP_WAIT" => trcd_cnt' \in {0, 1}
    BY <1>1, VgaPath
  <2> QED
    BY <1>1, <2>1, <2>2, VgaPath
<1>11. VgaTravels' => vga_req_pending' /\ ~vga_valid'
  <2>1. ~vga_req_pending => ~vga_valid'
    BY <1>4, <1>6 DEF TrpDone
  <2>2. VgaTravels /\ ~VgaFire => ~vga_valid' /\ vga_req_pending
    BY <1>4, <1>6
  <2>3. VgaTravels => ~(pop /\ last)
    BY <1>1, <1>2, <1>3, <1>5, <1>6 DEF gone, last
  <2> QED
    BY <1>4, <1>8, <2>1, <2>2, <2>3
<1>12. vga_req_pending' => vga_fifo_pop_cnt' + Len(vga_fifo') + Writing' + Left' <= BURST_WORDS
  <2>1. CASE Asks
    <3>1. state # "S_VGA_CAPTURE"
      BY <1>6, <1>7, <2>1 DEF VgaStates
    <3> QED
      BY <1>2, <1>3, <1>5, <1>6, <2>1, <3>1 DEF read, gone
  <2>2. CASE Waits /\ VgaTravels
    <3>1. vga_fifo_pop_cnt = 0 /\ Len(vga_fifo) = 0 /\ Writing = 0
      BY <1>2, <1>3, <1>5, <1>6, <2>2
    <3>2. ~pop /\ gone = 0
      BY <1>2, <3>1 DEF gone
    <3>3. read = 0
      BY <1>3, <2>2 DEF read, VgaStates
    <3> QED
      BY <1>2, <1>3, <1>5, <2>2, <3>1, <3>2, <3>3
  <2>3. CASE Waits /\ ~VgaTravels
    <3>1. Left' + read <= Left
      BY <1>3, <1>4, <2>3
    <3>2. gone \in {0, 1} /\ read \in {0, 1}
      BY DEF gone, read
    <3>3. /\ vga_fifo_pop_cnt + Len(vga_fifo) + Writing + Left <= BURST_WORDS
          /\ vga_fifo_pop_cnt' = vga_fifo_pop_cnt + gone
      BY <1>6, <2>3
    <3>4. /\ Left \in Int /\ Left' \in Int /\ BURST_WORDS \in Int
          /\ vga_fifo_pop_cnt \in Int /\ Writing \in Int
      BY <1>2, <1>3, <1>5
    <3>5. /\ Len(vga_fifo') <= Len(vga_fifo) - gone + Writing
          /\ Len(vga_fifo) \in Int /\ Len(vga_fifo') \in Int /\ Writing' = read
      BY <1>2
    <3>6. vga_fifo_pop_cnt + gone + Len(vga_fifo') + read + Left' <= BURST_WORDS
      <4> gone \in Int /\ read \in Int
        BY <3>2
      <4> QED
        BY <3>1, <3>3, <3>4, <3>5, Balance
    <3> QED
      BY <3>3, <3>5, <3>6
  <2> QED
    BY <1>8, <2>1, <2>2, <2>3
<1>13. ~vga_req_pending' => /\ vga_fifo_pop_cnt' = 0 /\ vga_fifo' = << >> /\ vga_fifo_wr' = NoOp
                            /\ vga_valid' => state' = "S_VGA_TRP_WAIT" /\ trcd_cnt' = 1
  <2>0. /\ read = 0 => vga_fifo_wr' = NoOp
        /\ Len(vga_fifo') = 0 => vga_fifo' = << >>
        /\ read \in {0, 1} /\ gone \in {0, 1}
        /\ read = 1 <=> state = "S_VGA_CAPTURE"
        /\ gone = 1 <=> pop
    <3>1. read = 0 => vga_fifo_wr' = NoOp
      BY <1>2 DEF Writing, read
    <3>2. Len(vga_fifo') = 0 => vga_fifo' = << >>
      BY DEF TypeOK, VgaType
    <3> QED
      BY <3>1, <3>2 DEF read, gone
  <2>1. CASE Rests
    <3>1. ~vga_valid'
      BY <1>4, <1>6, <2>1 DEF TrpDone
    <3>2. read = 0
      BY <1>6, <1>7, <2>0, <2>1 DEF VgaStates
    <3>3. Len(vga_fifo') = 0
      BY <1>2, <1>6, <2>0, <2>1
    <3> QED
      BY <2>0, <2>1, <3>1, <3>2, <3>3
  <2>2. CASE Ends
    <3>1. Left = 0 /\ Writing = 0 /\ Len(vga_fifo) = 1 /\ gone = 1
      <4>1. vga_fifo_pop_cnt + Len(vga_fifo) + Writing + Left <= BURST_WORDS
        BY <1>6, <2>2
      <4>2. vga_fifo_pop_cnt = BURST_WORDS - 1 /\ gone = 1
        BY <2>0, <2>2 DEF last
      <4>3. Left \in Int /\ Left >= 0 /\ BURST_WORDS \in Int
        BY <1>3, <1>5
      <4>4. Len(vga_fifo) >= 1 /\ Writing >= 0 /\ Len(vga_fifo) \in Int /\ Writing \in Int
        BY <1>2, <4>2
      <4>5. \A k, l, w, n \in Int : n - 1 + k + w + l <= n /\ k >= 1 /\ w >= 0 /\ l >= 0
                                     => k = 1 /\ w = 0 /\ l = 0
        OBVIOUS
      <4> QED
        BY <4>1, <4>2, <4>3, <4>4, <4>5
    <3>2. ~VgaTravels
      BY <1>3, <1>5, <3>1
    <3>3. state # "S_VGA_CAPTURE"
      BY <1>5, <3>1, <3>2 DEF Left, VgaToken, TypeOK, AccessType, VgaStates
    <3>4. Len(vga_fifo') = 0
      BY <1>2, <3>1
    <3>5. vga_valid' => state = "S_VGA_TRP_WAIT" /\ trcd_cnt = 0
      <4> SUFFICES ASSUME vga_valid' PROVE state = "S_VGA_TRP_WAIT" /\ trcd_cnt = 0
        OBVIOUS
      <4>1. vga_valid /\ ~TrpDone("S_VGA_TRP_WAIT")
        BY <1>4, <3>2
      <4>2. state \in {"S_VGA_READ", "S_VGA_PRECHARGE", "S_VGA_TRP_WAIT"}
        BY <1>5, <3>1, <3>3, <4>1 DEF Left, VgaStates
      <4>3. state # "S_VGA_READ"
        BY <1>5, <3>1, <3>2 DEF Left, VgaToken, TypeOK, AccessType, VgaStates
      <4>4. state # "S_VGA_PRECHARGE"
        BY <3>1 DEF VgaToken, Writing
      <4>5. state = "S_VGA_TRP_WAIT" => trcd_cnt \in {0, 1}
        BY DEF VgaToken, TypeOK, FsmType
      <4> QED
        BY <4>1, <4>2, <4>3, <4>4, <4>5 DEF TrpDone
    <3>6. vga_valid' => state' = "S_VGA_TRP_WAIT" /\ trcd_cnt' = 1
      BY <1>1, <3>5, VgaPath
    <3> QED
      BY <2>0, <2>2, <3>3, <3>4, <3>6
  <2> QED
    BY <1>8, <2>1, <2>2
<1> QED
  BY <1>9, <1>10, <1>11, <1>12, <1>13 DEF VgaToken

-----------------------------------------------------------------------------
(***************************************************************************)
(* The theorems.                                                           *)
(***************************************************************************)
LEMMA InitTokens == Init => Tokens
<1> SUFFICES ASSUME Init PROVE Tokens
  OBVIOUS
<1>1. \A t \in BOOLEAN : OneEdge(t, Flat(t)) /\ ~Travels(t, Flat(t))
  BY DEF OneEdge, Travels, Flat
<1>2. Owned /\ GpuToken
  BY DEF Init, CtrlInit, Owned, GpuToken, SingleStates, VgaStates, GpuStates
<1>3. CpuToken
  BY <1>1 DEF Init, CtrlInit, CpuToken, ReqTravels, AcceptTravels, AckTravels
<1>4. VgaToken
  <2>1. ~VgaTravels /\ OneEdge(vga_toggle_cpu, vga_sync)
    BY <1>1 DEF Init, CtrlInit, VgaTravels
  <2>2. 0 <= BURST_WORDS - 1
    BY CtrlAssumption
  <2> QED
    BY <2>1, <2>2 DEF Init, CtrlInit, VgaToken
<1> QED
  BY <1>2, <1>3, <1>4 DEF Tokens

LEMMA TokensStutter ==
  ASSUME Tokens, UNCHANGED vars
  PROVE  Tokens'
<1> USE DEF vars, ctrlVars, pins, chipVars
<1>1. Owned' /\ GpuToken'
  BY DEF Tokens, Owned, GpuToken
<1>2. CpuToken'
  BY DEF Tokens, CpuToken, ReqTravels, AcceptTravels, AckTravels, Travels, OneEdge
<1>3. VgaToken'
  BY DEF Tokens, VgaToken, VgaTravels, Travels, OneEdge, Writing, Left
<1> QED
  BY <1>1, <1>2, <1>3 DEF Tokens

\* Each request port of sdram_ctrl.vhd has at most one request, in exactly one
\* place between its master and its latch, and a path of the state machine is
\* only entered on the way of a latched request.
THEOREM TokensAlways == Spec => []Tokens
<1>1. TypeOK /\ TypeOK' /\ Tokens /\ [Next]_vars => Tokens'
  BY OwnedStep, CpuTokenStep, GpuTokenStep, VgaTokenStep, TokensStutter DEF Tokens
<1> QED
  BY <1>1, InitTokens, TypeCorrect, PTL DEF Spec

\* No request is lost or overwritten: whatever the interleaving of the two
\* clocks and of the three masters, a pulse that has crossed finds its latch
\* empty.
THEOREM RequestsSafe == Spec => []RequestsSurvive
<1>1. TypeOK /\ Tokens => RequestsSurvive
  <2> SUFFICES ASSUME TypeOK, Tokens PROVE RequestsSurvive
    OBVIOUS
  <2>1. ReqFire => ReqTravels
    BY FireIsEdge DEF Tokens, CpuToken, ReqFire, ReqTravels, TypeOK, ReqType
  <2>2. VgaFire => VgaTravels
    BY FireIsEdge DEF Tokens, VgaToken, VgaFire, VgaTravels, TypeOK, VgaType
  <2> QED
    BY <2>1, <2>2 DEF Tokens, CpuToken, VgaToken, GpuToken, RequestsSurvive
<1> QED
  BY <1>1, TokensAlways, TypeCorrect, PTL

\* The payload registers, which cross between the clocks without synchronizers,
\* hold still from the flip of their toggle until it has been seen.
THEOREM PayloadSafe == Spec => PayloadHeld
<1> DEFINE Held == /\ req_toggle_cpu # req_sync[4] => UNCHANGED req_shadow
                   /\ vga_toggle_cpu # vga_sync[4] => UNCHANGED vga_shadow_adr
<1>1. Tokens /\ Next => Held
  <2> SUFFICES ASSUME Tokens, Next PROVE Held
    OBVIOUS
  <2>1. ReqTravels => cpu # NoOp /\ ~AckTravels
    BY DEF Tokens, CpuToken
  <2>2. VgaTravels => vga_req_pending
    BY DEF Tokens, VgaToken
  <2>3. CASE FastEdge
    BY <2>3 DEF FastEdge, reqCpuVars, vgaCpuVars
  <2>4. ASSUME NEW op, NEW adr, NEW pop, BothEdges(op, adr, pop)
        PROVE  Held
    <3>1. Cpu(op) /\ P_req_cpu(op) /\ P_vga(adr, pop) /\ (vga_req_pending => adr = NoOp)
      BY <2>4 DEF BothEdges, CpuEdge
    <3>2. ReqTravels => op = NoOp
      BY <2>1, <3>1 DEF Cpu
    <3>3. ReqTravels => UNCHANGED req_shadow
      BY <3>1, <3>2 DEF P_req_cpu
    <3>4. VgaTravels => UNCHANGED vga_shadow_adr
      BY <2>2, <3>1 DEF P_vga
    <3> QED
      BY <3>3, <3>4 DEF ReqTravels, VgaTravels, Travels
  <2> QED
    BY <2>3, <2>4 DEF Next
<1>2. Tokens /\ [Next]_vars => [Held]_vars
  BY <1>1
<1> QED
  BY <1>2, TokensAlways, PTL DEF Spec, PayloadHeld

\* The port is free for a CPU that waits for nothing, and the FIFO has room for
\* the word on its way into it.
Accepting ==
  /\ cpu = NoOp => ~req_busy_cpu
  /\ vga_fifo_wr # NoOp => Len(vga_fifo) < BURST_WORDS

\* p_req_cpu, which ignores a strobe while it is busy, never ignores one, and
\* the FIFO behind a VGA burst never drops a word.
THEOREM NothingDropped == Spec => []Accepting
<1>1. TypeOK /\ Tokens => Accepting
  <2> SUFFICES ASSUME TypeOK, Tokens PROVE Accepting
    OBVIOUS
  <2>1. cpu = NoOp => ~req_busy_cpu
    BY DEF Tokens, CpuToken
  <2>2. /\ vga_fifo_pop_cnt \in Nat /\ Len(vga_fifo) \in Nat /\ vga_col_cnt \in Nat
        /\ BURST_WORDS \in 1 .. 8 /\ vga_col_cnt <= BURST_WORDS - 1
    BY CtrlAssumption DEF TypeOK, VgaType, AccessType, Tokens, VgaToken
  <2>3. Left >= 0 /\ Left \in Int
    BY <2>2 DEF Left
  <2>4. vga_fifo_wr # NoOp => Len(vga_fifo) < BURST_WORDS
    BY <2>2, <2>3 DEF Tokens, VgaToken, Writing
  <2> QED
    BY <2>1, <2>4 DEF Accepting
<1> QED
  BY <1>1, TokensAlways, TypeCorrect, PTL
-----------------------------------------------------------------------------
(***************************************************************************)
(* The fields of an address name its cell.                                 *)
(***************************************************************************)

\* The quotient of a division is unique.
LEMMA Quotient ==
  ASSUME NEW m \in Nat \ {0}, NEW q \in Int, NEW q2 \in Int,
         NEW r \in 0 .. m - 1, NEW r2 \in 0 .. m - 1, m * q + r = m * q2 + r2
  PROVE  q = q2
<1>1. \A x \in Int, y \in Int : x < y => m * x + m <= m * y
  <2> SUFFICES ASSUME NEW x \in Int, NEW y \in Int, x < y PROVE m * x + m <= m * y
    OBVIOUS
  <2>1. y - x - 1 >= 0 /\ m \in Nat
    OBVIOUS
  <2>2. m * (y - x - 1) >= 0
    BY <2>1
  <2>3. m * (y - x - 1) = m * y - m * x - m
    OBVIOUS
  <2> QED
    BY <2>2, <2>3
<1>2. ~(q < q2)
  BY <1>1
<1>3. ~(q2 < q)
  BY <1>1
<1> QED
  BY <1>2, <1>3

LEMMA Division == \A m \in Nat \ {0}, a \in Nat :
                    a = m * (a \div m) + (a % m) /\ a \div m \in Nat /\ a % m \in 0 .. m - 1
<1>1. \A m \in Nat \ {0}, a \in Nat : a = m * (a \div m) + (a % m)
  BY Z3
<1> QED
  BY <1>1, ModRange

LEMMA Products ==
  /\ \A m, n \in Nat \ {0} : m * n \in Nat \ {0}
  /\ \A m, n, k, l \in Int : 0 <= k /\ k <= n - 1 /\ 0 <= l /\ l <= m - 1
                               => 0 <= m * k + l /\ m * k + l <= m * n - 1
  /\ \A m, k, l \in Int : m * k + l \in Int
  /\ \A m, n, q, k, l \in Int : m * (n * q + k) + l = (m * n) * q + (m * k + l)
<1>1. \A m, n \in Nat \ {0} : m * n \in Nat \ {0}
  OBVIOUS
<1>2. \A m, n, k, l \in Int : 0 <= k /\ k <= n - 1 /\ 0 <= l /\ l <= m - 1
                                => 0 <= m * k + l /\ m * k + l <= m * n - 1
  OBVIOUS
<1>3. \A m, k, l \in Int : m * k + l \in Int
  OBVIOUS
<1>4. \A m, n, q, k, l \in Int : m * (n * q + k) + l = (m * n) * q + (m * k + l)
  OBVIOUS
<1> QED
  BY <1>1, <1>2, <1>3, <1>4

\* Dividing twice is dividing by the product.
LEMMA DivDiv ==
  ASSUME NEW m \in Nat \ {0}, NEW n \in Nat \ {0}, NEW a \in Nat
  PROVE  (a \div m) \div n = a \div (m * n)
<1>1. PICK p \in Nat, l \in 0 .. m - 1 : p = a \div m /\ a = m * p + l
  BY Division
<1>2. PICK q \in Nat, k \in 0 .. n - 1 : q = p \div n /\ p = n * q + k
  BY Division
<1>3. PICK mn \in Nat \ {0} : mn = m * n
  BY Products
<1>4. PICK q2 \in Nat, r2 \in 0 .. mn - 1 : q2 = a \div mn /\ a = mn * q2 + r2
  BY Division
<1>5. PICK r \in Int : r = m * k + l
  <2>1. m \in Int /\ k \in Int /\ l \in Int
    OBVIOUS
  <2> QED
    BY <2>1, Products
<1>6. r \in 0 .. mn - 1
  <2>1. m \in Int /\ n \in Int /\ k \in Int /\ l \in Int
    OBVIOUS
  <2>2. 0 <= k /\ k <= n - 1 /\ 0 <= l /\ l <= m - 1
    OBVIOUS
  <2>3. 0 <= m * k + l /\ m * k + l <= m * n - 1
    BY <2>1, <2>2, Products
  <2>4. 0 <= r /\ r <= mn - 1
    BY <1>3, <1>5, <2>3
  <2> QED
    BY <1>3, <1>5, <2>4
<1>7. a = mn * q + r
  <2>1. m \in Int /\ n \in Int /\ k \in Int /\ l \in Int /\ q \in Int
    OBVIOUS
  <2>2. m * (n * q + k) + l = (m * n) * q + (m * k + l)
    BY <2>1, Products
  <2> QED
    BY <1>1, <1>2, <1>3, <1>5, <2>2
<1>8. q = q2
  <2>1. mn * q + r = mn * q2 + r2
    BY <1>4, <1>7
  <2>2. q \in Int /\ q2 \in Int
    OBVIOUS
  <2> QED
    BY <1>3, <1>4, <1>6, <2>1, <2>2, Quotient
<1> QED
  BY <1>1, <1>2, <1>3, <1>4, <1>8

\* bank = {addr[24], addr[10]}, row = addr[23:11] and col = addr[9:0] lose no
\* bit of the address: the cell they name is the one addressed.
LEMMA FieldsNameCell ==
  ASSUME NEW a \in Adr
  PROVE  Cell(BankOf(a), RowOf(a), ColOf(a)) = a
<1>1. a \in Nat /\ COLS \in Nat \ {0} /\ ROWS \in Nat \ {0}
  BY Geometry
<1>2. PICK x \in Nat, c \in 0 .. COLS - 1 : x = a \div COLS /\ c = a % COLS /\ a = COLS * x + c
  BY <1>1, Division
<1>3. PICK y \in Nat, l \in 0 .. 1 : y = x \div 2 /\ l = x % 2 /\ x = 2 * y + l
  OBVIOUS
<1>4. PICK h \in Nat, r \in 0 .. ROWS - 1 : h = y \div ROWS /\ r = y % ROWS /\ y = ROWS * h + r
  BY <1>1, Division
<1>5. y = a \div (2 * COLS)
  <2>1. y = a \div (COLS * 2)
    BY <1>1, <1>2, <1>3, DivDiv
  <2>2. COLS * 2 = 2 * COLS
    BY <1>1
  <2> QED
    BY <2>1, <2>2
<1>6. h = a \div (2 * ROWS * COLS)
  <2>1. 2 * COLS \in Nat \ {0}
    BY <1>1
  <2>2. h = a \div ((2 * COLS) * ROWS)
    BY <1>1, <1>4, <1>5, <2>1, DivDiv
  <2>3. (2 * COLS) * ROWS = 2 * ROWS * COLS
    BY <1>1
  <2> QED
    BY <2>2, <2>3
<1>7. h \in {0, 1}
  <2>1. 2 * ROWS * COLS \in Nat \ {0} /\ a \in 0 .. 2 * (2 * ROWS * COLS) - 1
    BY Geometry DEF Adr
  <2> QED
    BY <1>6, <2>1, HalfDiv
<1>8. BankOf(a) = 2 * h + l /\ RowOf(a) = r /\ ColOf(a) = c
  BY <1>2, <1>3, <1>4, <1>5, <1>6 DEF BankOf, RowOf, ColOf
<1>9. BankOf(a) \div 2 = h /\ BankOf(a) % 2 = l
  BY <1>7, <1>8
<1>10. 2 * ROWS * COLS * h + 2 * COLS * r + COLS * l + c = a
  <2>1. \A n, m, i, j, k, e \in Int :
          2 * n * m * i + 2 * m * j + m * k + e = m * (2 * (n * i + j) + k) + e
    OBVIOUS
  <2>2. ROWS \in Int /\ COLS \in Int /\ h \in Int /\ r \in Int /\ l \in Int /\ c \in Int
    BY <1>1
  <2>3. 2 * ROWS * COLS * h + 2 * COLS * r + COLS * l + c = COLS * (2 * (ROWS * h + r) + l) + c
    BY <2>1, <2>2
  <2> QED
    BY <1>2, <1>3, <1>4, <2>3
<1> QED
  BY <1>8, <1>9, <1>10 DEF Cell

-----------------------------------------------------------------------------
(***************************************************************************)
(* The invariant of the refinement, on top of the types, the rows, the     *)
(* timing and the tokens.                                                  *)
(***************************************************************************)

\* No 2D engine: its burst would write cells behind the CPU's back.
NoGpu == GPU_ADRS = {}

GpuIdle == ~gpu_wr_req /\ ~gpu_wr_valid

\* The access registers hold the CPU's request.
PickedCpu == addr_r = req.adr /\ we_r = req.we /\ wr_data_r = req.dat

\* The operation the CPU waits for is the one in its token's place.  A request
\* picked in S_IDLE is served by the single-word states only if no VGA request
\* has arrived by S_ACTIVATE.
Carried ==
  /\ ReqTravels => req_shadow = cpu
  /\ req_valid => req = cpu
  /\ state = "S_ACTIVATE" /\ ~vga_valid => PickedCpu
  /\ state \in SingleStates => PickedCpu

\* The accesses: their direction, what is on the pins, and the word the device
\* drives from the second cycle after a READ until it is captured.
Accesses ==
  /\ state \in {"S_WRITE_SETUP", "S_WRITE_CMD", "S_WRITE_WAIT", "S_WRITE_RECOVERY"} => we_r
  /\ state \in {"S_READ_WAIT", "S_READ_CAPTURE"} => ~we_r
  /\ state = "S_WRITE_WAIT" => cmd = "WRITE" /\ dram_addr = ColOf(addr_r) /\ dq_oe
  /\ state = "S_READ_WAIT" /\ cas_cnt = 1 => dram_addr = ColOf(addr_r)
  /\ cmd = "WRITE" => state = "S_WRITE_WAIT"
  /\ (state = "S_READ_WAIT" /\ cas_cnt >= 2) \/ state = "S_READ_CAPTURE" => dq = mem[addr_r]

\* The answer follows its acknowledge through the flops.
Answers ==
  AckTravels => /\ ack_sync[1] = ack_toggle => rd_data_cpu[1] = rd_data_hold
                /\ ack_sync[2] = ack_toggle => rd_data_cpu[2] = rd_data_hold

MemInv == GpuIdle /\ Carried /\ Accesses /\ Answers

-----------------------------------------------------------------------------
(***************************************************************************)
(* What one edge does to the operation the CPU waits for.                  *)
(***************************************************************************)
Answered ==
  /\ phase = 0 /\ AckFire /\ cpu' = NoOp /\ UNCHANGED <<req_shadow, req_toggle_cpu>>
  /\ cpu_dat' = IF cpu # NoOp /\ ~cpu.we THEN rd_data_cpu[2] ELSE cpu_dat
Strobed ==
  /\ cpu = NoOp /\ cpu' \in CPU_OPS /\ req_shadow' = cpu' /\ req_toggle_cpu' # req_toggle_cpu
  /\ UNCHANGED cpu_dat
Still ==
  /\ ~(phase = 0 /\ AckFire) /\ UNCHANGED <<cpu, cpu_dat, req_shadow, req_toggle_cpu>>

LEMMA CpuSteps ==
  ASSUME TypeOK, Tokens, Next
  PROVE  Answered \/ Strobed \/ Still
<1>1. CASE FastEdge
  BY <1>1 DEF FastEdge, reqCpuVars, Still
<1>2. ASSUME NEW op \in CPU_OPS \cup {NoOp}, NEW adr, NEW pop, BothEdges(op, adr, pop)
      PROVE  Answered \/ Strobed \/ Still
  <2>1. phase = 0 /\ Cpu(op) /\ P_req_cpu(op)
    BY <1>2 DEF BothEdges, CpuEdge
  <2>2. CASE AckFire
    <3>1. op = NoOp
      BY <2>1, <2>2 DEF Cpu
    <3> QED
      BY <2>1, <2>2, <3>1 DEF Cpu, P_req_cpu, Answered
  <2>3. CASE ~AckFire /\ op = NoOp
    BY <2>1, <2>3 DEF Cpu, P_req_cpu, Still
  <2>4. CASE ~AckFire /\ op # NoOp
    <3>1. cpu = NoOp /\ cpu' = op /\ UNCHANGED cpu_dat
      BY <2>1, <2>4 DEF Cpu
    <3>2. ~req_busy_cpu
      BY <3>1 DEF Tokens, CpuToken
    <3>3. req_shadow' = op /\ req_toggle_cpu' = ~req_toggle_cpu
      BY <2>1, <2>4, <3>2 DEF P_req_cpu
    <3>4. req_toggle_cpu' # req_toggle_cpu
      BY <3>3 DEF TypeOK, ReqType
    <3> QED
      BY <2>4, <3>1, <3>3, <3>4 DEF Strobed
  <2> QED
    BY <2>2, <2>3, <2>4
<1> QED
  BY <1>1, <1>2 DEF Next

\* An acknowledge or a strobe finds no request on its way or latched.
LEMMA CpuHolds ==
  ASSUME TypeOK, Tokens, Next
  PROVE  /\ ReqTravels \/ req_valid => Still
         /\ Answered => AckTravels /\ cpu # NoOp
         /\ Strobed => ~ReqTravels /\ ~req_valid /\ ~AckTravels
<1>1. AckFire => AckTravels
  BY FireIsEdge DEF Tokens, CpuToken, AckFire, AckTravels, TypeOK, ReqType
<1>2. Answered => AckTravels
  BY <1>1 DEF Answered
<1> QED
  BY <1>2, CpuSteps DEF Tokens, CpuToken, Strobed

\* The state machine, as far as the single-word accesses go.
LEMMA AccessPath ==
  ASSUME TypeOK, Spaced, P_sdram, state \notin GpuStates
  PROVE  /\ state' = "S_ACTIVATE" /\ ~vga_valid /\ ~gpu_wr_valid
              => state = "S_IDLE" /\ addr_r' = req.adr /\ we_r' = req.we /\ wr_data_r' = req.dat
         /\ state' \in SingleStates => UNCHANGED <<addr_r, we_r, wr_data_r>>
         /\ state' = "S_WRITE_SETUP" => state = "S_TRCD_WAIT" /\ we_r
         /\ state' = "S_WRITE_CMD" => state = "S_WRITE_SETUP"
         /\ state' = "S_WRITE_WAIT" => state = "S_WRITE_CMD"
         /\ state' = "S_WRITE_RECOVERY" => state = "S_WRITE_WAIT"
         /\ state' = "S_READ_WAIT" =>
              \/ state = "S_TRCD_WAIT" /\ ~we_r /\ cas_cnt' = 0
              \/ state = "S_READ_WAIT" /\ cas_cnt' = cas_cnt + 1
         /\ state' = "S_READ_CAPTURE" => state = "S_READ_WAIT" /\ cas_cnt = 4
         /\ state = "S_WRITE_CMD" => cmd' = "WRITE" /\ dram_addr' = ColOf(addr_r)
         /\ state = "S_READ_WAIT" /\ cas_cnt = 0 => dram_addr' = ColOf(addr_r)
         /\ cmd' = "WRITE" => state = "S_WRITE_CMD" /\ state' = "S_WRITE_WAIT"
<1>1. cas_cnt \in 0 .. 7 /\ (state = "S_READ_WAIT" => cas_cnt <= 4)
  BY DEF TypeOK, FsmType, Spaced, CountsBounded, ReadStates
<1> QED
  BY <1>1 DEF SingleStates, GpuStates, P_sdram, Init_wait, Prechg_all, Prechg_wait, Init_refresh,
     Ref_wait, Load_mode, Mode_wait, Idle, Auto_refresh, Activate, Trcd_wait, Read_wait,
     Read_capture, Write_setup, Write_cmd, Write_wait, Write_recovery, Vga_capture, Gpu_write,
     Precharge, Trp_wait, Wait, Step, Pick, TrcdNext, ReadCol, Goto, Nop, Command3, adrVars

-----------------------------------------------------------------------------
(***************************************************************************)
(* The invariant is kept.                                                  *)
(***************************************************************************)
LEMMA GpuIdleStep ==
  ASSUME NoGpu, TypeOK, GpuIdle, Next
  PROVE  GpuIdle'
<1>1. P_gpu_latch(gpu_wr_req, gpu_wr_adr) /\ Gpu
  BY NextParts
<1>2. ~gpu_wr_req'
  BY <1>1 DEF Gpu, NoGpu
<1>3. ~gpu_wr_valid'
  BY <1>1 DEF P_gpu_latch, GpuIdle
<1> QED
  BY <1>2, <1>3 DEF GpuIdle

LEMMA CarriedStep ==
  ASSUME TypeOK, TypeOK', Tokens, Spaced, GpuIdle, Carried, Next
  PROVE  Carried'
<1>1. P_req_latch /\ P_vga_latch /\ P_sdram
  BY NextParts
<1>2. /\ ReqTravels' <=> req_toggle_cpu' # req_toggle_cpu \/ (ReqTravels /\ ~ReqFire)
      /\ req_valid' = ((req_valid /\ ~TrpDone("S_TRP_WAIT")) \/ ReqFire)
  BY CpuToggles DEF Tokens
<1>3. ReqFire => ReqTravels /\ ~req_valid
  <2>1. ReqFire => ReqTravels
    BY FireIsEdge DEF Tokens, CpuToken, ReqFire, ReqTravels, TypeOK, ReqType
  <2> QED
    BY <2>1 DEF Tokens, CpuToken
<1>4. state \notin GpuStates
  BY DEF Tokens, Owned, GpuIdle
<1>5. ReqTravels' => req_shadow' = cpu'
  <2>1. CASE ReqTravels
    BY <2>1, CpuHolds DEF Still, Carried
  <2>2. CASE ~ReqTravels
    BY <1>2, <2>2, CpuSteps DEF Strobed, Answered, Still
  <2> QED
    BY <2>1, <2>2
<1>6. req_valid => req' = req /\ cpu' = cpu
  BY <1>1, <1>3, CpuHolds DEF P_req_latch, Still
<1>7. req_valid' => req' = cpu'
  <2>1. CASE req_valid
    BY <1>6, <2>1 DEF Carried
  <2>2. CASE ~req_valid
    <3>1. req_valid' => ReqFire
      BY <1>2, <2>2 DEF TrpDone
    <3>2. ReqFire => req' = req_shadow /\ cpu' = cpu
      BY <1>1, <1>3, CpuHolds DEF P_req_latch, Still
    <3> QED
      BY <1>3, <3>1, <3>2 DEF Carried
  <2> QED
    BY <2>1, <2>2
<1>8. state' = "S_ACTIVATE" /\ ~vga_valid' => PickedCpu'
  <2> SUFFICES ASSUME state' = "S_ACTIVATE", ~vga_valid' PROVE PickedCpu'
    OBVIOUS
  <2>1. state = "S_IDLE" /\ (vga_valid \/ gpu_wr_valid \/ req_valid)
    BY <1>1, Paths
  <2>2. ~vga_valid /\ ~gpu_wr_valid
    BY <1>1, <2>1 DEF P_vga_latch, TrpDone, GpuIdle
  <2>3. addr_r' = req.adr /\ we_r' = req.we /\ wr_data_r' = req.dat
    BY <1>1, <1>4, <2>2, AccessPath
  <2> QED
    BY <1>6, <2>1, <2>2, <2>3 DEF PickedCpu
<1>9. state' \in SingleStates => PickedCpu'
  <2> SUFFICES ASSUME state' \in SingleStates PROVE PickedCpu'
    OBVIOUS
  <2>1. \/ state \in SingleStates
        \/ state = "S_ACTIVATE" /\ ~vga_valid /\ ~gpu_wr_valid
    BY <1>1, Paths
  <2>2. PickedCpu /\ req_valid
    BY <2>1 DEF Carried, Tokens, Owned
  <2>3. UNCHANGED <<addr_r, we_r, wr_data_r>>
    BY <1>1, <1>4, AccessPath
  <2> QED
    BY <1>6, <2>2, <2>3 DEF PickedCpu
<1> QED
  BY <1>5, <1>7, <1>8, <1>9 DEF Carried

\* The device takes the WRITE of the CPU's operation when its data is on the
\* pins, and never another one.
LEMMA MemStep ==
  ASSUME TypeOK, PinsName, RowDiscipline, Tokens, Carried, Accesses, Next
  PROVE  /\ state = "S_WRITE_WAIT" => req_valid /\ mem' = [mem EXCEPT ![cpu.adr] = cpu.dat]
         /\ state # "S_WRITE_WAIT" => mem' = mem
         /\ state = "S_READ_WAIT" /\ cmd = "READ" /\ cas_cnt = 1 => dq' = mem[addr_r]
         /\ cmd # "READ" => dq' = dq
<1>1. ChipStep
  BY NextParts
<1>2. cmd # "WRITE" => mem' = mem
  BY <1>1 DEF ChipStep, Access
<1>3. /\ cmd # "READ" => dq' = dq
      /\ cmd = "READ" /\ open[dram_ba] # CLOSED => dq' = mem[Addressed]
  BY <1>1 DEF ChipStep, Access
<1>4. cmd \in {"READ", "WRITE"} /\ dram_addr = ColOf(addr_r)
         => open[dram_ba] # CLOSED /\ Addressed = addr_r
  <2> SUFFICES ASSUME cmd \in {"READ", "WRITE"}, dram_addr = ColOf(addr_r)
               PROVE  open[dram_ba] # CLOSED /\ Addressed = addr_r
    OBVIOUS
  <2>1. addr_r \in Adr
    BY DEF TypeOK, AccessType
  <2>2. RowOf(addr_r) \in Row
    BY <2>1, FieldsInRange
  <2>3. RowOf(addr_r) # CLOSED
    BY <2>2 DEF Row, CLOSED
  <2> QED
    BY <2>1, <2>3, FieldsNameCell DEF RowDiscipline, Addressed
<1>5. state = "S_WRITE_WAIT" => req_valid /\ mem' = [mem EXCEPT ![cpu.adr] = cpu.dat]
  <2> SUFFICES ASSUME state = "S_WRITE_WAIT"
               PROVE  req_valid /\ mem' = [mem EXCEPT ![cpu.adr] = cpu.dat]
    OBVIOUS
  <2>1. state \in SingleStates
    BY DEF SingleStates
  <2>2. req_valid /\ PickedCpu /\ req = cpu
    BY <2>1 DEF Tokens, Owned, Carried
  <2>3. cmd = "WRITE" /\ dram_addr = ColOf(addr_r) /\ dq_oe
    BY DEF Accesses
  <2>4. mem' = [mem EXCEPT ![Addressed] = wr_data_r]
    BY <1>1, <1>4, <2>3 DEF ChipStep, Access
  <2> QED
    BY <1>4, <2>2, <2>3, <2>4 DEF PickedCpu
<1> QED
  BY <1>2, <1>3, <1>4, <1>5 DEF Accesses

LEMMA AccessesStep ==
  ASSUME TypeOK, TypeOK', PinsName, RowDiscipline, Tokens, Spaced, GpuIdle, Carried, Accesses, Next
  PROVE  Accesses'
<1>1. P_sdram /\ \E pop \in BOOLEAN : P_data(pop)
  BY NextParts
<1>2. state \notin GpuStates
  BY DEF Tokens, Owned, GpuIdle
<1> DEFINE single == state' \in SingleStates
<1>3. single => UNCHANGED <<addr_r, we_r, wr_data_r>>
  BY <1>1, <1>2, AccessPath
<1>4. /\ state' = "S_WRITE_SETUP" => state = "S_TRCD_WAIT" /\ we_r
      /\ state' = "S_WRITE_CMD" => state = "S_WRITE_SETUP"
      /\ state' = "S_WRITE_WAIT" => state = "S_WRITE_CMD"
      /\ state' = "S_WRITE_RECOVERY" => state = "S_WRITE_WAIT"
      /\ state' = "S_READ_WAIT" =>
           \/ state = "S_TRCD_WAIT" /\ ~we_r /\ cas_cnt' = 0
           \/ state = "S_READ_WAIT" /\ cas_cnt' = cas_cnt + 1
      /\ state' = "S_READ_CAPTURE" => state = "S_READ_WAIT" /\ cas_cnt = 4
      /\ state = "S_WRITE_CMD" => cmd' = "WRITE" /\ dram_addr' = ColOf(addr_r)
      /\ state = "S_READ_WAIT" /\ cas_cnt = 0 => dram_addr' = ColOf(addr_r)
      /\ cmd' = "WRITE" => state = "S_WRITE_CMD" /\ state' = "S_WRITE_WAIT"
  BY <1>1, <1>2, AccessPath
<1>5. state = "S_WRITE_CMD" => dq_oe'
  BY <1>1 DEF P_data
<1>6. cas_cnt \in 0 .. 7
  BY DEF TypeOK, FsmType
<1>7. state' \in {"S_WRITE_SETUP", "S_WRITE_CMD", "S_WRITE_WAIT", "S_WRITE_RECOVERY"} => we_r'
  BY <1>3, <1>4 DEF Accesses, SingleStates
<1>8. state' \in {"S_READ_WAIT", "S_READ_CAPTURE"} => ~we_r'
  BY <1>3, <1>4 DEF Accesses, SingleStates
<1>9. state' = "S_WRITE_WAIT" => cmd' = "WRITE" /\ dram_addr' = ColOf(addr_r)' /\ dq_oe'
  <2>1. state' = "S_WRITE_WAIT" => addr_r' = addr_r
    BY <1>3 DEF SingleStates
  <2> QED
    BY <1>4, <1>5, <2>1 DEF ColOf
<1>10. state' = "S_READ_WAIT" /\ cas_cnt' = 1 => dram_addr' = ColOf(addr_r)'
  <2>1. state' = "S_READ_WAIT" => addr_r' = addr_r
    BY <1>3 DEF SingleStates
  <2> QED
    BY <1>4, <1>6, <2>1 DEF ColOf
<1>11. state = "S_READ_WAIT" /\ cas_cnt >= 1 => dq' = mem[addr_r] /\ mem' = mem
  <2> SUFFICES ASSUME state = "S_READ_WAIT", cas_cnt >= 1
               PROVE  dq' = mem[addr_r] /\ mem' = mem
    OBVIOUS
  <2>1. cmd = "READ" <=> cas_cnt = 1
    BY DEF Spaced, CommandAt, ReadStates
  <2>2. CASE cas_cnt = 1
    BY <2>1, <2>2, MemStep
  <2>3. CASE cas_cnt >= 2
    BY <2>1, <2>3, MemStep DEF Accesses
  <2> QED
    BY <1>6, <2>2, <2>3
<1>12. (state' = "S_READ_WAIT" /\ cas_cnt' >= 2) \/ state' = "S_READ_CAPTURE" => dq' = mem'[addr_r']
  <2> SUFFICES ASSUME (state' = "S_READ_WAIT" /\ cas_cnt' >= 2) \/ state' = "S_READ_CAPTURE"
               PROVE  dq' = mem'[addr_r']
    OBVIOUS
  <2>1. addr_r' = addr_r
    BY <1>3 DEF SingleStates
  <2>2. state = "S_READ_WAIT" /\ cas_cnt >= 1
    BY <1>4, <1>6
  <2> QED
    BY <1>11, <2>1, <2>2
<1> QED
  BY <1>4, <1>7, <1>8, <1>9, <1>10, <1>12 DEF Accesses

\* The word captured stays until the CPU has its acknowledge.
LEMMA HoldStep ==
  ASSUME TypeOK, Tokens, Next
  PROVE  /\ state # "S_READ_CAPTURE" => rd_data_hold' = rd_data_hold
         /\ state = "S_READ_CAPTURE" => rd_data_hold' = dq
         /\ AckTravels => state \notin SingleStates
<1>1. \E pop \in BOOLEAN : P_data(pop)
  BY NextParts
<1> QED
  BY <1>1 DEF P_data, Tokens, Owned, CpuToken

LEMMA AnswersStep ==
  ASSUME TypeOK, TypeOK', Tokens, Answers, Next
  PROVE  Answers'
<1> SUFFICES ASSUME AckTravels'
             PROVE  /\ ack_sync'[1] = ack_toggle' => rd_data_cpu'[1] = rd_data_hold'
                    /\ ack_sync'[2] = ack_toggle' => rd_data_cpu'[2] = rd_data_hold'
  BY DEF Answers
<1> DEFINE over == TrpDone("S_TRP_WAIT")
<1>1. over \/ AckTravels
  BY CpuToggles DEF Tokens
<1>2. rd_data_hold' = rd_data_hold
  BY <1>1, HoldStep DEF TrpDone, SingleStates
<1>3. PICK op \in CPU_OPS \cup {NoOp}, adr \in VGA_ADRS \cup {NoOp}, pop \in BOOLEAN :
        /\ P_data(pop)
        /\ FastEdge \/ BothEdges(op, adr, pop)
  BY NextParts
<1>4. /\ ack_toggle \in BOOLEAN /\ ack_sync \in Chain /\ rd_data_cpu \in DATA \X DATA
  BY DEF TypeOK, ReqType
<1>5. ack_toggle' = (ack_toggle # over)
  BY <1>3 DEF P_data
<1>6. over => /\ ack_toggle' = ~ack_toggle
              /\ ack_sync[1] = ack_toggle /\ ack_sync[2] = ack_toggle /\ ack_sync[3] = ack_toggle
  <2>1. over => req_valid
    BY DEF Tokens, Owned, SingleStates, TrpDone
  <2>2. over => ~AckTravels
    BY <2>1 DEF Tokens, CpuToken
  <2>3. over => ack_toggle' = ~ack_toggle
    BY <1>4, <1>5
  <2> QED
    BY <1>4, <2>2, <2>3 DEF Tokens, CpuToken, OneEdge, AckTravels, Travels
<1>7. ~over => /\ ack_toggle' = ack_toggle
               /\ ack_sync[1] = ack_toggle => rd_data_cpu[1] = rd_data_hold
               /\ ack_sync[2] = ack_toggle => rd_data_cpu[2] = rd_data_hold
  <2>1. ~over => ack_toggle' = ack_toggle
    BY <1>4, <1>5 DEF TrpDone
  <2> QED
    BY <1>1, <2>1 DEF Answers
<1>8. CASE FastEdge
  <2>1. ack_sync' = ack_sync /\ rd_data_cpu' = rd_data_cpu
    BY <1>8 DEF FastEdge
  <2> QED
    BY <1>2, <1>4, <1>6, <1>7, <2>1
<1>9. CASE BothEdges(op, adr, pop)
  <2>1. PICK b \in {ack_toggle, ack_toggle'} : ack_sync' = Sync(ack_sync, b)
    BY <1>9 DEF BothEdges, P_sync_ack
  <2>2. rd_data_cpu' = <<rd_data_hold, rd_data_cpu[1]>>
    BY <1>2, <1>9 DEF BothEdges, P_sync_ack
  <2>3. ack_sync'[2] = ack_sync[1]
    BY <2>1 DEF Sync
  <2>4. rd_data_cpu'[1] = rd_data_hold /\ rd_data_cpu'[2] = rd_data_cpu[1]
    BY <2>2
  <2> QED
    BY <1>2, <1>4, <1>6, <1>7, <2>3, <2>4
<1> QED
  BY <1>3, <1>8, <1>9

\* When the acknowledge reaches the CPU, so has the word.
LEMMA AnswerArrives ==
  ASSUME TypeOK, Tokens, Answers, AckFire
  PROVE  rd_data_cpu[2] = rd_data_hold
<1>1. AckTravels /\ ack_sync[3] = ack_toggle
  BY FireIsEdge DEF Tokens, CpuToken, AckFire, AckTravels, TypeOK, ReqType
<1>2. ack_sync[2] = ack_toggle
  BY <1>1 DEF Tokens, CpuToken, OneEdge, TypeOK, ReqType, Chain
<1> QED
  BY <1>1, <1>2 DEF Answers

LEMMA InitMemInv == Init => MemInv
<1> SUFFICES ASSUME Init PROVE MemInv
  OBVIOUS
<1>1. state = "S_INIT" /\ cmd = "NOP" /\ ~req_valid /\ ~gpu_wr_req /\ ~gpu_wr_valid
  BY DEF Init, CtrlInit
<1>2. ~ReqTravels /\ ~AckTravels
  BY InitTokens, <1>1 DEF Init, CtrlInit, Tokens, CpuToken
<1> QED
  BY <1>1, <1>2 DEF MemInv, GpuIdle, Carried, Accesses, Answers, SingleStates

LEMMA MemInvStutter ==
  ASSUME MemInv, UNCHANGED vars
  PROVE  MemInv'
<1> USE DEF vars, ctrlVars, pins, chipVars
<1>1. GpuIdle' /\ Carried'
  BY DEF MemInv, GpuIdle, Carried, PickedCpu, ReqTravels, Travels
<1>2. Accesses' /\ Answers'
  BY DEF MemInv, Accesses, Answers, ColOf, AckTravels, Travels
<1> QED
  BY <1>1, <1>2 DEF MemInv

LEMMA MemInvStep ==
  ASSUME NoGpu, IInv, TypeOK', Spaced, Tokens, MemInv, Next
  PROVE  MemInv'
  BY GpuIdleStep, CarriedStep, AccessesStep, AnswersStep DEF IInv, MemInv

-----------------------------------------------------------------------------
(***************************************************************************)
(* The refinement.                                                         *)
(***************************************************************************)
DoneStates == {"S_WRITE_RECOVERY", "S_PRECHARGE", "S_TRP_WAIT"}

LEMMA DonePath ==
  ASSUME TypeOK, P_sdram
  PROVE  /\ state = "S_WRITE_WAIT" => state' = "S_WRITE_RECOVERY"
         /\ state = "S_READ_CAPTURE" => state' = "S_PRECHARGE"
         /\ state' \in DoneStates => state \in DoneStates \cup {"S_WRITE_WAIT", "S_READ_CAPTURE"}
         /\ state \in DoneStates => state' \in DoneStates \/ TrpDone("S_TRP_WAIT")
         /\ TrpDone("S_TRP_WAIT") => state' = "S_IDLE" /\ state \in DoneStates
  BY DEF DoneStates, TrpDone, P_sdram, Init_wait, Prechg_all, Prechg_wait, Init_refresh,
     Ref_wait, Load_mode, Mode_wait, Idle, Auto_refresh, Activate, Trcd_wait, Read_wait,
     Read_capture, Write_setup, Write_cmd, Write_wait, Write_recovery, Vga_capture, Gpu_write,
     Precharge, Trp_wait, Wait, Step, Pick, TrcdNext, Goto

\* An operation takes effect when its WRITE is taken or its word captured, and
\* stays done until its acknowledge.
LEMMA DoneStep ==
  ASSUME TypeOK, TypeOK', Tokens, Next
  PROVE  /\ Done => cpu # NoOp
         /\ state \in {"S_WRITE_WAIT", "S_READ_CAPTURE"} => Still /\ ~Done /\ Done'
         /\ Still /\ state \notin {"S_WRITE_WAIT", "S_READ_CAPTURE"} => (Done' <=> Done)
         /\ Answered => Done /\ ~Done'
         /\ Strobed => ~Done /\ ~Done'
<1>1. P_sdram
  BY NextParts
<1>2. /\ Done <=> state \in DoneStates \/ AckTravels
      /\ Done' <=> state' \in DoneStates \/ AckTravels'
  BY DEF Done, DoneStates, AckTravels, Travels
<1>3. /\ AckTravels' <=> TrpDone("S_TRP_WAIT") \/ (AckTravels /\ ~(phase = 0 /\ AckFire))
      /\ req_valid' = ((req_valid /\ ~TrpDone("S_TRP_WAIT")) \/ ReqFire)
  BY CpuToggles DEF Tokens
<1>4. state \in DoneStates \cup {"S_WRITE_WAIT", "S_READ_CAPTURE"} => req_valid
  BY DEF DoneStates, SingleStates, Tokens, Owned
<1>5. state' \in DoneStates => req_valid
  BY <1>1, <1>4, DonePath
<1>6. TrpDone("S_TRP_WAIT") => req_valid
  BY <1>1, <1>4, DonePath
<1>7. req_valid => ~AckTravels /\ cpu # NoOp /\ Still
  BY CpuHolds DEF Tokens, CpuToken
<1>8. Done => cpu # NoOp
  BY <1>2, <1>4, <1>7 DEF Tokens, CpuToken
<1>9. state \in {"S_WRITE_WAIT", "S_READ_CAPTURE"} => Still /\ ~Done /\ Done'
  BY <1>1, <1>2, <1>4, <1>7, DonePath DEF DoneStates
<1>10. Still /\ state \notin {"S_WRITE_WAIT", "S_READ_CAPTURE"} => (Done' <=> Done)
  BY <1>1, <1>2, <1>3, DonePath DEF Still
<1>11. Answered => Done /\ ~Done'
  <2> SUFFICES ASSUME Answered PROVE Done /\ ~Done'
    OBVIOUS
  <2>1. AckTravels /\ phase = 0 /\ AckFire /\ ~req_valid
    BY <1>7, CpuHolds DEF Answered
  <2> QED
    BY <1>2, <1>3, <1>5, <1>6, <2>1
<1>12. Strobed => ~Done /\ ~Done'
  <2> SUFFICES ASSUME Strobed PROVE ~Done /\ ~Done'
    OBVIOUS
  <2>1. ~AckTravels /\ ~req_valid
    BY CpuHolds
  <2> QED
    BY <1>2, <1>3, <1>4, <1>5, <1>6, <2>1
<1> QED
  BY <1>8, <1>9, <1>10, <1>11, <1>12

\* The word of the abstract memory.
Word == IF Done /\ cpu # NoOp /\ ~cpu.we THEN rd_data_hold ELSE NoOp

LEMMA InitRefines == Init => Memory!Init
<1> SUFFICES ASSUME Init PROVE Memory!Init
  OBVIOUS
<1>1. ~Done
  <2>1. state = "S_INIT" /\ cpu = NoOp
    BY DEF Init, CtrlInit
  <2>2. ~AckTravels
    BY <2>1, InitTokens DEF Tokens, CpuToken
  <2> QED
    BY <2>1, <2>2 DEF Done, AckTravels, Travels
<1>2. POWER_UP_MEM[0] \in DATA
  BY Geometry, MemoryAssumption
<1> QED
  BY <1>1, <1>2 DEF Init, ChipInit, Memory!Init

\* One edge of the clocks is one step of the memory or none.
LEMMA StepRefines ==
  ASSUME IInv, TypeOK', Spaced, Tokens, MemInv, Next
  PROVE  [Memory!Next]_(Memory!vars)
<1> DEFINE acts == state \in {"S_WRITE_WAIT", "S_READ_CAPTURE"}
<1>1. /\ state = "S_WRITE_WAIT" => req_valid /\ mem' = [mem EXCEPT ![cpu.adr] = cpu.dat]
      /\ state # "S_WRITE_WAIT" => mem' = mem
  BY MemStep DEF IInv, MemInv
<1>2. /\ Done => cpu # NoOp
      /\ acts => Still /\ ~Done /\ Done'
      /\ Still /\ ~acts => (Done' <=> Done)
      /\ Answered => Done /\ ~Done'
      /\ Strobed => ~Done /\ ~Done'
  BY DoneStep DEF IInv
<1>3. /\ state # "S_READ_CAPTURE" => rd_data_hold' = rd_data_hold
      /\ state = "S_READ_CAPTURE" => rd_data_hold' = dq
  BY HoldStep DEF IInv
<1>4. CASE Strobed
  <2>1. ~acts /\ mem' = mem /\ ~Done /\ ~Done'
    BY <1>1, <1>2, <1>4 DEF Strobed, Still
  <2>2. PICK op \in CPU_OPS : op = cpu'
    BY <1>4 DEF Strobed
  <2>3. Done' = Done
    BY <2>1 DEF Done
  <2>4. Memory!Strobe(op)
    BY <1>4, <2>1, <2>2, <2>3 DEF Strobed, Memory!Strobe
  <2> QED
    BY <2>4 DEF Memory!Next
<1>5. CASE Answered
  <2>1. ~acts /\ mem' = mem /\ Done /\ ~Done' /\ cpu # NoOp
    BY <1>1, <1>2, <1>5 DEF Answered, Still
  <2>2. rd_data_cpu[2] = rd_data_hold
    BY <1>5, AnswerArrives DEF IInv, MemInv, Answered
  <2>3. cpu' = NoOp /\ cpu_dat' = IF cpu.we THEN cpu_dat ELSE rd_data_hold
    BY <1>5, <2>1, <2>2 DEF Answered
  <2>4. cpu.we \/ ~cpu.we
    OBVIOUS
  <2> QED
    BY <2>1, <2>3 DEF Memory!Next, Memory!Acknowledge
<1>6. CASE Still /\ acts
  <2>1. req_valid /\ PickedCpu /\ req = cpu /\ cpu # NoOp
    BY <1>6 DEF Tokens, Owned, CpuToken, MemInv, Carried, SingleStates
  <2>2. UNCHANGED <<cpu, cpu_dat>> /\ ~Done /\ Done'
    BY <1>2, <1>6 DEF Still
  <2>3. CASE state = "S_WRITE_WAIT"
    <3>1. cpu.we
      BY <2>1, <2>3 DEF MemInv, Accesses, PickedCpu
    <3> QED
      BY <1>1, <2>1, <2>2, <2>3, <3>1 DEF Memory!Next, Memory!Perform
  <2>4. CASE state = "S_READ_CAPTURE"
    <3>1. ~cpu.we
      BY <2>1, <2>4 DEF MemInv, Accesses, PickedCpu
    <3>2. rd_data_hold' = mem[cpu.adr]
      BY <1>3, <2>1, <2>4 DEF MemInv, Accesses, PickedCpu
    <3> QED
      BY <1>1, <2>1, <2>2, <2>4, <3>1, <3>2 DEF Memory!Next, Memory!Perform
  <2> QED
    BY <1>6, <2>3, <2>4
<1>7. CASE Still /\ ~acts
  <2>1. UNCHANGED <<mem, rd_data_hold, cpu, cpu_dat>> /\ (Done' <=> Done)
    BY <1>1, <1>2, <1>3, <1>7 DEF Still
  <2>2. Done' = Done
    BY <2>1 DEF Done
  <2> QED
    BY <2>1, <2>2 DEF Memory!vars
<1> QED
  BY <1>4, <1>5, <1>6, <1>7, CpuSteps DEF IInv

-----------------------------------------------------------------------------
(***************************************************************************)
(* The theorems.                                                           *)
(***************************************************************************)

\* The operation of the CPU and its answer are carried unchanged between the
\* clocks, whatever the frame buffer reader asks for meanwhile.
THEOREM MemInvAlways ==
  ASSUME NoGpu
  PROVE  Spec => []MemInv
<1>1. IInv /\ TypeOK' /\ Spaced /\ Tokens /\ MemInv /\ [Next]_vars => MemInv'
  BY MemInvStep, MemInvStutter, NoGpu
<1> QED
  BY <1>1, InitMemInv, Inductive, TypeCorrect, SpacedAlways, TokensAlways, PTL DEF Spec

\* For the CPU sdram_ctrl.vhd is a memory of words: no operation is lost, done
\* twice or reordered and no read returns a stale word, for every geometry,
\* burst length, wait, interval and set of operations, while refreshes and VGA
\* bursts go on.
THEOREM RefinesMemory ==
  ASSUME NoGpu
  PROVE  Spec => ImplementsMemory
<1>1. UNCHANGED vars => UNCHANGED (Memory!vars)
  BY DEF vars, ctrlVars, pins, chipVars, Memory!vars, Done
<1>2. IInv /\ TypeOK' /\ Spaced /\ Tokens /\ MemInv /\ [Next]_vars => [Memory!Next]_(Memory!vars)
  BY <1>1, StepRefines
<1> QED
  BY <1>2, InitRefines, Inductive, TypeCorrect, SpacedAlways, TokensAlways, MemInvAlways, PTL
     DEF Spec, ImplementsMemory, Memory!Spec
=============================================================================
