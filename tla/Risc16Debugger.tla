--------------------------- MODULE Risc16Debugger ---------------------------
(***************************************************************************)
(* The main loop of the risc16 emulator (risc16/main.cpp) and the commands *)
(* of its debugger (risc16/cmdi.cpp), over the processor of module Risc16. *)
(* A step is one key of the loop, one command line, or one instruction of  *)
(* the commands that execute several.  When q is pressed, or a signal      *)
(* comes, the program takes no further step.                               *)
(***************************************************************************)
EXTENDS Risc16

CONSTANTS
  Programs,     \* the files the emulator may be started with
  Typed,        \* the numbers that may be typed, of any size or sign
  ViewRange     \* VIEW_MEM_RANGE

ASSUME TypedAssumption == Typed \subseteq Int

ASSUME ProgramsAssumption == \A p \in Programs : p \in Seq(Words)

ASSUME ViewAssumption ==
  ViewRange \in Nat /\ ViewRange <= RomEnd /\ RamStart + ViewRange <= RamEnd

VARIABLES
  started,      \* an iteration of the loop has begun with a key that was read
  mode,         \* in the loop ("keys"), in cmd_exenticks ("ticks") or in the loop
                \* of cmd_exetobreak: at its tests ("run") or past them ("step")
  ticks,        \* the instructions cmd_exenticks still has to execute
  arg_addr, arg_data,
  err,          \* the scan line shows an error, not what was typed
  bpoints,      \* the addresses in the list of breakpoints
  rom_beginp, rom_endp, ram_beginp, ram_endp

view == <<rom_beginp, rom_endp, ram_beginp, ram_endp>>
args == <<arg_addr, arg_data, err>>
vars == <<cpu, started, mode, ticks, args, bpoints, view>>

-----------------------------------------------------------------------------
(* Keys *)

AtKeys == mode = "keys" /\ started

(* The loop begins with the key '.', which nobody has pressed; a terminal  *)
(* that is too small swallows a key, that one too.                         *)
Dot ==
  /\ mode = "keys"
  /\ Execute
  /\ started' = TRUE
  /\ UNCHANGED <<mode, ticks, args, bpoints, view>>

Swallowed ==
  /\ mode = "keys" /\ ~started
  /\ started' = TRUE
  /\ UNCHANGED <<cpu, mode, ticks, args, bpoints, view>>

(* inc_rom_ptr, dec_rom_ptr, inc_ram_ptr and dec_ram_ptr *)
ScrollRom ==
  /\ AtKeys
  /\ \/ rom_endp < RomEnd /\ rom_beginp' = rom_beginp + 1 /\ rom_endp' = rom_endp + 1
     \/ rom_beginp > 0    /\ rom_beginp' = rom_beginp - 1 /\ rom_endp' = rom_endp - 1
  /\ UNCHANGED <<cpu, started, mode, ticks, args, bpoints, ram_beginp, ram_endp>>

ScrollRam ==
  /\ AtKeys
  /\ \/ ram_endp < RamEnd     /\ ram_beginp' = ram_beginp + 1 /\ ram_endp' = ram_endp + 1
     \/ ram_beginp > RamStart /\ ram_beginp' = ram_beginp - 1 /\ ram_endp' = ram_endp - 1
  /\ UNCHANGED <<cpu, started, mode, ticks, args, bpoints, rom_beginp, rom_endp>>

ResetRegisters ==
  /\ AtKeys
  /\ pc' = 0 /\ rx' = [r \in Regs |-> 0]
  /\ UNCHANGED <<mem, rom_ptr, ram_ptr, started, mode, ticks, args, bpoints, view>>

-----------------------------------------------------------------------------
(* Command lines.  An argument that stoi does not take sets the error and  *)
(* leaves the old one; one that it takes is cut to sixteen bits.  Either   *)
(* way the command is carried out, with the argument there is.             *)

set_argaddr ==
  \/ /\ arg_addr' \in {U16(n) : n \in Typed}
     /\ err' = FALSE
  \/ arg_addr' = arg_addr /\ err' = TRUE

set_argdata ==
  \/ /\ arg_data' \in {U16(n) : n \in Typed}
     /\ err' = FALSE
  \/ arg_data' = arg_data /\ err' = TRUE

(* A line that is no command: the scan line shows it, or an error when it  *)
(* has too few or too many words.                                          *)
NoCommand ==
  /\ AtKeys
  /\ err' \in BOOLEAN
  /\ UNCHANGED <<cpu, started, mode, ticks, arg_addr, arg_data, bpoints, view>>

(* A mutation for the runs: the view may begin, and not end, at ROM_END. *)
ViewEnd_TooFar(addr, first, last) ==
  IF addr < first THEN first + ViewRange ELSE addr + ViewRange

(* The last address of a view of addr in the memory from first to last.    *)
ViewEnd(addr, first, last) ==
  IF addr < first + ViewRange THEN first + ViewRange
  ELSE IF addr > last THEN last ELSE addr

Jump ==
  /\ AtKeys
  /\ set_argaddr
  /\ IF arg_addr' <= RomEnd
     THEN /\ rom_endp' = ViewEnd(arg_addr', 0, RomEnd)
          /\ rom_beginp' = rom_endp' - ViewRange
          /\ UNCHANGED <<ram_beginp, ram_endp>>
     ELSE /\ ram_endp' = ViewEnd(arg_addr', RamStart, RamEnd)
          /\ ram_beginp' = ram_endp' - ViewRange
          /\ UNCHANGED <<rom_beginp, rom_endp>>
  /\ UNCHANGED <<cpu, started, mode, ticks, arg_data, bpoints>>

(* The error of the address stays when the data is taken. *)
Poke ==
  /\ AtKeys
  /\ arg_addr' \in {arg_addr} \cup {U16(n) : n \in Typed}
  /\ arg_data' \in {arg_data} \cup {U16(n) : n \in Typed}
  /\ err' \in BOOLEAN
  /\ ~err' => arg_addr' \in {U16(n) : n \in Typed} /\ arg_data' \in {U16(n) : n \in Typed}
  /\ err' => arg_addr' = arg_addr \/ arg_data' = arg_data
  /\ mem' = MemWrite(arg_addr', arg_data', TRUE)
  /\ UNCHANGED <<rx, pc, rom_ptr, ram_ptr, started, mode, ticks, bpoints, view>>

SetPc ==
  /\ AtKeys
  /\ set_argaddr
  /\ pc' = arg_addr'
  /\ UNCHANGED <<mem, rx, rom_ptr, ram_ptr, started, mode, ticks, arg_data, bpoints, view>>

AddBreak ==
  /\ AtKeys
  /\ set_argaddr
  /\ bpoints' = bpoints \cup {arg_addr'}
  /\ UNCHANGED <<cpu, started, mode, ticks, arg_data, view>>

DelBreak ==
  /\ AtKeys
  /\ set_argaddr
  /\ bpoints' = bpoints \ {arg_addr'}
  /\ UNCHANGED <<cpu, started, mode, ticks, arg_data, view>>

ExeNTicks ==
  /\ AtKeys
  /\ set_argdata
  /\ mode' = "ticks" /\ ticks' = arg_data'
  /\ UNCHANGED <<cpu, started, arg_addr, bpoints, view>>

-----------------------------------------------------------------------------
(* cmd_exenticks *)

Tick ==
  /\ mode = "ticks" /\ ticks > 0
  /\ Execute
  /\ ticks' = ticks - 1
  /\ UNCHANGED <<started, mode, args, bpoints, view>>

TicksDone ==
  /\ mode = "ticks" /\ ticks = 0
  /\ mode' = "keys"
  /\ UNCHANGED <<cpu, started, ticks, args, bpoints, view>>

(* cmd_exetobreak, which the key ',' starts: its loop reads the keyboard    *)
(* and looks for pc among the breakpoints (mode "run"), then executes an   *)
(* instruction (mode "step").  A key ends it, and so does a breakpoint, be *)
(* it the one it is started from.                                          *)

(* A mutation for the runs: the first instruction is executed before the   *)
(* breakpoints are looked at.                                              *)
Run_StepFirst ==
  /\ AtKeys
  /\ mode' = "step"
  /\ UNCHANGED <<cpu, started, ticks, args, bpoints, view>>

Run ==
  /\ AtKeys
  /\ mode' = "run"
  /\ UNCHANGED <<cpu, started, ticks, args, bpoints, view>>

AtBreak == pc \in bpoints

RunTest ==
  /\ mode = "run"
  /\ mode' = IF AtBreak THEN "keys" ELSE "step"
  /\ UNCHANGED <<cpu, started, ticks, args, bpoints, view>>

RunStep ==
  /\ mode = "step"
  /\ Execute
  /\ mode' = "run"
  /\ UNCHANGED <<started, ticks, args, bpoints, view>>

RunEnds ==       \* a key, which is dropped
  /\ mode = "run"
  /\ mode' = "keys"
  /\ UNCHANGED <<cpu, started, ticks, args, bpoints, view>>

-----------------------------------------------------------------------------

Init ==
  /\ \E p \in Programs : CpuInit(p)
  /\ started = FALSE /\ mode = "keys" /\ ticks = 0
  /\ arg_addr = 0 /\ arg_data = 0 /\ err = FALSE
  /\ bpoints = {}
  /\ rom_beginp = 0 /\ rom_endp = ViewRange
  /\ ram_beginp = RamStart /\ ram_endp = RamStart + ViewRange

Key == \/ Dot \/ Swallowed \/ ScrollRom \/ ScrollRam \/ ResetRegisters \/ Run
       \/ NoCommand \/ Jump \/ Poke \/ SetPc \/ AddBreak \/ DelBreak \/ ExeNTicks

Next == Key \/ Tick \/ TicksDone \/ RunTest \/ RunStep \/ RunEnds

Spec == Init /\ [][Next]_vars

-----------------------------------------------------------------------------
(* What the emulator promises *)

(* Type invariant. *)
TypeOK ==
  /\ CpuTypeOK
  /\ started \in BOOLEAN
  /\ mode \in {"keys", "ticks", "run", "step"} /\ ticks \in Words
  /\ arg_addr \in Words /\ arg_data \in Words /\ err \in BOOLEAN
  /\ bpoints \subseteq Words
  /\ {rom_beginp, rom_endp, ram_beginp, ram_endp} \subseteq Words

(* Register 0 is zero whatever a program or the debugger does: lw and the  *)
(* other instructions that may name it as their result do not write it.    *)
ZeroIsZero == rx[0] = 0

(* However the views of the memory are scrolled and jumped with, each has  *)
(* its full length, and stays in its half of the memory.                   *)
ViewsInside ==
  /\ rom_endp = rom_beginp + ViewRange /\ rom_endp <= RomEnd
  /\ ram_endp = ram_beginp + ViewRange /\ ram_endp <= RamEnd
  /\ rom_beginp >= 0 /\ ram_beginp >= RamStart

(* A program writes nothing but the RAM, and of it not the last word: of   *)
(* the memory there changes, in a step that executes, at most the word at  *)
(* ram_ptr.  Everything else that changes is the word a poke names.        *)
ProgramsStayInRam ==
  [][\A a \in Words : mem'[a] # mem[a] =>
       \/ pc' # pc /\ a = ram_ptr' /\ a \in RamStart .. RamEnd - 1
       \/ UNCHANGED <<rx, pc, rom_ptr, ram_ptr>> /\ a = arg_addr' /\ mem'[a] = arg_data']_vars

(* From the key that starts a run to the one that ends it, no instruction  *)
(* at a breakpoint is executed: not the one the run starts from, and none  *)
(* that the steps of the run, with their jumps, arrive at.                 *)
RunsStopAtBreakpoints ==
  [][(mode \in {"run", "step"} /\ pc \in bpoints) => UNCHANGED cpu]_vars

(* What the messages "err: invalid address" and "err: invalid data" say: a *)
(* line that is answered with one of them is refused.                      *)
RefusedLinesDoNothing ==
  [][err' /\ ~err => UNCHANGED <<cpu, bpoints, view>>]_vars

=============================================================================
