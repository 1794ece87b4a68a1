# Lameboy: specifications, checks and proofs

Lameboy is a Game Boy emulator in Zig. This directory holds TLA+ modules that
model it, TLC configurations that check them on small instances, and proofs
that TLAPS checks for every value of the constants. Paths such as
`src/src/cpu.zig` are relative to the parent of this directory, where `src/` is
the repository.

## 1. The system

| Component | Source | State | Operations |
|---|---|---|---|
| CPU | `src/src/cpu.zig` | PC, SP, the unions AF, BC, DE, HL, `mCycles`, `halt` | `tick` decodes one opcode and calls one of about 130 handlers |
| Memory | `src/src/mmu.zig` | two ROMs, VRAM, ERAM, WRAM, OAM, HRAM, `scy`, `inBootrom`, `interruptsEnabled` | `read8`, `readi8`, `write8` |
| PPU | `src/src/ppu.zig` | mode, `LY`, `cycleCount`, `pixelCount` | `tick` |
| Core | `src/src/core.zig` | the four above and below | `tick`: CPU, PPU, debugger, then the test for PC 0x100 |
| Debugger | `src/src/debugger.zig` | a Lua state | bindings to registers and memory, `start`, `step` |
| Main loop | `src/src/main.zig` | the SDL window | loads the ROMs, ticks and polls events until `halt` or an error |
| Disassembler | `src/src/disassembler.zig` | none | a table of 256 mnemonics |

Outside the emulator are `compare.ex`, which compares its logs with another
emulator's, `script.lua`, whose `step` is empty, the boot ROM `DMG_ROM.bin`,
the build script, and third-party code and data (Lua 5.3.4, `inspect.lua`, the
`vuibui` symbol files).

Everything runs in one thread. `main` calls `Core.tick`; `Core.tick` calls the
CPU, which calls `read8` and `write8` for every byte it touches, then the PPU
(which is handed the memory and ignores it), then the script, which may change
any register and any byte. The CPU and the PPU share nothing: a program that
reads `LY` at 0xFF44 gets a constant.

What is hard here is not concurrency but long dependencies in data and control:

- a value pushed by one handler is popped by another one, and a flag set by an
  ADD is used by a DAA much later;
- two tables decode the same opcodes, and many instructions are written twice
  or four times, for registers, for (HL) and for each condition;
- memory regions share an array, an array is shorter than its region, and the
  boot ROM hides and then uncovers part of the cartridge;
- the PPU waits for counters with `==`, and panics when a `u8` overflows;
- a handler may end in the middle, by a checked overflow of PC or SP, by an
  index out of bounds or by `os.exit`, and the components behind it in the
  tick do not run;
- the script runs between an instruction and the test for its PC;
- `main` cleans up twice on one path and not at all on another.

`PROJECT.json` lists each of these as a hazard, at its line, with the
properties that cover it.

What makes each component correct:

- CPU: registers keep their widths, F has no low nibble, arithmetic agrees with
  binary and decimal arithmetic, the decoding agrees with the disassembler,
  handlers written twice mean the same, the emulator ends only at an edge of
  the memory, and the stack instructions make a stack.
- Memory: addresses are independent locations, except where the source makes
  them share a cell, and what is written is read back.
- PPU: a raster of whole lines that never stops.
- Core: the boot ROM hands over to a cartridge if and only if its header is
  good.

## 2. Modules

| Module | Models or states |
|---|---|
| `Bytes` | u1, u8, u16, wrapping, shifts, masks, bit casts |
| `Alu` | what the arithmetic, rotate and adjust handlers compute, flags included |
| `AluCheck` | the same against reference definitions |
| `Memory` | the MMU struct as a value; `Read8`, `Write8` and how they end |
| `Mmu` | the memory as a component with its clients |
| `Store` | abstract: independent locations and a removable overlay |
| `Ppu` | `PPU.tick`, one action per mode, the literals as constants |
| `Raster` | abstract: a beam that visits every dot of every line |
| `Cpu` | `CPU.tick`, one action per handler or family of handlers |
| `Disassembler` | what the mnemonics say of length, branches, destinations, operands in memory |
| `Operands` | the addresses that the mnemonic at PC stores to and loads from, and its use of the stack |
| `Listing` | `Cpu` against `Disassembler` and `Operands` |
| `CallStack` | abstract: last in, first out |
| `Calls` | `Cpu` as an implementation of `CallStack` |
| `Core` | `Core.tick` and the loop of `main` without its events: `Cpu` and `Ppu` composed |
| `MCMmu`, `MCListing`, `MCCalls`, `MCBoot` | instances for TLC |
| `PpuProofs`, `MemoryProofs`, `MmuProofs`, `AluProofs`, `CpuProofs` | theorems |

How the state and the actions correspond to the code:

- *Registers.* `r` maps the numbers by which opcodes name the registers (0 to 5
  and 7 for B, C, D, E, H, L, A) to bytes; BC, DE and HL are derived, as the
  extern unions derive them. `F` is a record with the nibble the packed struct
  calls `unused`.
- *Memory.* `ram` is sparse: it maps the array cells that are not zero to their
  bytes, under the indices `mmu.zig` computes, so that cells that coincide in
  the code coincide in the model. The ROMs are constants. The boot ROM is a
  sequence, whose first byte has index 1.
- *Handlers.* A family that differs in a register or a condition is one action,
  which reads the register from the fields of the opcode: `inc_r` stands for
  `INC B` to `INC A`. `Skip` is a conditional CALL or JP that is not taken.
  Irregularities are kept: the cycles `JR` and `DAA` do not count, `XOR r`
  counting one and `SBC A,d8` four, `z` of `SLA r`, which instructions keep the
  low nibble of F. What several handlers do alike is one operator: `Pushed` and
  `Popped` for the two bytes that PUSH, CALL and RST write and POP, RET and RETI
  read, `Rotated` for the shifts of a register and of the byte at HL. That they
  are alike was read off the source, handler by handler; one that came to differ
  would become an action of its own, and the properties are stated on the
  actions (`push_rr_LowFirst` and `OnMemory_KeepsFlags` are such handlers).
- *How a tick ends.* The model is that of Zig's default Debug build: `PC += 1`,
  `SP += 1` and `SP -= 1` are checked, and so are array indices. A handler
  makes its accesses in order, and `&&` chains their outcomes; the first one that is
  not "ok" ends the process with "panic" or "exit". What it had changed before
  is lost with the process, so the action then changes only `result`. An
  opcode without a handler ends with the error that `tick` returns.
- *pop_rr.* `&(@bitCast(RegisterReference, cpu.BC))` is modelled as a pointer
  to the register itself. The handler takes a mutable pointer and relies on
  this to return its result, which a pointer to a copy could not.
- *Starts.* `main` runs `script.lua` before the first tick, and a script may set
  any register and byte: `Starts` is any set of such states whose F has no low
  nibble. `Core` starts from `PowerOn`, nothing but the ROMs loaded.

- *Coinciding addresses.* `Canon` is the lower address of a byte that the echo
  shows twice; `Mmu` and `Calls` use it to say what independence means.

Logging is left out, and with it the byte that a write to 0xFF01 sends to the
standard error.

## 3. Runs

| Run | Instance | States | Shows |
|---|---|---|---|
| `ppu` | the literals of the code | 69,768 | types, the relation of the counters to the mode, whole lines, the raster refined, frames keep coming |
| `memory` | first and last address of every region, two ROMs that differ, bytes 0, 1 and 255, at most 2 cells in use | 12,204 | types, read-back, the store refined |
| `listing` | every opcode of both tables, one instruction each, from registers, flags, code, data and stack at the edges of the memory | 38,956 | types, F; lengths, destinations, stores and handlers as the disassembler prints them; the emulator ends at the edges and nowhere else; shifts and bits mean the same on registers and memory |
| `calls` | every program of four instructions from a menu of twelve | 131,632 | the memory above SP holds what was pushed and not yet popped, the traffic is that of a stack, returns land behind their calls, a pop loads what was pushed |
| `alu` | every operand, second operand and carry | 256 | adders, decimals, rotates, shifts, 16-bit sums |
| `boot` | `DMG_ROM.bin`, cartridges with a good header, a bad logo, a bad checksum | 145,050 | only accepted cartridges boot, they do boot, with an empty stack and without the overlay |
| `sla_zero` | every operand | | violated: section 4 |

Bounds, and why they are enough:

- `ppu` has none: the frame is finite and all of it is explored.
- `memory`: `MaxCells = 2` cells that are not zero. A refinement of independent locations
  fails on two addresses or not at all; the theorem removes the bound.
- `listing`: `CycleLimit = 1` lets one instruction run, since each property is
  about one step. `Middle` varies registers and flags; `Edges` puts code, data
  and stack where an access panics, exits or wraps, which is where `EndsAtEdges`
  is decided. `PrefixedCode` gives the second table five bytes at HL.
- `calls`: `Slots = 4` instructions, `CycleLimit = 110`, enough for five to
  ten steps, returns and repeats included. `Base = 0xEE02`: the second push crosses from the part of work RAM
  that is its own to the part that shares cells with 0xC000. Programs that
  would pop from an empty stack, or store into the stack's memory, are cut off
  by `Balanced`: the stack promises nothing there. That memory has two names:
  the first word pushed lies at 0xEE00, which is 0xC000 as well. Two stores of
  the menu go through the second name, one to 0xC001, which is allowed only
  while the stack is empty, and one to 0xC002, the byte above it; with the
  indices of either region off by one `StackHolds` fails, and it fails too when
  `Balanced` forbids only the addresses of the stack and not their echo. The variable `pushed` is a history of what the
  instructions are meant to push; nothing but the properties reads it.
- `alu`: the state is one operand, and the properties quantify over the rest;
  the high bytes of 16-bit operands are those of `Highs`.
- `boot`: `CycleLimit = 440000`, above what the boot takes: AcceptedBoots would
  fail if it were below. All ROM bytes are the real ones; the
  cartridges hold a header only.

Fairness. `Ppu!Spec`, `Cpu!Spec` and `CoreSpec` assume weak fairness of their
whole next-state relation and no more: `main` calls `Core.tick` in a loop that
waits for nothing, and neither `tick` waits. `Mmu` and `Calls` assume none and
state safety only.

Deadlock is checked in `ppu` and `alu`, which never stop. The other runs stop
for a reason of the program, a panic, an exit, an error or the end of the
boot, or at their bound on cycles.

`OnlyAcceptedBoots` and `HandsOver` speak of the end of a long deterministic
run, in which most handlers of a boot are exercised with real data: some 40
opcodes, calls, stack, the overlay, scrolling and the delay loops.

## 4. Findings

`SLA r` sets `z` for a result that is not zero. `sla_r` (`src/src/cpu.zig:1337`) masks the
*shifted* byte with 0x7F, so 0x40 and 0xC0 become 0x80 with `z` set. `sla_hl`
masks the byte before the shift (line 1350), which is right; line 25 says what the flag
means. `Alu` models both as they are, and `sla_zero` shows the difference.

## 5. Proofs

Everything below is proved by TLAPS for all values of the constants, from the
assumptions named in the modules: `LiteralsAssumption` (the PPU's
literals are ordered as `tick` needs them), `RomAssumption` (ROMs hold bytes),
`MmuAssumption` (addresses are words, data bytes), `StartsAssumption` (the
processor starts in a state its registers can hold, with no low nibble in F)
and `LimitAssumption`.

- `PpuProofs`. `Consistent`: `TypeOK` and `InStep`. The type invariant is not
  inductive, nor is the bound on each counter: that `pixelCount` reaches 160
  without passing it needs `cycleCount = SearchCycles + pixelCount` while
  drawing, which is what `InStep` adds. `WholeLines` and `RefinesRaster` (the
  safety part: initial states, and every tick is a step of the beam) follow from
  the same invariant.
- `MemoryProofs` holds what the next two share: reads return bytes at every
  address, writes keep a memory well formed.
- `MmuProofs`. `MemoryTypeOK`; `ReadBack`, from `PeekAfterPoke`; and
  `RefinesStore`, whose core is `CellsDiffer`: the indices that `mmu.zig`
  counts down from the end of six regions collide only in the echo. A write
  then sets one location, uncovers the cartridge, or changes nothing visible.
- `AluProofs`. Every operator returns values of the width they are stored in.
  `WordAddition`: ADD HL,rr of all words is an ADD of the low and an ADC of the
  high bytes, which `WordsAreTwoBytes` checks for some high bytes only. It
  follows from `CarryOut`: with c as its ninth bit the result of an ADD is the sum.
- `CpuProofs`. `IInv` is `TypeOK` and `FlagsValid` together, as
  `ByteToFlags` and `FlagsByte` carry the nibble between F and the memory. It
  is inductive: one lemma for each shared shape (`LoadFromStep`,
  `CallStep`, ...), one for each of the four groups of actions, one step for
  each action. `Passed` is the key fact about overflow: an instruction that
  completes has checked that PC + n and SP ± 2 fit. `CpuTypeOK` and
  `LowNibbleZero` are the consequences.

Only model-checked: liveness (`FramesKeepComing`, `AcceptedBoots`, the fairness
in `Beam!Spec`), which the prover does not reach; the reference definitions of
`AluCheck`; `Listing`, `Calls` and `Core`.

## 6. Not modelled

- Debugger and SDL: planned, see below. In particular the quit event, which sets
  `halt` and ends the loop of `main`, is not an action of `CoreSpec`:
  `AcceptedBoots` speaks of a window that stays open.
- How many lines a frame has: `FrameLines` is the literal 153 of `ppu.zig:60`, and
  nothing in the repository says what it should be. The raster takes it as given.
- `compare.ex`, a separate log tool; the one rule of it that is about the
  emulator, no low nibble in F, is `FlagsValid`.
- `romSize`, which is written and never read; `cp_rr`, which has no caller.
- Third-party code, build script and data files.

## 7. Plan

Written, in this order: `Bytes`, `Alu`, `Raster`, `Ppu`, `Store`, `Memory`, `Mmu`, `Cpu`,
`Disassembler`, `Operands`, `Listing`, `CallStack`, `Calls`, `AluCheck`, `Core`, and the proofs of section 5.

Next:

1. `Debugger`: the four Lua bindings as actions, with the range checks, casts
   and the AND in the write of F; interleaved with the ticks in `Core` by a
   script that may call them in `step`. Properties: which scripts keep
   `FlagsValid`, that what a script writes it reads back, that the end at PC
   0x100 is reached only by an instruction or by the script. Abstract
   specification: a register file with independent registers.
2. `Main`: ROM loading, the event loop, `halt`, and the cleanup of window,
   renderer and SDL on each path out (quit, error, panic, exit). Properties:
   each resource is destroyed once and in order; a quit is noticed.
   The run will show what the code does on the quit path.
3. `Core` over those two: an error of the processor skips the PPU and the
   script, and no tick follows an end.
4. Proofs: `LengthsAgree`, `DestinationsAgree`, `HandlersAgree`, `EndsAtEdges` and
   `StoresAgree` for every operand; the refinement of `CallStack` for every
   program that leaves the stack's memory alone; the signed additions to SP;
   the types of `Core`, from `IInv` of the processor and of the PPU.
