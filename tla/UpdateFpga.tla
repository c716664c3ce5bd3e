------------------------------ MODULE UpdateFpga -----------------------------
(***************************************************************************)
(* Runs of meta-microblaze/scripts/update-fpga.py, one after the other, in *)
(* one working directory and for one output directory: each embeds an ELF  *)
(* file in the FPGA image of an artifacts directory and makes, if asked,   *)
(* the image for the SPI flash.                                            *)
(*                                                                         *)
(* What a run makes carries the number of the run; an image of run 0 is    *)
(* one of the artifacts, without an ELF file.                              *)
(***************************************************************************)
EXTENDS Naturals, Sequences, FiniteSets

CONSTANTS
  Unset,
  Argvs,      \* command lines: sequences of tokens
  Artifacts,  \* artifact directories: [images, mmi, pdi, bif]
  Elves,      \* what -d can name: a subset of {"elf", "other", "absent"}
  Formats,    \* --spi-image-format given or not, its companions given or not:
              \* a subset of {"none", "bare", "full"}
  MaxRuns     \* bound: runs of the script

\* A command line is a list of words, and Unset is no number.
ASSUME ArgvsAssumption == Argvs \subseteq Seq(STRING)
ASSUME UnsetAssumption == Unset \notin Nat

VARIABLES
  run,      \* the number of the run
  step,     \* what it does next
  argv,     \* its command line, as far as the SPI files go
  dir,      \* what -s names
  elf,      \* what -d names
  spi,      \* the SPI options
  status,   \* its exit status, Unset until it ends
  work,     \* tmp-<name>: [dir, image], image the run that made its FPGA
            \* image; or Unset
  out,      \* updated-fpga.bit or .rcdo: [run, base], or Unset
  pdi,      \* the run whose bootgen wrote updated-fpga.pdi, or Unset
  flash,    \* the flash image: [run, load, files], or Unset
  silent    \* a tool of this run exited with 0 and wrote nothing

fpgaVars == <<run, step, argv, dir, elf, spi, status, work, out, pdi, flash, silent>>

-----------------------------------------------------------------------------
(* The command line.                                                       *)

SpiFileArgs == {"--u-boot", "--boot-script", "--kernel", "--rootfs"}

IsFlag(t) == t \in SpiFileArgs \cup {"--offset", "-v"}

\* A turn of preprocess_argv's loop: a file's option takes the next word along
\* unless that is an option, and the --offset behind the two is left out.
Turn(args, s) ==
  LET i == s.i
      n == Len(args)
  IN  IF i > n THEN s
      ELSE IF args[i] \in SpiFileArgs
      THEN IF i < n /\ ~IsFlag(args[i + 1])
           THEN [i |-> i + 2, result |-> s.result \o <<args[i], args[i + 1]>>, pending |-> TRUE]
           ELSE [i |-> i + 1, result |-> Append(s.result, args[i]), pending |-> FALSE]
      ELSE IF args[i] = "--offset" /\ s.pending
      THEN IF i < n
           THEN [i |-> i + 2, result |-> Append(s.result, args[i + 1]), pending |-> FALSE]
           ELSE [i |-> i + 1, result |-> s.result, pending |-> FALSE]
      ELSE [i |-> i + 1, result |-> Append(s.result, args[i]), pending |-> FALSE]

Turns(args) ==
  LET turns[k \in 0..Len(args)] ==
        IF k = 0 THEN [i |-> 1, result |-> <<>>, pending |-> FALSE]
        ELSE Turn(args, turns[k - 1])
  IN  turns

PreprocessArgv(args) == Turns(args)[Len(args)].result

\* argparse, given what the parser declares: the number of words an option
\* takes, no word that belongs to none, the last use of an option.
Nargs(t) == IF t \in SpiFileArgs THEN 2 ELSE IF t = "--offset" THEN 1 ELSE 0

UsageError(args) ==
  \E i \in DOMAIN args :
    IF IsFlag(args[i])
    THEN \E k \in 1..Nargs(args[i]) : i + k > Len(args) \/ IsFlag(args[i + k])
    ELSE ~\E k \in 1..2 : /\ k < i
                          /\ IsFlag(args[i - k]) /\ k <= Nargs(args[i - k])
                          /\ \A m \in 1..(k - 1) : ~IsFlag(args[i - m])

ParseArguments(args) ==
  LET at(f) == {i \in DOMAIN args : args[i] = f}
      last(f) == CHOOSE i \in at(f) : \A j \in at(f) : j <= i
  IN  [f \in {g \in SpiFileArgs : at(g) # {}} |-> <<args[last(f) + 1], args[last(f) + 2]>>]

-----------------------------------------------------------------------------

FpgaInit ==
  /\ run = 0 /\ step = "idle" /\ status = Unset
  /\ argv = <<>> /\ dir \in Artifacts /\ elf = "elf" /\ spi = "none"
  /\ work = Unset /\ out = Unset /\ pdi = Unset /\ flash = Unset
  /\ silent = FALSE

Exit(code) == step' = "idle" /\ status' = code

Goto(label) == step' = label /\ UNCHANGED status

Input == <<run, argv, dir, elf, spi>>

Products == <<out, pdi, flash>>

\* main() is called: parse_arguments, which exits with 2 on a usage error.
Invoke ==
  /\ step = "idle" /\ run < MaxRuns
  /\ run' = run + 1
  /\ argv' \in Argvs
  /\ silent' = FALSE
  /\ IF UsageError(PreprocessArgv(argv'))
     THEN Exit(2) /\ UNCHANGED <<elf, spi>>
     ELSE /\ step' = "check" /\ status' = Unset
          /\ elf' \in Elves /\ spi' \in Formats
  /\ UNCHANGED <<dir, work, Products>>

\* check_updatemem_available
CheckUpdatememAvailable ==
  /\ step = "check"
  /\ Exit(1) \/ Goto("copy")
  /\ UNCHANGED <<Input, work, Products, silent>>

\* Mutant: a copy that exists is used again.
CopyArtifactsDir_Kept ==
  /\ step = "copy"
  /\ work' = IF work = Unset THEN [dir |-> dir, image |-> 0] ELSE work
  /\ Exit(1) \/ Goto("find")
  /\ UNCHANGED <<Input, Products, silent>>

\* copy_artifacts_dir: what was copied there before goes first; the copy may
\* fail half-way.
CopyArtifactsDir ==
  /\ step = "copy"
  /\ work' = [dir |-> dir, image |-> 0]
  /\ Exit(1) \/ Goto("find")
  /\ UNCHANGED <<Input, Products, silent>>

\* read_instpath_from_mmi: the first InstPath of the first .mmi file.
HasInstPath == work.dir.mmi = "InstPath"

\* validate_inputs: the files were found by their extensions, but for -d.
ValidInputs == elf = "elf"

FindInputs ==
  /\ step = "find"
  /\ IF work.dir.mmi # "absent" /\ work.dir.images # <<>> /\ HasInstPath /\ ValidInputs
     THEN Goto("configure")
     ELSE Exit(1)
  /\ UNCHANGED <<Input, work, Products, silent>>

\* configure: the output directory and updatemem.conf, either may fail.
Configure ==
  /\ step = "configure"
  /\ Exit(1) \/ Goto("compile")
  /\ UNCHANGED <<Input, work, Products, silent>>

\* The file found first in the order of names, and what its updated form is.
Extension == Head(work.dir.images)

\* compile_bitstream: updatemem fails; or writes the output; or exits with 0
\* and writes nothing, which is seen if there is no output of a former run.
CompileBitstream ==
  /\ step = "compile"
  /\ \/ Exit(1) /\ UNCHANGED <<out, silent>>
     \/ /\ out' = [run |-> run, base |-> work.image]
        /\ Goto("replace")
        /\ UNCHANGED silent
     \/ /\ IF out = Unset THEN Exit(1) ELSE Goto("replace")
        /\ silent' = TRUE
        /\ UNCHANGED out
  /\ UNCHANGED <<Input, work, pdi, flash>>

\* copy_rcdo_to_pdi_files: the copy of an .rcdo takes the updated one's place
\* if there is a .pdi; the copying may fail, and then nobody is told.
CopyRcdo ==
  /\ step = "replace"
  /\ IF Extension = "rcdo" /\ work.dir.pdi
     THEN \/ work' = [work EXCEPT !.image = out.run] /\ Goto("bootgen")
          \/ UNCHANGED work /\ Goto("spi")
     ELSE UNCHANGED work /\ Goto("spi")
  /\ UNCHANGED <<Input, Products, silent>>

\* run_bootgen: without a .bif beside the .rcdo, when bootgen fails or writes
\* nothing where nothing was, the run goes on as if there were no .pdi.
RunBootgen ==
  /\ step = "bootgen"
  /\ \/ work.dir.bif /\ pdi' = run /\ Goto("spi pdi") /\ UNCHANGED silent
     \/ UNCHANGED <<pdi, silent>> /\ Goto("spi")
     \/ /\ work.dir.bif /\ UNCHANGED pdi /\ silent' = TRUE
        /\ Goto(IF pdi = Unset THEN "spi" ELSE "spi pdi")
  /\ UNCHANGED <<Input, work, out, flash>>

\* generate_spi_image_tcl: the script loads what it is given at 0, each file
\* at its offset, and Vivado runs it; anything may fail.
GenerateSpiImageTcl ==
  /\ step \in {"spi", "spi pdi"}
  /\ IF spi = "none"
     THEN Exit(0) /\ UNCHANGED flash
     ELSE \/ spi = "full" /\ Exit(0)
             /\ flash' = [run   |-> run,
                          load  |-> IF step = "spi pdi" THEN pdi ELSE out.run,
                          files |-> ParseArguments(PreprocessArgv(argv))]
          \/ Exit(1) /\ UNCHANGED flash
  /\ UNCHANGED <<Input, work, out, pdi, silent>>

\* The run is interrupted.
Kill ==
  /\ step # "idle"
  /\ Exit(1)
  /\ UNCHANGED <<Input, work, Products, silent>>

FpgaNext ==
  \/ Invoke \/ CheckUpdatememAvailable \/ CopyArtifactsDir \/ FindInputs
  \/ Configure \/ CompileBitstream \/ CopyRcdo \/ RunBootgen
  \/ GenerateSpiImageTcl \/ Kill

FpgaSpec == FpgaInit /\ [][FpgaNext]_fpgaVars

-----------------------------------------------------------------------------
\* What the command line says of file f: the word after its last use, and the
\* word after that or after the --offset that follows.
Said(f) ==
  LET at == {i \in DOMAIN argv : argv[i] = f}
      i  == CHOOSE j \in at : \A k \in at : k <= j
  IN  <<argv[i + 1], IF argv[i + 2] = "--offset" THEN argv[i + 3] ELSE argv[i + 2]>>

\* A run that exits with 0 has embedded its ELF file in the image as it is in
\* the artifacts directory, whatever runs before it left in the copy, and the
\* flash image asked for is its own, with every file at the offset the command
\* line gives right after that file; unless a tool claimed a success it had not.
UpdateTruthful ==
  (status = 0 /\ ~silent) =>
     /\ out = [run |-> run, base |-> 0]
     /\ spi # "none" =>
          /\ flash.run = run /\ flash.load = run
          /\ DOMAIN flash.files = {f \in SpiFileArgs : \E i \in DOMAIN argv : argv[i] = f}
          /\ \A f \in DOMAIN flash.files : flash.files[f] = Said(f)

\* "replace the original rcdo (bit_file) in-place with the updated one then
\* run bootgen ... to regenerate the .pdi": a run that exits with 0 on
\* artifacts with an .rcdo and a .pdi leaves a .pdi of its own.
PdiRegenerated ==
  (status = 0 /\ Extension = "rcdo" /\ work.dir.pdi) => pdi = run

=============================================================================
