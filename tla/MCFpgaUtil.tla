----------------------------- MODULE MCFpgaUtil -----------------------------
(* Instances of FpgaUtil: a static image and a partial one, and a second    *)
(* partial overlay whose file has the same name in another directory.       *)
EXTENDS FpgaUtil, FiniteSets

MCBins == {"top.bin", "rm0.bin"}
MCDtbos == {"top.dtbo", "a/rm.dtbo", "b/rm.dtbo", "base.dtbo"}

MCBasename == [f \in MCBins \cup MCDtbos |->
  CASE f \in {"a/rm.dtbo", "b/rm.dtbo"} -> "rm.dtbo" [] OTHER -> f]

MCFirmwareName == [d \in MCDtbos |->
  CASE d = "top.dtbo" -> "top.bin"
    [] d = "base.dtbo" -> ""
    [] OTHER -> "rm0.bin"]

O(o, arg) == [o |-> o, arg |-> arg]

B(f) == O("-b", f)
D(f) == O("-o", f)
F(f) == O("-f", f)
N(r) == O("-n", r)
R == O("-R", "")

LoadFull    == <<B("top.bin"), D("top.dtbo")>>
LoadPartA   == <<B("rm0.bin"), D("a/rm.dtbo"), F("Partial"), N("PR0")>>
LoadPartB   == <<B("rm0.bin"), D("b/rm.dtbo"), F("Partial"), N("PR1")>>
BaseOverlay == <<D("base.dtbo"), N("PR0")>>
SysfsFull   == <<B("top.bin"), F("Full"), O("-s", "EnUsrKey"), O("-k", "k1")>>
SysfsPart   == <<B("rm0.bin"), F("Partial")>>
RemoveFull  == <<R>>
RemovePart  == <<R, N("PR0")>>
NoRegion    == <<B("rm0.bin"), D("a/rm.dtbo"), F("Partial")>>
ReadBack    == <<B("top.bin"), O("-r", ""), O("-t", "")>>

AllCommands == {LoadFull, LoadPartA, LoadPartB, BaseOverlay, SysfsFull,
                SysfsPart, RemoveFull, RemovePart, NoRegion, ReadBack}
OneLoad == {LoadFull, LoadPartA}

\* One directory is as good as another.
AnyCwd == Permutations(Cwds)
=============================================================================
