---------------------------- MODULE BuildProofs ----------------------------
(***************************************************************************)
(* Proofs about "cog build", "cog push" and "base-image": first about the  *)
(* configuration and the Dockerfile that is made from it, for every        *)
(* cog.yaml, all tables of versions and every number of failures, and then *)
(* about the image, for every set of models, patterns, images and calls,   *)
(* and every number of builds, edits, failures and kills.                  *)
(*                                                                         *)
(* The first invariant (DockerfileInvariant) says what is known of the     *)
(* configuration at each step of a command and which parts of the          *)
(* Dockerfile have been made from it.  The second one says what            *)
(* .dockerignore and its backup, the files under .cog and the images are   *)
(* at each step of a build.                                                *)
(***************************************************************************)
EXTENDS ImageBuild, DockerfileInvariant, FiniteSetTheorems, SequenceTheorems, TLAPS

-----------------------------------------------------------------------------
(* Orders                                                                  *)

\* A finite set with a total order has a greatest element.
LEMMA Greatest ==
    ASSUME NEW S, IsFiniteSet(S), S # {}, NEW R,
           \A x, y \in S : <<x, y>> \in R \/ <<y, x>> \in R,
           \A x, y, z \in S : <<x, y>> \in R /\ <<y, z>> \in R => <<x, z>> \in R
    PROVE  \E m \in S : \A x \in S : <<x, m>> \in R
<1> DEFINE Has(T) == \E m \in T : \A x \in T : <<x, m>> \in R
           Bad == {T \in SUBSET S : T # {} /\ ~Has(T)}
<1>1. IsWellFoundedOn(StrictSubsetOrdering(S), SUBSET S)
  BY FS_StrictSubsetOrderingWellFounded, FS_FiniteSubsetsOfFinite
<1>2. SUFFICES ASSUME Bad # {} PROVE FALSE
  <2>1. S \in SUBSET S OBVIOUS
  <2> QED BY <1>2, <2>1
<1>3. PICK T \in Bad : \A U \in Bad : <<U, T>> \notin StrictSubsetOrdering(S)
  <2>1. Bad \subseteq SUBSET S OBVIOUS
  <2> HIDE DEF Bad
  <2> QED BY <1>1, <1>2, <2>1, WFMin
<1>4. T \in SUBSET S /\ T # {} OBVIOUS
<1>5. PICK x \in T : TRUE OBVIOUS
<1>6. T \ {x} \in SUBSET S BY <1>4
<1>7. T \ {x} \notin Bad
  <2>1. <<T \ {x}, T>> \in StrictSubsetOrdering(S)
    BY <1>4, <1>5, <1>6 DEF StrictSubsetOrdering
  <2> HIDE DEF Bad
  <2> QED BY <1>3, <2>1
<1>8. CASE T = {x}
  <2>1. <<x, x>> \in R BY <1>4, <1>5
  <2> QED BY <1>4, <1>8, <2>1
<1>9. CASE T # {x}
  <2>1. PICK m \in T \ {x} : \A y \in T \ {x} : <<y, m>> \in R
    BY <1>5, <1>6, <1>7, <1>9
  <2>2. T \subseteq S BY <1>4
  <2>3. CASE <<x, m>> \in R
    <3>1. \A y \in T : <<y, m>> \in R BY <2>1, <2>3
    <3> QED BY <1>4, <2>1, <3>1
  <2>4. CASE <<m, x>> \in R
    <3>1. \A y \in T : <<y, x>> \in R BY <1>5, <2>1, <2>2, <2>4
    <3> QED BY <1>4, <1>5, <3>1
  <2> QED BY <1>5, <2>1, <2>2, <2>3, <2>4
<1> QED BY <1>8, <1>9

\* So a finite set of numbers has a least and a greatest one.
LEMMA Extremes ==
    ASSUME NEW S, S \subseteq Nat, IsFiniteSet(S), S # {}
    PROVE  /\ \E m \in S : \A x \in S : m <= x
           /\ \E m \in S : \A x \in S : x <= m
<1> DEFINE R == {p \in S \X S : p[1] <= p[2]}
           Q == {p \in S \X S : p[2] <= p[1]}
<1>1. \A x \in S : x \in Nat OBVIOUS
<1>2. \A x, y \in S : (<<x, y>> \in R <=> x <= y) /\ (<<x, y>> \in Q <=> y <= x)
  OBVIOUS
<1> HIDE DEF R, Q
<1>3. \A x, y \in S : x <= y \/ y <= x
  <2> TAKE x, y \in S
  <2>1. x \in Nat /\ y \in Nat BY <1>1
  <2> QED BY <2>1
<1>4. \A x, y, z \in S : x <= y /\ y <= z => x <= z
  <2> TAKE x, y, z \in S
  <2>1. x \in Nat /\ y \in Nat /\ z \in Nat BY <1>1
  <2> QED BY <2>1
<1>5. \E m \in S : \A x \in S : <<x, m>> \in R
  BY <1>2, <1>3, <1>4, Greatest
<1>6. \E m \in S : \A x \in S : <<x, m>> \in Q
  BY <1>2, <1>3, <1>4, Greatest
<1> QED BY <1>2, <1>5, <1>6

-----------------------------------------------------------------------------
(* Versions                                                                *)

\* The numbers of a version are numbers.
LEMMA NumType == \A v \in Version : \A i \in 1 .. 3 : Num(v, i) \in Nat
BY DEF Version, Num

\* A version is greater by its first number that differs.
LEMMA GreaterIs ==
    \A v, w \in Version :
        Greater(v, w) <=>
            \/ Num(v, 1) > Num(w, 1)
            \/ Num(v, 1) = Num(w, 1) /\ Num(v, 2) > Num(w, 2)
            \/ /\ Num(v, 1) = Num(w, 1) /\ Num(v, 2) = Num(w, 2)
               /\ Num(v, 3) > Num(w, 3)
<1> TAKE v, w \in Version
<1>1. \A i \in 1 .. 3 : i = 1 \/ i = 2 \/ i = 3 OBVIOUS
<1>2. 1 .. 1 - 1 = {} /\ 1 .. 2 - 1 = {1} /\ 1 .. 3 - 1 = {1, 2} OBVIOUS
<1>3. 1 \in 1 .. 3 /\ 2 \in 1 .. 3 /\ 3 \in 1 .. 3 OBVIOUS
<1> QED BY <1>1, <1>2, <1>3 DEF Greater

\* Versions are equal when their first three numbers are.
LEMMA EqualIs ==
    \A v, w \in Version :
        Equal(v, w) <=>
            /\ Num(v, 1) = Num(w, 1) /\ Num(v, 2) = Num(w, 2)
            /\ Num(v, 3) = Num(w, 3)
<1> TAKE v, w \in Version
<1>1. \A i \in 1 .. 3 : i = 1 \/ i = 2 \/ i = 3 OBVIOUS
<1>3. 1 \in 1 .. 3 /\ 2 \in 1 .. 3 /\ 3 \in 1 .. 3 OBVIOUS
<1> QED BY <1>1, <1>3 DEF Equal

\* The order is total, and equality is what it leaves.
LEMMA VersionOrder ==
    /\ \A v \in Version : ~Greater(v, v)
    /\ \A v, w \in Version : Greater(v, w) \/ Greater(w, v) \/ Equal(v, w)
    /\ \A v, w \in Version : Equal(v, w) => Equal(w, v) /\ ~Greater(v, w)
    /\ \A v, w \in Version : Greater(v, w) => ~Greater(w, v)
    /\ \A u, v, w \in Version :
          /\ Greater(u, v) /\ ~Greater(w, v) => Greater(u, w)
          /\ ~Greater(v, u) /\ Greater(v, w) => Greater(u, w)
          /\ Equal(u, v) /\ Equal(v, w) => Equal(u, w)
<1>1. \A v \in Version : Num(v, 1) \in Nat /\ Num(v, 2) \in Nat /\ Num(v, 3) \in Nat
  BY NumType
<1> QED BY <1>1, GreaterIs, EqualIs

\* The latest of some versions.
LEMMA LatestIs ==
    ASSUME NEW vs, vs \subseteq Version, IsFiniteSet(vs), vs # {}
    PROVE  Latest(vs) \in vs /\ \A w \in vs : ~Greater(w, Latest(vs))
<1> DEFINE R == {p \in vs \X vs : ~Greater(p[1], p[2])}
<1>1. \A x, y \in vs : <<x, y>> \in R <=> ~Greater(x, y) OBVIOUS
<1>2. \A x, y \in vs : <<x, y>> \in R \/ <<y, x>> \in R
  BY <1>1, VersionOrder
<1>3. \A x, y, z \in vs : <<x, y>> \in R /\ <<y, z>> \in R => <<x, z>> \in R
  BY <1>1, VersionOrder
<1> HIDE DEF R
<1>4. \E m \in vs : \A x \in vs : <<x, m>> \in R
  BY <1>2, <1>3, Greatest
<1>5. \E m \in vs : \A x \in vs : ~Greater(x, m)
  BY <1>1, <1>4
<1> QED BY <1>5 DEF Latest

-----------------------------------------------------------------------------
(* The tables                                                              *)

\* The table has finitely many rows, releases and CUDA versions.
LEMMA TorchRowsFinite ==
    /\ IsFiniteSet(DOMAIN TorchRows)
    /\ IsFiniteSet({TorchRows[k].torch : k \in DOMAIN TorchRows})
    /\ IsFiniteSet({TorchRows[k].cuda : k \in DOMAIN TorchRows})
<1> DEFINE K == DOMAIN TorchRows
<1>1. IsFiniteSet(K)
  BY FS_Interval, TablesAssumption
<1>2. IsFiniteSet({TorchRows[k].torch : k \in K})
  <2>1. [k \in K |-> TorchRows[k].torch] \in Surjection(K, {TorchRows[k].torch : k \in K})
    BY DEF Surjection
  <2> QED BY <1>1, <2>1, FS_Surjection
<1>3. IsFiniteSet({TorchRows[k].cuda : k \in K})
  <2>1. [k \in K |-> TorchRows[k].cuda] \in Surjection(K, {TorchRows[k].cuda : k \in K})
    BY DEF Surjection
  <2> QED BY <1>1, <2>1, FS_Surjection
<1> QED BY <1>1, <1>2, <1>3

\* A function of two or three numbers is a version with these numbers.
LEMMA FixedLength ==
    /\ \A v \in [1 .. 2 -> Nat] :
          /\ v \in Version /\ Len(v) = 2 /\ v # None
          /\ Num(v, 1) = v[1] /\ Num(v, 2) = v[2] /\ Num(v, 3) = 0
          /\ StripPatch(v) = v
    /\ \A v \in [1 .. 3 -> Nat] :
          /\ v \in Version /\ Len(v) = 3 /\ v # None
          /\ Num(v, 1) = v[1] /\ Num(v, 2) = v[2] /\ Num(v, 3) = v[3]
<1>1. 2 \in Nat /\ 3 \in Nat /\ Version = UNION {[1 .. n -> Nat] : n \in Nat}
  BY SeqDef DEF Version
<1>2. ASSUME NEW v \in [1 .. 2 -> Nat]
      PROVE  v \in Version /\ Len(v) = 2 /\ v # None
  <2>1. v \in Version BY <1>1
  <2> QED BY <2>1, LenProperties, TablesAssumption DEF Version
<1>3. ASSUME NEW v \in [1 .. 3 -> Nat]
      PROVE  v \in Version /\ Len(v) = 3 /\ v # None
  <2>1. v \in Version BY <1>1
  <2> QED BY <2>1, LenProperties, TablesAssumption DEF Version
<1>4. \A v \in [1 .. 2 -> Nat] :
        /\ Num(v, 1) = v[1] /\ Num(v, 2) = v[2] /\ Num(v, 3) = 0
        /\ StripPatch(v) = v
  <2> TAKE v \in [1 .. 2 -> Nat]
  <2>1. Num(v, 1) = v[1] /\ Num(v, 2) = v[2] /\ Num(v, 3) = 0
    <3>1. Len(v) = 2 BY <1>2
    <3> QED BY <3>1 DEF Num
  <2> DEFINE w == <<v[1], v[2]>>
  <2>2. v \in Seq(Nat) /\ w \in Seq(Nat) /\ Len(v) = 2 /\ Len(w) = 2
    BY <1>2 DEF Version
  <2>3. \A i \in 1 .. Len(v) : v[i] = w[i]
    BY <2>2
  <2>4. v = w
    <3> HIDE DEF w
    <3> QED BY <2>2, <2>3, SeqEqual
  <2> QED BY <2>1, <2>4 DEF StripPatch
<1>5. \A v \in [1 .. 3 -> Nat] :
        Num(v, 1) = v[1] /\ Num(v, 2) = v[2] /\ Num(v, 3) = v[3]
  BY <1>3 DEF Num
<1> QED BY <1>2, <1>3, <1>4, <1>5

\* The rows that are kept are rows of the table, with an image for their CUDA
\* version, if any.
LEMMA MatrixType ==
    /\ DOMAIN TorchMatrix \subseteq DOMAIN TorchRows
    /\ IsFiniteSet(DOMAIN TorchMatrix)
    /\ \A k \in DOMAIN TorchMatrix :
          /\ TorchMatrix[k] = TorchRows[k] /\ TorchMatrix[k] \in TorchRow
          /\ TorchMatrix[k].cuda # None =>
                \E i \in Images : Matches(TorchMatrix[k].cuda, i.cuda)
    /\ Rows(TorchMatrix) \subseteq Rows(TorchRows)
    /\ Rows(TorchRows) \subseteq TorchRow
    /\ \A r \in Rows(TorchMatrix) :
          r.cuda # None => \E i \in Images : Matches(r.cuda, i.cuda)
    /\ \A r, s \in Rows(TorchRows) : r.vision = s.vision => r.torch = s.torch
    /\ DOMAIN TorchRows \subseteq Nat
<1>1. \A k \in DOMAIN TorchRows : TorchRows[k] \in TorchRow /\ k \in Nat
  BY TablesAssumption
<1>2. /\ DOMAIN TorchMatrix \subseteq DOMAIN TorchRows
      /\ \A k \in DOMAIN TorchMatrix :
            /\ TorchMatrix[k] = TorchRows[k]
            /\ TorchMatrix[k].cuda # None =>
                  \E i \in Images : Matches(TorchMatrix[k].cuda, i.cuda)
  BY DEF TorchMatrix
<1>3. IsFiniteSet(DOMAIN TorchMatrix)
  BY <1>2, TorchRowsFinite, FS_Subset
<1>4. \A r, s \in Rows(TorchRows) : r.vision = s.vision => r.torch = s.torch
  <2> TAKE r, s \in Rows(TorchRows)
  <2>1. PICK i \in DOMAIN TorchRows, j \in DOMAIN TorchRows :
          r = TorchRows[i] /\ s = TorchRows[j]
    BY DEF Rows
  <2> QED BY <2>1, TablesAssumption
<1> QED BY <1>1, <1>2, <1>3, <1>4 DEF Rows

\* Of rows for some CUDA version the latest is one of them.
LEMMA LatestRowIs ==
    ASSUME NEW rows, rows \subseteq Rows(TorchMatrix), rows # {},
           \A r \in rows : r.cuda # None
    PROVE  /\ LatestRow(TorchMatrix, rows) \in rows
           /\ \A r \in rows : ~Greater(r.cuda, LatestRow(TorchMatrix, rows).cuda)
<1> DEFINE is == {i \in DOMAIN TorchMatrix : TorchMatrix[i] \in rows}
           C(i) == TorchMatrix[i].cuda
           Later(i, j) == \/ Greater(C(i), C(j))
                          \/ Equal(C(i), C(j)) /\ i <= j
           R == {p \in is \X is : Later(p[2], p[1])}
<1>1. \A x, y \in is : <<x, y>> \in R <=> Later(y, x) OBVIOUS
<1>2. /\ IsFiniteSet(is) /\ is \subseteq Nat
      /\ \A r \in rows : \E i \in is : r = TorchMatrix[i]
  BY MatrixType, FS_Subset DEF Rows
<1>3. is # {} BY <1>2
<1>4. \A i \in is : C(i) \in Version
  BY MatrixType, FixedLength DEF TorchRow
<1> HIDE DEF C, R
<1>5. \A x, y \in is : <<x, y>> \in R \/ <<y, x>> \in R
  <2> TAKE x, y \in is
  <2>1. Later(x, y) \/ Later(y, x)
    BY <1>2, <1>4, VersionOrder
  <2> QED BY <1>1, <2>1
<1>6. \A x, y, z \in is : <<x, y>> \in R /\ <<y, z>> \in R => <<x, z>> \in R
  <2> SUFFICES ASSUME NEW x \in is, NEW y \in is, NEW z \in is,
                      Later(y, x), Later(z, y)
               PROVE  Later(z, x)
    BY <1>1
  <2>1. C(x) \in Version /\ C(y) \in Version /\ C(z) \in Version BY <1>4
  <2>2. x \in Nat /\ y \in Nat /\ z \in Nat BY <1>2
  <2> HIDE DEF is
  <2>3. CASE Greater(C(z), C(y)) /\ Greater(C(y), C(x))
    BY <2>1, <2>3, VersionOrder
  <2>4. CASE Greater(C(z), C(y)) /\ Equal(C(y), C(x)) /\ y <= x
    BY <2>1, <2>4, VersionOrder
  <2>5. CASE Equal(C(z), C(y)) /\ Greater(C(y), C(x))
    BY <2>1, <2>5, VersionOrder
  <2>6. CASE Equal(C(z), C(y)) /\ z <= y /\ Equal(C(y), C(x)) /\ y <= x
    <3>1. Equal(C(z), C(x)) BY <2>1, <2>6, VersionOrder
    <3> QED BY <2>2, <2>6, <3>1
  <2> QED BY <2>3, <2>4, <2>5, <2>6
<1>7. \E m \in is : \A x \in is : <<x, m>> \in R
  <2> HIDE DEF is, Later
  <2> QED BY <1>2, <1>3, <1>5, <1>6, Greatest
<1>8. PICK i \in is : /\ LatestRow(TorchMatrix, rows) = TorchMatrix[i]
                      /\ \A j \in is : Later(i, j)
  <2>1. \E m \in is : \A j \in is : Later(m, j) BY <1>1, <1>7
  <2> QED BY <2>1 DEF LatestRow, C
<1>9. \A j \in is : ~Greater(C(j), C(i))
  BY <1>4, <1>8, VersionOrder
<1> QED BY <1>2, <1>8, <1>9 DEF C

\* A CUDA version that has an image has one with the version of cuDNN that
\* is chosen for it.
LEMMA LatestCuDNNIs ==
    ASSUME NEW cuda, \E i \in Images : Matches(cuda, i.cuda)
    PROVE  /\ LatestCuDNNForCUDA(cuda) \in Nat
           /\ BaseImagesFor(cuda, LatestCuDNNForCUDA(cuda)) # {}
<1> DEFINE of == {j \in Images : Matches(cuda, j.cuda)}
           all == {i.cudnn : i \in of}
<1>1. all \subseteq Nat /\ all # {} BY TablesAssumption
<1>2. IsFiniteSet(all)
  <2>1. IsFiniteSet(of) BY FS_Subset, TablesAssumption
  <2>2. [i \in of |-> i.cudnn] \in Surjection(of, all) BY DEF Surjection
  <2> HIDE DEF of, all
  <2> QED BY <2>1, <2>2, FS_Surjection
<1>3. \E n \in all : \A m \in all : m <= n
  <2> HIDE DEF all
  <2> QED BY <1>1, <1>2, Extremes
<1>4. LatestCuDNNForCUDA(cuda) \in all
  <2>1. LatestCuDNNForCUDA(cuda) = CHOOSE n \in all : \A m \in all : m <= n
    BY <1>1 DEF LatestCuDNNForCUDA
  <2> HIDE DEF all
  <2> QED BY <1>3, <2>1
<1> QED BY <1>1, <1>4 DEF BaseImagesFor

\* Of the images that fit, the latest one is a base.
LEMMA OwnBaseExists == \A c : HasImage(c) => OwnBase(c) # {}
<1> SUFFICES ASSUME NEW c, HasImage(c), c.gpu /\ useCuda
             PROVE  OwnBase(c) # {}
  BY DEF OwnBase
<1> DEFINE all == BaseImagesFor(c.cuda, c.cudnn)
           R == {p \in all \X all : ~Greater(p[1].cuda, p[2].cuda)}
<1>1. all # {} /\ all \subseteq Images BY DEF HasImage, BaseImagesFor
<1>2. IsFiniteSet(all) /\ \A i \in all : i.cuda \in Version
  BY <1>1, FS_Subset, TablesAssumption, FixedLength
<1>3. \A x, y \in all : <<x, y>> \in R <=> ~Greater(x.cuda, y.cuda) OBVIOUS
<1> HIDE DEF all, R
<1>4. \A x, y \in all : <<x, y>> \in R \/ <<y, x>> \in R
  BY <1>2, <1>3, VersionOrder
<1>5. \A x, y, z \in all : <<x, y>> \in R /\ <<y, z>> \in R => <<x, z>> \in R
  BY <1>2, <1>3, VersionOrder
<1>6. PICK m \in all : \A x \in all : <<x, m>> \in R
  BY <1>1, <1>2, <1>4, <1>5, Greatest
<1>7. \A k \in all : ~Greater(k.cuda, m.cuda) BY <1>3, <1>6
<1> QED BY <1>7 DEF OwnBase, all
-----------------------------------------------------------------------------
(* Python packages                                                         *)

\* A resolved line keeps its name, or it names no package and was TensorFlow.
LEMMA ResolvedName ==
    ASSUME NEW c, NEW line \in PackageLine
    PROVE  LET p == PythonPackageForArch(c, line)
           IN  p.name = line.name \/ line.name = "tensorflow"
<1> DEFINE p == PythonPackageForArch(c, line)
<1>1. CASE line.spec # "==" \/ line.index
  BY <1>1 DEF PythonPackageForArch, Default, Release
<1>2. CASE ~(line.spec # "==" \/ line.index) /\ line.name = "torch"
  BY <1>2 DEF PythonPackageForArch, TorchGPUPackage, CPUPackage, Default, Release
<1>3. CASE ~(line.spec # "==" \/ line.index) /\ line.name = "torchvision"
  BY <1>3 DEF PythonPackageForArch, TorchvisionGPUPackage, CPUPackage, Default, Release
<1>4. CASE /\ ~(line.spec # "==" \/ line.index)
           /\ line.name \notin {"torch", "torchvision", "tensorflow"}
  BY <1>4 DEF PythonPackageForArch, Default, Release
<1> QED BY <1>1, <1>2, <1>3, <1>4
\* What is installed has a version, and a CUDA version or None.
Package == [name : PackageName \cup {""}, ver : Version, cuda : Version \cup {None}]

\* What the index has is a package.
LEMMA DefaultType ==
    \A name \in PackageName \cup {""}, ver \in Version : Default(name, ver) \in Package
<1>1. <<>> \in Version BY DEF Version
<1> QED BY <1>1 DEF Default, Release, Package

\* The rows that fit a line of PyTorch and one of torchvision.
TorchFits(c, line) ==
    {r \in Rows(TorchMatrix) : /\ r.cuda # None /\ Matches(r.torch, line.ver)
                               /\ ~Greater(r.cuda, c.cuda)}
VisionFits(c, line) ==
    {r \in Rows(TorchMatrix) : /\ r.cuda # None /\ r.vision = line.ver
                               /\ line.cu = None /\ ~Greater(r.cuda, c.cuda)}

\* On a GPU PyTorch is that of the latest CUDA version that is not later than
\* that of the configuration, or what the index has.
LEMMA TorchGPUPackageIs ==
    ASSUME NEW c, NEW line \in PackageLine
    PROVE  LET p == TorchGPUPackage(c, line)
           IN  /\ p \in Package /\ p.name = "torch"
               /\ \/ TorchFits(c, line) = {} /\ p.cuda = <<>>
                  \/ \E row \in TorchFits(c, line) :
                        /\ p.ver = row.torch /\ p.cuda = row.cuda
                        /\ \A r \in TorchFits(c, line) : ~Greater(r.cuda, row.cuda)
<1> DEFINE fits == TorchFits(c, line)
           p == TorchGPUPackage(c, line)
           row == LatestRow(TorchMatrix, fits)
<1>1. TorchGPUPackage(c, line) =
         IF fits # {} THEN Release("torch", row.torch, row.cuda)
         ELSE Default("torch", line.ver)
  BY DEF TorchGPUPackage, TorchFits
<1>2. fits \subseteq Rows(TorchMatrix) /\ \A r \in fits : r.cuda # None
  BY DEF TorchFits
<1> HIDE DEF fits
<1>3. CASE fits = {}
  <2>1. p = Default("torch", line.ver) BY <1>1, <1>3
  <2>2. p \in Package
    <3>1. "torch" \in PackageName /\ line.ver \in Version
      BY DEF PackageLine, PackageName
    <3> QED BY <2>1, <3>1, DefaultType
  <2>3. p.name = "torch" /\ p.cuda = <<>> BY <2>1 DEF Default, Release
  <2> QED BY <1>3, <2>2, <2>3 DEF fits
<1>4. CASE fits # {}
  <2>1. row \in fits /\ \A r \in fits : ~Greater(r.cuda, row.cuda)
    BY <1>2, <1>4, LatestRowIs
  <2>2. row.torch \in Version /\ row.cuda \in Version
    <3>1. row \in TorchRow BY <1>2, <2>1, MatrixType
    <3> QED BY <1>2, <2>1, <3>1, FixedLength DEF TorchRow
  <2>3. p = Release("torch", row.torch, row.cuda) BY <1>1, <1>4
  <2> HIDE DEF row
  <2>4. p \in Package
    <3>1. "torch" \in PackageName BY DEF PackageName
    <3> QED BY <2>2, <2>3, <3>1 DEF Release, Package
  <2>5. p.name = "torch" /\ p.ver = row.torch /\ p.cuda = row.cuda
    BY <2>3 DEF Release
  <2>6. \E r \in fits : /\ p.ver = r.torch /\ p.cuda = r.cuda
                        /\ \A q \in fits : ~Greater(q.cuda, r.cuda)
    BY <2>1, <2>5
  <2> QED BY <2>4, <2>5, <2>6 DEF fits
<1> QED BY <1>3, <1>4

\* So it is with torchvision.
LEMMA TorchvisionGPUPackageIs ==
    ASSUME NEW c, NEW line \in PackageLine
    PROVE  LET p == TorchvisionGPUPackage(c, line)
           IN  /\ p \in Package /\ p.name = "torchvision"
               /\ \/ VisionFits(c, line) = {} /\ p.cuda = <<>>
                  \/ \E row \in VisionFits(c, line) :
                        /\ p.ver = row.vision /\ p.cuda = row.cuda
                        /\ \A r \in VisionFits(c, line) : ~Greater(r.cuda, row.cuda)
<1> DEFINE fits == VisionFits(c, line)
           p == TorchvisionGPUPackage(c, line)
           row == LatestRow(TorchMatrix, fits)
<1>1. TorchvisionGPUPackage(c, line) =
         IF fits # {} THEN Release("torchvision", row.vision, row.cuda)
         ELSE Default("torchvision", line.ver)
  BY DEF TorchvisionGPUPackage, VisionFits
<1>2. fits \subseteq Rows(TorchMatrix) /\ \A r \in fits : r.cuda # None
  BY DEF VisionFits
<1> HIDE DEF fits
<1>3. CASE fits = {}
  <2>1. p = Default("torchvision", line.ver) BY <1>1, <1>3
  <2>2. p \in Package
    <3>1. "torchvision" \in PackageName /\ line.ver \in Version
      BY DEF PackageLine, PackageName
    <3> QED BY <2>1, <3>1, DefaultType
  <2>3. p.name = "torchvision" /\ p.cuda = <<>> BY <2>1 DEF Default, Release
  <2> QED BY <1>3, <2>2, <2>3 DEF fits
<1>4. CASE fits # {}
  <2>1. row \in fits /\ \A r \in fits : ~Greater(r.cuda, row.cuda)
    BY <1>2, <1>4, LatestRowIs
  <2>2. row.vision \in Version /\ row.cuda \in Version
    <3>1. row \in TorchRow BY <1>2, <2>1, MatrixType
    <3> QED BY <1>2, <2>1, <3>1, FixedLength DEF TorchRow
  <2>3. p = Release("torchvision", row.vision, row.cuda) BY <1>1, <1>4
  <2> HIDE DEF row
  <2>4. p \in Package
    <3>1. "torchvision" \in PackageName BY DEF PackageName
    <3> QED BY <2>2, <2>3, <3>1 DEF Release, Package
  <2>5. p.name = "torchvision" /\ p.ver = row.vision /\ p.cuda = row.cuda
    BY <2>3 DEF Release
  <2>6. \E r \in fits : /\ p.ver = r.vision /\ p.cuda = r.cuda
                        /\ \A q \in fits : ~Greater(q.cuda, r.cuda)
    BY <2>1, <2>5
  <2> QED BY <2>4, <2>5, <2>6 DEF fits
<1> QED BY <1>3, <1>4

\* What a line is resolved to is a package.
LEMMA ResolvedType ==
    ASSUME NEW c, NEW line \in PackageLine
    PROVE  PythonPackageForArch(c, line) \in Package
<1>1. <<>> \in Version BY DEF Version
<1>2. line.name \in PackageName /\ line.ver \in Version BY DEF PackageLine
<1>3. CPUPackage(line, "torch") \in Package /\ CPUPackage(line, "vision") \in Package
  BY <1>1, <1>2 DEF CPUPackage, Release, Default, Package
<1>4. TFPackage(c, line) \in Package
  <2>1. TFPackage(c, line) \in {Default("tensorflow", line.ver), Default("", <<>>)}
    BY DEF TFPackage
  <2>2. "tensorflow" \in PackageName BY DEF PackageName
  <2> QED BY <1>1, <1>2, <2>1, <2>2, DefaultType
<1>5. /\ TorchGPUPackage(c, line) \in Package
      /\ TorchvisionGPUPackage(c, line) \in Package
  BY TorchGPUPackageIs, TorchvisionGPUPackageIs
<1>6. Default(line.name, line.ver) \in Package
  BY <1>2, DefaultType
<1>7. CASE line.spec # "==" \/ line.index
  BY <1>6, <1>7 DEF PythonPackageForArch
<1>8. CASE ~(line.spec # "==" \/ line.index)
  BY <1>3, <1>4, <1>5, <1>6, <1>8 DEF PythonPackageForArch
<1> QED BY <1>7, <1>8

\* The resolved lines, and the framework of a name that is still missing.
Resolved(c) == [i \in DOMAIN c.lines |-> PythonPackageForArch(c, c.lines[i])]

Missing(c, n) ==
    IF PackageVersion(c.lines, n) # None /\ Named(Resolved(c), n) = {}
    THEN <<Default(n, PackageVersion(c.lines, n))>>
    ELSE <<>>

\* The requirements are the resolved lines and the missing frameworks.
LEMMA RequirementsAre ==
    \A c : PythonRequirementsForArch(c) =
             Resolved(c) \o Missing(c, "torch") \o Missing(c, "torchvision")
             \o Missing(c, "tensorflow")
BY DEF PythonRequirementsForArch, Resolved, Missing

\* The first line that has a name is a line.
LEMMA FirstLineIs ==
    ASSUME NEW lines \in Seq(PackageLine), NEW n, Named(lines, n) # {}
    PROVE  /\ FirstLine(lines, n) \in PackageLine
           /\ FirstLine(lines, n) \in {lines[i] : i \in DOMAIN lines}
           /\ PackageVersion(lines, n) = FirstLine(lines, n).ver
           /\ PackageVersion(lines, n) \in Version
           /\ PackageVersion(lines, n) # None
<1> DEFINE S == Named(lines, n)
<1>1. S \subseteq DOMAIN lines /\ DOMAIN lines = 1 .. Len(lines) /\ Len(lines) \in Nat
  BY DEF Named
<1>2. IsFiniteSet(S)
  <2>1. IsFiniteSet(1 .. Len(lines)) BY <1>1, FS_Interval
  <2> HIDE DEF S
  <2> QED BY <1>1, <2>1, FS_Subset
<1>3. \E m \in S : \A x \in S : m <= x
  <2>1. S # {} OBVIOUS
  <2> HIDE DEF S
  <2>2. S \subseteq Nat BY <1>1
  <2> QED BY <1>2, <2>1, <2>2, Extremes
<1>4. FirstLine(lines, n) \in {lines[i] : i \in S}
  BY <1>3 DEF FirstLine
<1> HIDE DEF S
<1>5. /\ FirstLine(lines, n) \in PackageLine
      /\ FirstLine(lines, n) \in {lines[i] : i \in DOMAIN lines}
  BY <1>1, <1>4
<1> QED BY <1>5, TablesAssumption DEF PackageVersion, PackageLine

\* A missing framework is a package without a CUDA version.
LEMMA MissingType ==
    ASSUME NEW c, c.lines \in Seq(PackageLine), NEW n \in PackageName
    PROVE  /\ Missing(c, n) \in Seq(Package)
           /\ \A i \in DOMAIN Missing(c, n) : Missing(c, n)[i].cuda = <<>>
<1>1. CASE Named(c.lines, n) = {}
  BY <1>1 DEF Missing, PackageVersion
<1>2. CASE Named(c.lines, n) # {}
  <2>1. Default(n, PackageVersion(c.lines, n)) \in Package
    BY <1>2, FirstLineIs, DefaultType
  <2>2. Default(n, PackageVersion(c.lines, n)).cuda = <<>>
    BY DEF Default, Release
  <2> QED BY <2>1, <2>2 DEF Missing
<1> QED BY <1>1, <1>2

\* A name of a part of a concatenation is a name of the whole.
LEMMA ConcatNamed ==
    ASSUME NEW S, NEW s \in Seq(S), NEW t \in Seq(S), NEW n,
           Named(s, n) # {} \/ Named(t, n) # {}
    PROVE  Named(s \o t, n) # {}
<1>1. /\ \A i \in 1 .. Len(s) : (s \o t)[i] = s[i]
      /\ \A i \in 1 .. Len(t) : (s \o t)[Len(s) + i] = t[i]
      /\ Len(s \o t) = Len(s) + Len(t)
      /\ s \o t \in Seq(S)
      /\ Len(s) \in Nat /\ Len(t) \in Nat
  OBVIOUS
<1>2. CASE Named(s, n) # {}
  <2>1. PICK i \in 1 .. Len(s) : s[i].name = n BY <1>2 DEF Named
  <2>2. i \in DOMAIN (s \o t) /\ (s \o t)[i].name = n BY <1>1, <2>1
  <2> QED BY <2>2 DEF Named
<1>3. CASE Named(t, n) # {}
  <2>1. PICK i \in 1 .. Len(t) : t[i].name = n BY <1>3 DEF Named
  <2>2. Len(s) + i \in DOMAIN (s \o t) /\ (s \o t)[Len(s) + i].name = n
    BY <1>1, <2>1
  <2> QED BY <2>2 DEF Named
<1> QED BY <1>2, <1>3

\* The elements of a concatenation are those of its parts, and one that only
\* the first has comes before one that only the second has.
LEMMA ConcatRows ==
    ASSUME NEW S, NEW s \in Seq(S), NEW t \in Seq(S)
    PROVE  /\ s \o t \in Seq(S) /\ Rows(s \o t) = Rows(s) \cup Rows(t)
           /\ \A i, j \in DOMAIN (s \o t) :
                 (s \o t)[i] \notin Rows(t) /\ (s \o t)[j] \notin Rows(s) => i < j
<1>1. /\ s \o t \in Seq(S) /\ DOMAIN s = 1 .. Len(s) /\ DOMAIN t = 1 .. Len(t)
      /\ DOMAIN (s \o t) = 1 .. Len(s) + Len(t)
      /\ Len(s) \in Nat /\ Len(t) \in Nat
      /\ \A i \in 1 .. Len(s) : (s \o t)[i] = s[i]
      /\ \A i \in 1 .. Len(t) : (s \o t)[Len(s) + i] = t[i]
  OBVIOUS
<1>2. \A i \in DOMAIN (s \o t) :
        \/ i <= Len(s) /\ i \in 1 .. Len(s) /\ (s \o t)[i] = s[i]
        \/ i > Len(s) /\ i - Len(s) \in 1 .. Len(t) /\ (s \o t)[i] = t[i - Len(s)]
  OBVIOUS
<1>3. \A i \in DOMAIN (s \o t) :
        \/ i <= Len(s) /\ (s \o t)[i] \in Rows(s)
        \/ i > Len(s) /\ (s \o t)[i] \in Rows(t)
  BY <1>1, <1>2 DEF Rows
<1>4. \A i \in 1 .. Len(s) : i \in DOMAIN (s \o t) /\ s[i] \in Rows(s \o t)
  BY <1>1 DEF Rows
<1>5. \A i \in 1 .. Len(t) : t[i] \in Rows(s \o t)
  <2> TAKE i \in 1 .. Len(t)
  <2>1. Len(s) + i \in DOMAIN (s \o t) /\ (s \o t)[Len(s) + i] = t[i] BY <1>1
  <2> QED BY <2>1 DEF Rows
<1>6. Rows(s \o t) = Rows(s) \cup Rows(t)
  BY <1>1, <1>3, <1>4, <1>5 DEF Rows
<1>7. \A i, j \in DOMAIN (s \o t) :
        (s \o t)[i] \notin Rows(t) /\ (s \o t)[j] \notin Rows(s) => i < j
  <2> TAKE i, j \in DOMAIN (s \o t)
  <2>1. HAVE (s \o t)[i] \notin Rows(t) /\ (s \o t)[j] \notin Rows(s)
  <2>2. i <= Len(s) /\ j > Len(s) BY <1>3, <2>1
  <2>3. i \in Nat /\ j \in Nat BY <1>1
  <2> QED BY <1>1, <2>2, <2>3
<1> QED BY <1>1, <1>6, <1>7

\* It begins with the first element of the first.
LEMMA ConcatFirst ==
    ASSUME NEW S, NEW s \in Seq(S), NEW t \in Seq(S), 1 \in 1 .. Len(s)
    PROVE  /\ (s \o t)[1] = s[1] /\ 1 \in 1 .. Len(s \o t)
           /\ 1 \in DOMAIN (s \o t)
OBVIOUS

\* So it is with four parts.
LEMMA FourParts ==
    ASSUME NEW S, NEW s \in Seq(S), NEW t \in Seq(S), NEW u \in Seq(S), NEW v \in Seq(S)
    PROVE  /\ s \o t \o u \o v \in Seq(S)
           /\ Rows(s \o t \o u \o v) \subseteq Rows(s) \cup Rows(t) \cup Rows(u) \cup Rows(v)
<1> DEFINE x == s \o t
           y == x \o u
<1>1. x \in Seq(S) /\ Rows(x) \subseteq Rows(s) \cup Rows(t) BY ConcatRows
<1> HIDE DEF x
<1>2. y \in Seq(S) /\ Rows(y) \subseteq Rows(x) \cup Rows(u) BY <1>1, ConcatRows
<1> HIDE DEF y
<1>3. y \o v \in Seq(S) /\ Rows(y \o v) \subseteq Rows(y) \cup Rows(v)
  BY <1>2, ConcatRows
<1>4. /\ y \o v \in Seq(S)
      /\ Rows(y \o v) \subseteq Rows(s) \cup Rows(t) \cup Rows(u) \cup Rows(v)
  BY <1>1, <1>2, <1>3
<1> QED BY <1>4 DEF x, y

\* The requirements and their parts are sequences of packages.
LEMMA PartsOfRequirements ==
    ASSUME NEW c, c.lines \in Seq(PackageLine)
    PROVE  /\ Resolved(c) \in Seq(Package)
           /\ DOMAIN Resolved(c) = DOMAIN c.lines
           /\ Missing(c, "torch") \in Seq(Package)
           /\ Missing(c, "torchvision") \in Seq(Package)
           /\ Missing(c, "tensorflow") \in Seq(Package)
           /\ PythonRequirementsForArch(c) \in Seq(Package)
<1>1. DOMAIN Resolved(c) = DOMAIN c.lines BY DEF Resolved
<1>2. Resolved(c) \in Seq(Package)
  <2>1. \A i \in 1 .. Len(c.lines) : PythonPackageForArch(c, c.lines[i]) \in Package
    BY ResolvedType
  <2>2. Resolved(c) \in [1 .. Len(c.lines) -> Package] BY <2>1 DEF Resolved
  <2>3. Len(c.lines) \in Nat OBVIOUS
  <2> QED BY <2>2, <2>3, SeqDef
<1>3. {"torch", "torchvision", "tensorflow"} \subseteq PackageName BY DEF PackageName
<1>4. /\ Missing(c, "torch") \in Seq(Package)
      /\ Missing(c, "torchvision") \in Seq(Package)
      /\ Missing(c, "tensorflow") \in Seq(Package)
  BY <1>3, MissingType
<1>5. PythonRequirementsForArch(c) \in Seq(Package)
  BY <1>2, <1>4, RequirementsAre, FourParts
<1> QED BY <1>1, <1>2, <1>4, <1>5

\* Every package that is asked for is named by a requirement.
LEMMA RequirementsCover ==
    ASSUME NEW c, c.lines \in Seq(PackageLine), NEW l \in DOMAIN c.lines
    PROVE  Named(PythonRequirementsForArch(c), c.lines[l].name) # {}
<1> DEFINE n == c.lines[l].name
           A == Missing(c, "torch")
           B == Missing(c, "torchvision")
           D == Missing(c, "tensorflow")
<1>1. /\ Resolved(c) \in Seq(Package) /\ A \in Seq(Package)
      /\ B \in Seq(Package) /\ D \in Seq(Package)
  BY PartsOfRequirements
<1>2. Named(Resolved(c), n) # {} \/ Named(D, n) # {}
  <2>1. c.lines[l] \in PackageLine OBVIOUS
  <2>2. CASE PythonPackageForArch(c, c.lines[l]).name = n
    <3>1. l \in Named(Resolved(c), n) BY <2>2 DEF Resolved, Named
    <3> QED BY <3>1
  <2>3. CASE n = "tensorflow" /\ Named(Resolved(c), n) = {}
    <3>1. Named(c.lines, n) # {} BY DEF Named
    <3>2. PackageVersion(c.lines, n) # None BY <3>1, FirstLineIs
    <3>3. D = <<Default(n, PackageVersion(c.lines, n))>>
      BY <2>3, <3>2 DEF Missing
    <3>4. 1 \in DOMAIN D /\ D[1].name = n BY <3>3 DEF Default, Release
    <3> QED BY <3>4 DEF Named
  <2> QED BY <2>1, <2>2, <2>3, ResolvedName
<1> HIDE DEF A, B, D, n
<1>3. CASE Named(Resolved(c), n) # {}
  <2>1. Named(Resolved(c) \o A, n) # {} BY <1>1, <1>3, ConcatNamed
  <2>2. Resolved(c) \o A \in Seq(Package) BY <1>1
  <2>3. Named(Resolved(c) \o A \o B, n) # {} BY <1>1, <2>1, <2>2, ConcatNamed
  <2>4. Resolved(c) \o A \o B \in Seq(Package) BY <1>1, <2>2
  <2>5. Named(Resolved(c) \o A \o B \o D, n) # {}
    BY <1>1, <2>3, <2>4, ConcatNamed
  <2> QED BY <2>5, RequirementsAre DEF A, B, D, n
<1>4. CASE Named(D, n) # {}
  <2>1. Resolved(c) \o A \o B \in Seq(Package) BY <1>1
  <2>2. Named(Resolved(c) \o A \o B \o D, n) # {}
    BY <1>1, <1>4, <2>1, ConcatNamed
  <2> QED BY <2>2, RequirementsAre DEF A, B, D, n
<1> QED BY <1>2, <1>3, <1>4

\* A requirement is a line that was resolved, or has no CUDA version.
LEMMA RequirementsFrom ==
    ASSUME NEW c, c.lines \in Seq(PackageLine),
           NEW i \in DOMAIN PythonRequirementsForArch(c)
    PROVE  LET p == PythonRequirementsForArch(c)[i]
           IN  \/ p.cuda = <<>>
               \/ \E l \in DOMAIN c.lines : p = PythonPackageForArch(c, c.lines[l])
<1> DEFINE A == Missing(c, "torch")
           B == Missing(c, "torchvision")
           D == Missing(c, "tensorflow")
           W == PythonRequirementsForArch(c)
<1>1. /\ Resolved(c) \in Seq(Package) /\ A \in Seq(Package)
      /\ B \in Seq(Package) /\ D \in Seq(Package)
  BY PartsOfRequirements
<1>2. W = Resolved(c) \o A \o B \o D BY RequirementsAre
<1>3. /\ \A j \in DOMAIN A : A[j].cuda = <<>>
      /\ \A j \in DOMAIN B : B[j].cuda = <<>>
      /\ \A j \in DOMAIN D : D[j].cuda = <<>>
  <2>1. {"torch", "torchvision", "tensorflow"} \subseteq PackageName
    BY DEF PackageName
  <2> QED BY <2>1, MissingType
<1>4. \A j \in DOMAIN Resolved(c) :
        j \in DOMAIN c.lines /\ Resolved(c)[j] = PythonPackageForArch(c, c.lines[j])
  BY DEF Resolved
<1>5. W[i] \in Rows(W) BY DEF Rows
<1> HIDE DEF A, B, D, W
<1>6. W[i] \in Rows(Resolved(c)) \cup Rows(A) \cup Rows(B) \cup Rows(D)
  <2>1. Rows(Resolved(c) \o A \o B \o D)
           \subseteq Rows(Resolved(c)) \cup Rows(A) \cup Rows(B) \cup Rows(D)
    BY <1>1, FourParts
  <2> QED BY <1>2, <1>5, <2>1
<1>7. \/ W[i].cuda = <<>>
      \/ \E l \in DOMAIN c.lines : W[i] = PythonPackageForArch(c, c.lines[l])
  BY <1>3, <1>4, <1>6 DEF Rows
<1> QED BY <1>7 DEF W

\* For GPUs what names a CUDA version is resolved from the table.
LEMMA ResolvedFramework ==
    ASSUME NEW c, c.gpu, NEW line \in PackageLine
    PROVE  LET p == PythonPackageForArch(c, line)
           IN  \/ p.cuda = <<>>
               \/ line.name = "torch" /\ p = TorchGPUPackage(c, line)
               \/ line.name = "torchvision" /\ p = TorchvisionGPUPackage(c, line)
<1>1. CASE line.spec # "==" \/ line.index
  BY <1>1 DEF PythonPackageForArch, Default, Release
<1>2. CASE ~(line.spec # "==" \/ line.index) /\ line.name \in {"torch", "torchvision"}
  BY <1>2 DEF PythonPackageForArch
<1>3. CASE /\ ~(line.spec # "==" \/ line.index)
           /\ line.name \notin {"torch", "torchvision"}
  BY <1>3 DEF PythonPackageForArch, TFPackage, Default, Release
<1> QED BY <1>1, <1>2, <1>3

\* Two CUDA versions of the table of which neither is later are the same.
LEMMA SameCUDA ==
    \A v, w \in [1 .. 2 -> Nat] : ~Greater(v, w) /\ ~Greater(w, v) => v = w
<1> TAKE v, w \in [1 .. 2 -> Nat]
<1> SUFFICES ASSUME ~Greater(v, w), ~Greater(w, v) PROVE v = w OBVIOUS
<1>1. v \in Version /\ w \in Version BY FixedLength
<1>2. Equal(v, w) BY <1>1, VersionOrder
<1>3. v[1] = w[1] /\ v[2] = w[2] BY <1>1, <1>2, EqualIs, FixedLength
<1> QED BY <1>3

\* The PyTorch and the torchvision of a release are for one CUDA version.
LEMMA OneCUDA ==
    ASSUME NEW c, c.lines \in Seq(PackageLine), c.gpu,
           NEW i \in DOMAIN PythonRequirementsForArch(c),
           NEW j \in DOMAIN PythonRequirementsForArch(c),
           PythonRequirementsForArch(c)[i].name = "torch",
           PythonRequirementsForArch(c)[j].name = "torchvision",
           NEW r \in Rows(TorchMatrix),
           r.torch = PythonRequirementsForArch(c)[i].ver,
           r.vision = PythonRequirementsForArch(c)[j].ver,
           r.cuda = PythonRequirementsForArch(c)[i].cuda
    PROVE  /\ PythonRequirementsForArch(c)[j].cuda
                 \in {PythonRequirementsForArch(c)[i].cuda, <<>>}
           /\ ~Greater(PythonRequirementsForArch(c)[i].cuda, c.cuda)
<1> DEFINE torch == PythonRequirementsForArch(c)[i]
           vision == PythonRequirementsForArch(c)[j]
<1>1. /\ torch.name = "torch" /\ vision.name = "torchvision"
      /\ r.torch = torch.ver /\ r.vision = vision.ver /\ r.cuda = torch.cuda
  OBVIOUS
<1>2. /\ \/ torch.cuda = <<>>
         \/ \E l \in DOMAIN c.lines : torch = PythonPackageForArch(c, c.lines[l])
      /\ \/ vision.cuda = <<>>
         \/ \E l \in DOMAIN c.lines : vision = PythonPackageForArch(c, c.lines[l])
  BY RequirementsFrom
<1>3. \A l \in DOMAIN c.lines : c.lines[l] \in PackageLine OBVIOUS
<1> SUFFICES vision.cuda \in {torch.cuda, <<>>} /\ ~Greater(torch.cuda, c.cuda)
  OBVIOUS
<1> HIDE DEF torch, vision
<1>4. r \in TorchRow BY MatrixType
<1>5. r.cuda # <<>>
  <2>1. \A v \in [1 .. 2 -> Nat] : v # <<>>
    <3>1. Len(<<>>) = 0 OBVIOUS
    <3> QED BY <3>1, FixedLength
  <2>2. <<>> \in Version BY DEF Version
  <2> QED BY <1>4, <2>1, <2>2, TablesAssumption DEF TorchRow
<1>6. PICK x \in PackageLine : \E row \in TorchFits(c, x) :
         /\ torch.ver = row.torch /\ torch.cuda = row.cuda
         /\ \A q \in TorchFits(c, x) : ~Greater(q.cuda, row.cuda)
  <2>1. PICK l \in DOMAIN c.lines : torch = PythonPackageForArch(c, c.lines[l])
    BY <1>1, <1>2, <1>5
  <2>2. torch = TorchGPUPackage(c, c.lines[l])
    <3>1. TorchvisionGPUPackage(c, c.lines[l]).name = "torchvision"
      BY <1>3, TorchvisionGPUPackageIs
    <3> QED BY <1>1, <1>3, <1>5, <2>1, <3>1, ResolvedFramework
  <2> QED BY <1>1, <1>3, <1>5, <2>2, TorchGPUPackageIs
<1>7. PICK row \in TorchFits(c, x) :
         /\ torch.ver = row.torch /\ torch.cuda = row.cuda
         /\ \A q \in TorchFits(c, x) : ~Greater(q.cuda, row.cuda)
  BY <1>6
<1>8. ~Greater(torch.cuda, c.cuda) BY <1>7 DEF TorchFits
<1>9. CASE vision.cuda # <<>>
  <2>1. PICK l \in DOMAIN c.lines : vision = PythonPackageForArch(c, c.lines[l])
    BY <1>2, <1>9
  <2> DEFINE y == c.lines[l]
  <2>2. y \in PackageLine BY <1>3
  <2>3. vision = TorchvisionGPUPackage(c, y)
    <3>1. TorchGPUPackage(c, y).name = "torch" BY <2>2, TorchGPUPackageIs
    <3> QED BY <1>1, <1>9, <2>1, <2>2, <3>1, ResolvedFramework
  <2> HIDE DEF y
  <2>4. PICK v \in VisionFits(c, y) :
          /\ vision.ver = v.vision /\ vision.cuda = v.cuda
          /\ \A q \in VisionFits(c, y) : ~Greater(q.cuda, v.cuda)
    BY <1>9, <2>2, <2>3, TorchvisionGPUPackageIs
  <2>5. r \in VisionFits(c, y)
    BY <1>1, <1>7, <1>8, <2>4 DEF VisionFits, TorchFits
  <2>6. v.torch = r.torch
    <3>1. v \in Rows(TorchMatrix) BY DEF VisionFits
    <3>2. v \in Rows(TorchRows) /\ r \in Rows(TorchRows) BY <3>1, MatrixType
    <3>3. v.vision = r.vision BY <1>1, <2>4
    <3> QED BY <3>2, <3>3, MatrixType
  <2>7. v \in TorchFits(c, x)
    BY <1>1, <1>7, <2>6 DEF TorchFits, VisionFits
  <2>8. ~Greater(r.cuda, v.cuda) /\ ~Greater(v.cuda, r.cuda)
    BY <1>1, <1>7, <2>4, <2>5, <2>7
  <2>9. r.cuda \in [1 .. 2 -> Nat] /\ v.cuda \in [1 .. 2 -> Nat]
    <3>1. v \in TorchRow /\ v.cuda # None BY MatrixType DEF VisionFits
    <3>2. r.cuda # None BY <1>1, <1>7 DEF TorchFits
    <3> QED BY <1>4, <3>1, <3>2 DEF TorchRow
  <2>10. v.cuda = r.cuda BY <2>8, <2>9, SameCUDA
  <2> QED BY <1>1, <1>8, <2>4, <2>10
<1> QED BY <1>8, <1>9

-----------------------------------------------------------------------------
(* The versions of CUDA and cuDNN                                          *)

\* The CUDA version that the packages choose is a version, or there is none.
LEMMA ChosenType ==
    ASSUME NEW c \in CogYaml
    PROVE  /\ ChosenCUDA(c) \in Version \cup {None}
           /\ \A cuda : ChosenCuDNN(c, cuda) \in Nat \cup {None}
<1>1. c.lines \in Seq(PackageLine) BY DEF CogYaml
<1>2. \A r \in Rows(TFMatrix) : r.cuda \in Version /\ r.cudnn \in Nat
  <2> SUFFICES ASSUME NEW i \in DOMAIN TFRows
               PROVE  TFMatrix[i].cuda \in Version /\ TFMatrix[i].cudnn \in Nat
    BY DEF Rows, TFMatrix
  <2>1. /\ TFRows[i] \in [tf : Version, cuda : Version, cudnn : [1 .. 2 -> Nat]]
        /\ TFRows[i].cuda \in Version /\ TFRows[i].cudnn \in [1 .. 2 -> Nat]
    <3> DEFINE Row == [tf : Version, cuda : Version, cudnn : [1 .. 2 -> Nat]]
    <3>1. TFRows \in Seq(Row) BY TablesAssumption
    <3> HIDE DEF Row
    <3>2. TFRows[i] \in Row BY <3>1
    <3> QED BY <3>2 DEF Row
  <2>2. StripPatch(TFRows[i].cuda) \in Version
    <3>1. Num(TFRows[i].cuda, 1) \in Nat /\ Num(TFRows[i].cuda, 2) \in Nat
      BY <2>1, NumType
    <3> QED BY <3>1 DEF StripPatch, Version
  <2>3. TFRows[i].cudnn[1] \in Nat BY <2>1
  <2>4. TFMatrix[i].cuda = StripPatch(TFRows[i].cuda) /\ TFMatrix[i].cudnn = TFRows[i].cudnn[1]
    BY <2>1 DEF TFMatrix
  <2> QED BY <2>2, <2>3, <2>4
<1>3. \A v : CudaFromTF(v).cuda \in Version \cup {None} /\ CudaFromTF(v).cudnn \in Nat \cup {None}
  BY <1>2 DEF CudaFromTF
<1>4. \A v, m : /\ CudasFromTorch(v, m) \subseteq Version
                /\ IsFiniteSet(CudasFromTorch(v, m))
  <2> TAKE v, m
  <2>1. CudasFromTorch(v, m) \subseteq {r.cuda : r \in {s \in Rows(TorchMatrix) : s.cuda # None}}
    BY DEF CudasFromTorch
  <2>2. \A r \in Rows(TorchMatrix) : r.cuda # None =>
          r.cuda \in Version /\ r.cuda \in {TorchRows[k].cuda : k \in DOMAIN TorchRows}
    <3>1. \A r \in Rows(TorchMatrix) :
            r \in TorchRow /\ \E k \in DOMAIN TorchRows : r = TorchRows[k]
      BY MatrixType DEF Rows
    <3> QED BY <3>1, FixedLength DEF TorchRow
  <2> QED BY <2>1, <2>2, TorchRowsFinite, FS_Subset
<1>5. ChosenCUDA(c) \in Version \cup {None}
  <2>1. <<11, 8>> \in Version BY DEF Version
  <2>2. \A v, m : CudasFromTorch(v, m) # {} => Latest(CudasFromTorch(v, m)) \in Version
    BY <1>4, LatestIs
  <2> QED BY <1>3, <2>1, <2>2 DEF ChosenCUDA
<1>6. \A cuda : LatestCuDNNForCUDA(cuda) \in Nat \cup {None}
  <2> TAKE cuda
  <2>1. CASE \E i \in Images : Matches(cuda, i.cuda) BY <2>1, LatestCuDNNIs
  <2>2. CASE ~\E i \in Images : Matches(cuda, i.cuda) BY <2>2 DEF LatestCuDNNForCUDA
  <2> QED BY <2>1, <2>2
<1>7. \A cuda : ChosenCuDNN(c, cuda) \in Nat \cup {None}
  BY <1>3, <1>6 DEF ChosenCuDNN
<1> QED BY <1>5, <1>7

\* Packages that name no TensorFlow and either no PyTorch or a release for a
\* CUDA version with an image choose a CUDA version with an image.
LEMMA ChosenHasImage ==
    ASSUME NEW c \in CogYaml,
           ~HasVersion(c.lines, "tensorflow"),
           HasVersion(c.lines, "torch") =>
             \E r \in Rows(TorchRows), i \in Images :
                /\ Matches(FirstLine(c.lines, "torch").ver, r.torch)
                /\ r.cuda # None /\ Matches(r.cuda, i.cuda)
    PROVE  /\ ChosenCUDA(c) \in Version
           /\ \E i \in Images : Matches(ChosenCUDA(c), i.cuda)
<1>1. CASE ~HasVersion(c.lines, "torch")
  <2>1. ChosenCUDA(c) = <<11, 8>> BY <1>1 DEF ChosenCUDA
  <2>2. PICK i \in Images : i.cuda[1] = 11 /\ i.cuda[2] = 8 BY TablesAssumption
  <2>3. i.cuda \in [1 .. 3 -> Nat] BY TablesAssumption
  <2>4. Num(i.cuda, 1) = 11 /\ Num(i.cuda, 2) = 8 BY <2>2, <2>3, FixedLength
  <2>5. Num(<<11, 8>>, 1) = 11 /\ Num(<<11, 8>>, 2) = 8 /\ Len(<<11, 8>>) = 2 BY DEF Num
  <2>6. <<11, 8>> \in Version BY DEF Version
  <2> QED BY <2>1, <2>4, <2>5, <2>6 DEF Matches
<1>2. CASE HasVersion(c.lines, "torch")
  <2> DEFINE line == FirstLine(c.lines, "torch")
             cudas == CudasFromTorch(line.ver, line.cu)
             all == {r.cuda : r \in {s \in Rows(TorchMatrix) :
                                       s.cuda # None /\ Matches(line.ver, s.torch)}}
  <2>1. PICK r \in Rows(TorchRows), i \in Images :
           Matches(line.ver, r.torch) /\ r.cuda # None /\ Matches(r.cuda, i.cuda)
    BY <1>2
  <2>2. r \in Rows(TorchMatrix) BY <2>1 DEF Rows, TorchMatrix
  <2>3. cudas = IF line.cu \in all THEN {line.cu} ELSE all
    BY DEF CudasFromTorch
  <2>4. r.cuda \in all BY <2>1, <2>2
  <2>5. \A v \in all : \E q \in Images : Matches(v, q.cuda) BY MatrixType
  <2>6. all \subseteq Version /\ IsFiniteSet(all)
    <3>1. \A s \in Rows(TorchMatrix) : s.cuda # None =>
            s.cuda \in Version /\ s.cuda \in {TorchRows[k].cuda : k \in DOMAIN TorchRows}
      <4>1. \A s \in Rows(TorchMatrix) :
              s \in TorchRow /\ \E k \in DOMAIN TorchRows : s = TorchRows[k]
        BY MatrixType DEF Rows
      <4> QED BY <4>1, FixedLength DEF TorchRow
    <3> QED BY <3>1, TorchRowsFinite, FS_Subset
  <2> HIDE DEF all
  <2>7. cudas # {} /\ cudas \subseteq all BY <2>3, <2>4
  <2>8. Latest(cudas) \in cudas BY <2>6, <2>7, FS_Subset, LatestIs
  <2>9. ChosenCUDA(c) = Latest(cudas) BY <1>2, <2>7 DEF ChosenCUDA
  <2> QED BY <2>5, <2>6, <2>7, <2>8, <2>9
<1> QED BY <1>1, <1>2

-----------------------------------------------------------------------------
(* Base images of Cog                                                      *)

ConfigurationType ==
    [cuda : [1 .. 2 -> Nat] \cup {None}, python : [1 .. 2 -> Nat],
     torch : [1 .. 3 -> Nat] \cup {None}]

\* What a configuration of a base image is; its PyTorch is that of a row, and
\* its CUDA version is one that is not refused and that has an image.
LEMMA BaseImagesAre ==
    \A c \in BaseImageConfigurations :
        /\ c \in ConfigurationType
        /\ c.torch # None => \E k \in DOMAIN TorchMatrix : c.torch = TorchMatrix[k].torch
        /\ c.cuda # None =>
              c.cuda[1] >= 11 /\ \E i \in Images : Matches(c.cuda, i.cuda)
<1> DEFINE allPythons == UNION {r.pythons : r \in Rows(TorchMatrix)}
           torch == {Configuration(r.cuda, p, r.torch) : r \in Rows(TorchMatrix), p \in allPythons}
           listed == {c \in torch :
                        /\ ~Greater(MinPython, c.python)
                        /\ c.cuda # None => ~Greater(MinCUDA, c.cuda)
                        /\ \E r \in Rows(TorchMatrix) :
                             /\ r.torch = c.torch /\ r.cuda = c.cuda
                             /\ c.python \in r.pythons /\ SinceMinTorch(r)}
           gpu == {c \in listed : c.cuda # None}
           pythons == {c.python : c \in gpu}
<1>1. BaseImageConfigurations =
         listed \cup {Configuration(cuda, p, None) : cuda \in {c.cuda : c \in gpu}, p \in pythons}
                \cup {Configuration(None, p, None) : p \in pythons}
  BY DEF BaseImageConfigurations
<1>2. \A p \in allPythons : p \in [1 .. 2 -> Nat]
  BY MatrixType DEF TorchRow
<1>3. \A r \in Rows(TorchMatrix) :
        /\ r.cuda \in [1 .. 2 -> Nat] \cup {None} /\ r.torch \in [1 .. 3 -> Nat]
        /\ \E k \in DOMAIN TorchMatrix : r.torch = TorchMatrix[k].torch
        /\ r.cuda # None => \E i \in Images : Matches(r.cuda, i.cuda)
  <2>1. \A r \in Rows(TorchMatrix) : r \in TorchRow BY MatrixType
  <2> QED BY <2>1, MatrixType DEF Rows, TorchRow
<1>4. \A c \in listed :
        /\ c \in ConfigurationType
        /\ \E k \in DOMAIN TorchMatrix : c.torch = TorchMatrix[k].torch
        /\ c.cuda # None =>
              ~Greater(MinCUDA, c.cuda) /\ \E i \in Images : Matches(c.cuda, i.cuda)
  <2> HIDE DEF allPythons
  <2> SUFFICES ASSUME NEW c \in listed
               PROVE  /\ c \in ConfigurationType
                      /\ \E k \in DOMAIN TorchMatrix : c.torch = TorchMatrix[k].torch
                      /\ c.cuda # None =>
                            ~Greater(MinCUDA, c.cuda) /\ \E i \in Images : Matches(c.cuda, i.cuda)
    OBVIOUS
  <2>1. PICK r \in Rows(TorchMatrix), p \in allPythons : c = Configuration(r.cuda, p, r.torch)
    OBVIOUS
  <2>2. c.cuda = r.cuda /\ c.torch = r.torch /\ c.python = p BY <2>1 DEF Configuration
  <2>3. c \in ConfigurationType
    BY <1>2, <1>3, <2>1 DEF Configuration, ConfigurationType
  <2>4. c.cuda # None => ~Greater(MinCUDA, c.cuda) OBVIOUS
  <2> QED BY <1>3, <2>2, <2>3, <2>4
<1> HIDE DEF listed
<1>5. \A c \in gpu :
        /\ c.cuda \in [1 .. 2 -> Nat] /\ c.python \in [1 .. 2 -> Nat]
        /\ c.cuda[1] >= 11 /\ \E i \in Images : Matches(c.cuda, i.cuda)
  <2> TAKE c \in gpu
  <2>1. /\ c.cuda \in [1 .. 2 -> Nat] /\ c.python \in [1 .. 2 -> Nat]
        /\ ~Greater(MinCUDA, c.cuda) /\ \E i \in Images : Matches(c.cuda, i.cuda)
    BY <1>4 DEF ConfigurationType
  <2>2. MinCUDA \in Version /\ ~Greater(<<11>>, MinCUDA) BY VersionsAssumption
  <2>3. <<11>> \in Version /\ c.cuda \in Version BY <2>1, FixedLength DEF Version
  <2>4. ~Greater(<<11>>, c.cuda) BY <2>1, <2>2, <2>3, VersionOrder
  <2>5. Num(<<11>>, 1) = 11 BY DEF Num
  <2>6. Num(c.cuda, 1) = c.cuda[1] /\ c.cuda[1] \in Nat BY <2>1, FixedLength
  <2>7. ~(11 > c.cuda[1]) BY <2>3, <2>4, <2>5, <2>6, GreaterIs
  <2> QED BY <2>1, <2>6, <2>7
<1> HIDE DEF gpu
<1>6. \A c \in listed : c.cuda # None => c \in gpu BY DEF gpu
<1>7. \A c \in {Configuration(cuda, p, None) : cuda \in {c.cuda : c \in gpu}, p \in pythons}
              \cup {Configuration(None, p, None) : p \in pythons} :
        /\ c \in ConfigurationType /\ c.torch = None
        /\ c.cuda = None \/ \E d \in gpu : c.cuda = d.cuda
  BY <1>5 DEF Configuration, ConfigurationType
<1> QED BY <1>1, <1>4, <1>5, <1>6, <1>7

\* The versions of a configuration are compatible with themselves.
LEMMA CompatibleItself ==
    /\ \A v : IsVersionCompatible(v, v)
    /\ \A c \in BaseImageConfigurations : c \in Compatible(c.cuda, c.python, c.torch)
BY DEF IsVersionCompatible, Matches, Compatible

\* The releases of PyTorch that are compatible.
Torches(cuda, python, torch) ==
    {c.torch : c \in Compatible(cuda, python, torch)} \ {None}

\* They are finitely many versions of three numbers.
LEMMA TorchesType ==
    \A cuda, python, torch :
        /\ Torches(cuda, python, torch) \subseteq [1 .. 3 -> Nat]
        /\ Torches(cuda, python, torch) \subseteq Version
        /\ IsFiniteSet(Torches(cuda, python, torch))
<1> TAKE cuda, python, torch
<1> DEFINE ts == Torches(cuda, python, torch)
           rs == {TorchRows[k].torch : k \in DOMAIN TorchRows}
<1>1. \A c \in Compatible(cuda, python, torch) :
         c.torch # None => c.torch \in [1 .. 3 -> Nat] /\ c.torch \in rs
  <2> TAKE c \in Compatible(cuda, python, torch)
  <2>1. c \in BaseImageConfigurations BY DEF Compatible
  <2>2. c \in ConfigurationType
        /\ (c.torch # None => \E k \in DOMAIN TorchMatrix : c.torch = TorchMatrix[k].torch)
    BY <2>1, BaseImagesAre
  <2>3. \A k \in DOMAIN TorchMatrix : TorchMatrix[k].torch \in rs
    BY MatrixType
  <2> QED BY <2>2, <2>3 DEF ConfigurationType
<1>2. ts \subseteq [1 .. 3 -> Nat] /\ ts \subseteq rs
  BY <1>1 DEF Torches
<1> QED BY <1>2, TorchRowsFinite, FS_Subset, FixedLength

\* The normalised versions: the PyTorch, if any, is that of a compatible
\* configuration, the latest of those, and there is none when there is none.
LEMMA Normalised ==
    \A cuda, python, torch :
        LET n == BaseImageComponentNormalisation(cuda, python, torch)
        IN  /\ n = Configuration(cuda, python, n.torch)
            /\ n.cuda = cuda /\ n.python = python
            /\ n.torch \in [1 .. 3 -> Nat] \cup {None}
            /\ n.torch # None =>
                  /\ \E c \in Compatible(cuda, python, torch) : c.torch = n.torch
                  /\ n.torch \in Version
            /\ n.torch = None => Torches(cuda, python, torch) = {}
<1> TAKE cuda, python, torch
<1> DEFINE ts == Torches(cuda, python, torch)
           n == BaseImageComponentNormalisation(cuda, python, torch)
<1>1. n = Configuration(cuda, python, IF ts = {} THEN None ELSE Latest(ts))
  BY DEF BaseImageComponentNormalisation, Torches
<1>2. n.cuda = cuda /\ n.python = python /\ n.torch = IF ts = {} THEN None ELSE Latest(ts)
  BY <1>1 DEF Configuration
<1> HIDE DEF n
<1>3. ts \subseteq [1 .. 3 -> Nat] /\ ts \subseteq Version /\ IsFiniteSet(ts)
  BY TorchesType
<1>4. None \notin ts BY DEF Torches
<1>5. CASE ts = {} BY <1>1, <1>2, <1>5 DEF n
<1>6. CASE ts # {}
  <2>1. n.torch \in ts BY <1>2, <1>3, <1>6, LatestIs
  <2>2. \E c \in Compatible(cuda, python, torch) : c.torch = n.torch
    BY <2>1 DEF Torches
  <2> QED BY <1>1, <1>2, <1>3, <1>4, <2>1, <2>2 DEF n
<1> QED BY <1>5, <1>6

\* A configuration that exists is valid when it is normalised.
LEMMA RequestIsValid ==
    ASSUME NEW c \in BaseImageConfigurations
    PROVE  Valid(BaseImageComponentNormalisation(c.cuda, c.python, c.torch))
<1> DEFINE n == BaseImageComponentNormalisation(c.cuda, c.python, c.torch)
<1>1. /\ n.cuda = c.cuda /\ n.python = c.python
      /\ n.torch # None =>
            \E d \in Compatible(c.cuda, c.python, c.torch) : d.torch = n.torch
      /\ n.torch = None => Torches(c.cuda, c.python, c.torch) = {}
  BY Normalised
<1> HIDE DEF n
<1>2. CASE n.torch # None
  <2>1. PICK d \in Compatible(c.cuda, c.python, c.torch) : d.torch = n.torch
    BY <1>1, <1>2
  <2>2. d \in Compatible(n.cuda, n.python, n.torch)
    BY <1>1, <2>1, CompatibleItself DEF Compatible
  <2> QED BY <2>2 DEF Valid, n
<1>3. CASE n.torch = None
  <2>1. c \in Compatible(c.cuda, c.python, c.torch) BY CompatibleItself
  <2>2. c.torch = None BY <1>1, <1>3, <2>1 DEF Torches
  <2> QED BY <1>1, <1>3, <2>1, <2>2 DEF Valid, n
<1> QED BY <1>2, <1>3

\* The packages of a base image are PyTorch and torchvision, if any, of some
\* version.
LEMMA PythonPackagesAre ==
    ASSUME NEW torch \in [1 .. 3 -> Nat] \cup {None},
           torch # None => \E k \in DOMAIN TorchMatrix : torch = TorchMatrix[k].torch
    PROVE  /\ PythonPackages(torch) \in Seq(PackageLine)
           /\ \A i \in DOMAIN PythonPackages(torch) :
                 /\ PythonPackages(torch)[i].name \in {"torch", "torchvision"}
                 /\ PythonPackages(torch)[i].ver # <<>>
<1>1. CASE torch = None BY <1>1 DEF PythonPackages
<1>2. CASE torch # None
  <2> DEFINE S == {i \in DOMAIN TorchMatrix : Matches(torch, TorchMatrix[i].torch)}
             Is(i) == /\ Matches(torch, TorchMatrix[i].torch)
                      /\ \A j \in DOMAIN TorchMatrix :
                            j < i => ~Matches(torch, TorchMatrix[j].torch)
             k == CHOOSE i \in DOMAIN TorchMatrix : Is(i)
             Pin(name, ver) == [name |-> name, spec |-> "==", ver |-> ver,
                                cu |-> None, index |-> FALSE]
  <2>1. S # {} /\ S \subseteq Nat /\ IsFiniteSet(S)
    <3>1. S # {} BY <1>2 DEF Matches
    <3> QED BY <3>1, MatrixType, FS_Subset
  <2>2. \E i \in DOMAIN TorchMatrix : Is(i)
    <3>1. PICK m \in S : \A x \in S : m <= x
      <4> HIDE DEF S
      <4> QED BY <2>1, Extremes
    <3>2. m \in Nat /\ \A x \in S : x \in Nat BY <2>1
    <3>3. \A j \in S : ~(j < m)
      <4> TAKE j \in S
      <4>1. j \in Nat /\ m \in Nat /\ m <= j BY <3>1, <3>2
      <4> QED BY <4>1
    <3> QED BY <3>3
  <2>3. k \in DOMAIN TorchMatrix BY <2>2
  <2>4. PythonPackages(torch) = <<Pin("torch", torch), Pin("torchvision", TorchMatrix[k].vision)>>
    BY <1>2 DEF PythonPackages
  <2> HIDE DEF k
  <2>5. /\ torch \in Version /\ TorchMatrix[k].vision \in Version
        /\ torch # <<>> /\ TorchMatrix[k].vision # <<>>
    <3>1. TorchMatrix[k] \in TorchRow BY <2>3, MatrixType
    <3> QED BY <1>2, <3>1, FixedLength DEF TorchRow
  <2>6. /\ Pin("torch", torch) \in PackageLine
        /\ Pin("torchvision", TorchMatrix[k].vision) \in PackageLine
    BY <2>5 DEF PackageLine, PackageName
  <2>7. Pin("torch", torch).name = "torch"
        /\ Pin("torchvision", TorchMatrix[k].vision).name = "torchvision"
        /\ Pin("torch", torch).ver # <<>>
        /\ Pin("torchvision", TorchMatrix[k].vision).ver # <<>>
    BY <2>5
  <2> HIDE DEF Pin
  <2> QED BY <2>4, <2>6, <2>7
<1> QED BY <1>1, <1>2

\* The configuration of a base image is one, its CUDA version is not refused
\* and has an image, and it names no TensorFlow and no PyTorch without version.
LEMMA MadeIs ==
    ASSUME NEW c \in BaseImageConfigurations
    PROVE  /\ MadeFor(c) \in CogYaml
           /\ MadeFor(c).predict /\ MadeFor(c).file = None /\ MadeFor(c).lines = <<>>
           /\ MadeFor(c).env = <<>> /\ ~MadeFor(c).newline /\ MadeFor(c).cudnn = None
           /\ MadeFor(c).packages \in Seq(PackageLine)
           /\ ~HasVersion(MadeFor(c).packages, "tensorflow")
           /\ PackageVersion(MadeFor(c).packages, "torch") # <<>>
           /\ MadeFor(c).gpu <=> MadeFor(c).cuda # None
           /\ MadeFor(c).gpu => /\ Len(MadeFor(c).cuda) = 2 /\ MadeFor(c).cuda[1] >= 11
                          /\ MadeFor(c).cuda[1] \in Nat
                          /\ \E i \in Images : Matches(MadeFor(c).cuda, i.cuda)
<1> DEFINE n == BaseImageComponentNormalisation(c.cuda, c.python, c.torch)
<1>1. /\ n.cuda = c.cuda /\ n.python = c.python
      /\ n.torch \in [1 .. 3 -> Nat] \cup {None}
      /\ n.torch # None =>
            \E d \in Compatible(c.cuda, c.python, c.torch) : d.torch = n.torch
  BY Normalised
<1>2. MadeFor(c) = MakeConfig(n) BY DEF MadeFor
<1> HIDE DEF n
<1>3. n.torch # None => \E k \in DOMAIN TorchMatrix : n.torch = TorchMatrix[k].torch
  BY <1>1, BaseImagesAre DEF Compatible
<1>4. /\ PythonPackages(n.torch) \in Seq(PackageLine)
      /\ \A i \in DOMAIN PythonPackages(n.torch) :
            /\ PythonPackages(n.torch)[i].name \in {"torch", "torchvision"}
            /\ PythonPackages(n.torch)[i].ver # <<>>
  BY <1>1, <1>3, PythonPackagesAre
<1>5. ~HasVersion(PythonPackages(n.torch), "tensorflow")
  BY <1>4 DEF HasVersion, PackageVersion, Named
<1>10. PackageVersion(PythonPackages(n.torch), "torch") # <<>>
  <2> DEFINE lines == PythonPackages(n.torch)
  <2>1. CASE Named(lines, "torch") = {}
    <3>1. <<>> \in Version BY DEF Version
    <3>2. None # <<>> BY <3>1, TablesAssumption
    <3> QED BY <2>1, <3>2 DEF PackageVersion
  <2>2. CASE Named(lines, "torch") # {}
    <3>1. /\ FirstLine(lines, "torch") \in {lines[i] : i \in DOMAIN lines}
          /\ PackageVersion(lines, "torch") = FirstLine(lines, "torch").ver
      BY <1>4, <2>2, FirstLineIs
    <3> QED BY <1>4, <3>1
  <2> QED BY <2>1, <2>2
<1>6. /\ n.cuda \in [1 .. 2 -> Nat] \cup {None} /\ n.python \in [1 .. 2 -> Nat]
      /\ n.cuda # None => /\ n.cuda[1] >= 11
                          /\ \E i \in Images : Matches(n.cuda, i.cuda)
  BY <1>1, BaseImagesAre DEF ConfigurationType
<1>7. /\ n.cuda \in Version \cup {None} /\ n.python \in Version
      /\ n.cuda # None => Len(n.cuda) = 2 /\ n.cuda[1] \in Nat
  BY <1>6, FixedLength
<1>8. /\ MadeFor(c).predict /\ MadeFor(c).file = None /\ MadeFor(c).lines = <<>>
      /\ MadeFor(c).env = <<>> /\ ~MadeFor(c).newline /\ MadeFor(c).cudnn = None
      /\ MadeFor(c).packages = PythonPackages(n.torch)
      /\ MadeFor(c).cuda = n.cuda /\ MadeFor(c).gpu = (n.cuda # None)
  BY <1>2 DEF MakeConfig
<1>9. MadeFor(c) \in CogYaml
  BY <1>2, <1>4, <1>7, VersionsAssumption DEF MakeConfig, CogYaml
<1> QED BY <1>4, <1>5, <1>6, <1>7, <1>8, <1>9, <1>10

\* With the two numbers of a version it is compatible with the same versions.
LEMMA StripMatches ==
    /\ \A v \in Version : StripPatch(v) \in Version /\ Len(StripPatch(v)) = 2
                          /\ StripPatch(StripPatch(v)) = StripPatch(v)
                          /\ Matches(StripPatch(v), v)
    /\ \A v, w \in Version : Matches(v, w) => StripPatch(v) = StripPatch(w)
    /\ \A v, w \in [1 .. 3 -> Nat] : Matches(v, w) => v = w
<1>1. ASSUME NEW v \in Version
      PROVE  StripPatch(v) \in Version /\ Len(StripPatch(v)) = 2
             /\ StripPatch(StripPatch(v)) = StripPatch(v)
             /\ Matches(StripPatch(v), v)
  <2>1. Num(v, 1) \in Nat /\ Num(v, 2) \in Nat BY NumType
  <2> DEFINE s == StripPatch(v)
  <2>2. s \in Version /\ Len(s) = 2 /\ s[1] = Num(v, 1) /\ s[2] = Num(v, 2)
    BY <2>1 DEF StripPatch, Version
  <2> HIDE DEF s
  <2>3. Num(s, 1) = Num(v, 1) /\ Num(s, 2) = Num(v, 2)
    BY <2>2 DEF Num
  <2>4. StripPatch(s) = s BY <2>3 DEF StripPatch, s
  <2>5. Matches(s, v) BY <2>2, <2>3 DEF Matches
  <2> QED BY <2>2, <2>4, <2>5 DEF s
<1>2. \A v, w \in Version : Matches(v, w) => StripPatch(v) = StripPatch(w)
  BY DEF Matches, StripPatch
<1>3. \A v, w \in [1 .. 3 -> Nat] : Matches(v, w) => v = w
  <2> TAKE v, w \in [1 .. 3 -> Nat]
  <2>1. /\ Num(v, 1) = v[1] /\ Num(v, 2) = v[2] /\ Len(v) = 3
        /\ Num(w, 1) = w[1] /\ Num(w, 2) = w[2] /\ Len(w) = 3
    BY FixedLength
  <2>2. Matches(v, w) => \A i \in 1 .. 3 : v[i] = w[i]
    BY <2>1 DEF Matches
  <2> QED BY <2>2
<1> QED BY <1>1, <1>2, <1>3

\* The PyTorch of a configuration that was normalised stays what it is.
LEMMA NormalisedTorch ==
    ASSUME NEW cuda, NEW python, NEW torch \in [1 .. 3 -> Nat] \cup {None}
    PROVE  LET n == BaseImageComponentNormalisation(cuda, python, torch)
           IN  n.torch # None => n.torch = torch
<1> DEFINE n == BaseImageComponentNormalisation(cuda, python, torch)
<1> SUFFICES ASSUME n.torch # None PROVE n.torch = torch OBVIOUS
<1>1. PICK c \in Compatible(cuda, python, torch) : c.torch = n.torch
  BY Normalised
<1>2. n.torch \in [1 .. 3 -> Nat] BY Normalised
<1> HIDE DEF n
<1>3. torch # None /\ Matches(torch, n.torch)
  BY <1>1 DEF Compatible, IsVersionCompatible
<1> QED BY <1>2, <1>3, StripMatches

\* The base image that is named for a valid normalised configuration is named
\* for one that is published, with the PyTorch of the configuration.
LEMMA NameIsPublished ==
    ASSUME NEW cuda \in Version \cup {None}, NEW python \in Version,
           NEW torch \in [1 .. 3 -> Nat] \cup {None},
           Compatible(cuda, python, torch) # {}
    PROVE  LET name == BaseImageName(Configuration(cuda, python, torch))
           IN  /\ \E c \in BaseImageConfigurations : BaseImageName(c) = name
               /\ name.torch # None => name.torch = torch
               /\ name.python = StripPatch(python)
               /\ name = Configuration(name.cuda, name.python, name.torch)
<1> DEFINE d == Configuration(cuda, python, torch)
           n == BaseImageComponentNormalisation(cuda, python, torch)
           name == BaseImageName(d)
           Strip(v) == IF v = None THEN None ELSE StripPatch(v)
<1>1. d.cuda = cuda /\ d.python = python /\ d.torch = torch
  BY DEF Configuration
<1>2. n.cuda = cuda /\ n.python = python BY Normalised
<1> HIDE DEF d, n
<1>3. name = Configuration(Strip(cuda), StripPatch(python), n.torch)
  BY <1>1, <1>2 DEF BaseImageName, n
<1>4. \A c : LET m == BaseImageComponentNormalisation(c.cuda, c.python, c.torch)
             IN  BaseImageName(c) = Configuration(Strip(c.cuda), StripPatch(c.python), m.torch)
  BY Normalised DEF BaseImageName
<1>5. name.torch = n.torch /\ name.python = StripPatch(python) /\ name.cuda = Strip(cuda)
  BY <1>3 DEF Configuration
<1>6. n.torch # None => n.torch = torch BY NormalisedTorch DEF n
<1>7. \A c \in Compatible(cuda, python, torch) :
        /\ c \in BaseImageConfigurations
        /\ Strip(c.cuda) = Strip(cuda) /\ StripPatch(c.python) = StripPatch(python)
        /\ c.torch \in [1 .. 3 -> Nat] \cup {None}
        /\ c.torch = None <=> torch = None
  <2> TAKE c \in Compatible(cuda, python, torch)
  <2>1. c \in BaseImageConfigurations BY DEF Compatible
  <2>2. /\ c.cuda \in Version \cup {None} /\ c.python \in Version
        /\ c.torch \in [1 .. 3 -> Nat] \cup {None}
    BY <2>1, BaseImagesAre, FixedLength DEF ConfigurationType
  <2>3. None \notin Version BY TablesAssumption
  <2>4. /\ \/ c.cuda = None /\ cuda = None
           \/ c.cuda # None /\ cuda # None /\ Matches(cuda, c.cuda)
        /\ Matches(python, c.python)
        /\ c.torch = None <=> torch = None
    BY <2>2, <2>3 DEF Compatible, IsVersionCompatible
  <2> QED BY <2>1, <2>2, <2>4, StripMatches
<1>8. \E c \in BaseImageConfigurations : BaseImageName(c) = name
  <2>1. PICK c \in Compatible(cuda, python, torch) :
           n.torch # None => c.torch = n.torch
    BY Normalised DEF n
  <2> DEFINE m == BaseImageComponentNormalisation(c.cuda, c.python, c.torch)
  <2>2. m.torch = n.torch
    <3>1. c \in Compatible(c.cuda, c.python, c.torch) BY <1>7, CompatibleItself
    <3>2. CASE c.torch = None
      <4>1. m.torch = None BY <1>7, <3>2, NormalisedTorch
      <4>2. n.torch = None BY <2>1, <3>2
      <4> QED BY <4>1, <4>2
    <3>3. CASE c.torch # None
      <4>1. Torches(c.cuda, c.python, c.torch) # {} BY <3>1, <3>3 DEF Torches
      <4>2. m.torch # None BY <4>1, Normalised
      <4>3. m.torch = c.torch BY <1>7, <4>2, NormalisedTorch
      <4>4. n.torch # None
        <5>1. Torches(cuda, python, torch) # {} BY <3>3 DEF Torches
        <5> QED BY <5>1, Normalised DEF n
      <4> QED BY <2>1, <4>3, <4>4
    <3> QED BY <3>2, <3>3
  <2>3. BaseImageName(c) = Configuration(Strip(c.cuda), StripPatch(c.python), m.torch)
    BY <1>4
  <2> HIDE DEF m
  <2>4. BaseImageName(c) = name BY <1>3, <1>7, <2>2, <2>3
  <2> QED BY <1>7, <2>4
<1> QED BY <1>3, <1>5, <1>6, <1>8 DEF d

-----------------------------------------------------------------------------
(* The instructions                                                        *)

I(op, x) == [op |-> op, arg |-> x]

Starting == {I("from", parts.from), I("tini", None), I("apt", parts.apt),
             I("python", parts.python)}
Installing == {I("pip", parts.pip), I("cog", None)}
Instructions == Starting \cup Installing \cup {I("run", None), I("copy", None)}

\* An instruction is a sequence of one, and an optional one may be missing.
LEMMA OneInstruction ==
    ASSUME NEW op, NEW x, I(op, x) \in Instructions
    PROVE  /\ Instr(op, x) \in Seq(Instructions) /\ Rows(Instr(op, x)) = {I(op, x)}
           /\ Instr(op, x)[1] = I(op, x) /\ Len(Instr(op, x)) = 1
           /\ \A b \in BOOLEAN :
                /\ Optional(b, Instr(op, x)) \in Seq(Instructions)
                /\ Rows(Optional(b, Instr(op, x))) = IF b THEN {I(op, x)} ELSE {}
<1>1. Instr(op, x) = <<I(op, x)>> BY DEF Instr, I
<1> DEFINE i == I(op, x)
<1> HIDE DEF i
<1>2. i \in Instructions BY DEF i
<1>3. /\ <<i>> \in Seq(Instructions) /\ Rows(<<i>>) = {i}
      /\ <<i>>[1] = i /\ Len(<<i>>) = 1
  BY <1>2 DEF Rows
<1>4. <<>> \in Seq(Instructions) /\ Rows(<<>>) = {} BY DEF Rows
<1> QED BY <1>1, <1>3, <1>4 DEF i, Optional

\* The instructions of a Dockerfile: which are there when, and what installs
\* comes after what it is installed with and before what is run.
LEMMA InitialStepsAre ==
    ASSUME parts.cog \in BOOLEAN, parts.run \in BOOLEAN
    PROVE
    LET d == InitialSteps
    IN  /\ 1 \in DOMAIN d /\ d[1] = I("from", parts.from)
        /\ Rows(d) \subseteq Instructions
        /\ parts.apt # {} => I("apt", parts.apt) \in Rows(d)
        /\ ~IsUsingCogBaseImage => I("tini", None) \in Rows(d)
        /\ ~IsUsingCogBaseImage /\ parts.python # None =>
              I("python", parts.python) \in Rows(d)
        /\ parts.pip # <<>> => I("pip", parts.pip) \in Rows(d)
        /\ parts.cog => I("cog", None) \in Rows(d)
        /\ \A i, j \in DOMAIN d : d[i] \in Starting /\ d[j] \in Installing => i < j
        /\ \A i, j \in DOMAIN d : d[i] \in Installing /\ d[j] = I("run", None) => i < j
<1> DEFINE U == Instructions
           from == Instr("from", parts.from)
           tini == Instr("tini", None)
           apt == Optional(parts.apt # {}, Instr("apt", parts.apt))
           python == Optional(parts.python # None, Instr("python", parts.python))
           base == IF IsUsingCogBaseImage THEN apt ELSE tini \o apt \o python
           head == from \o base
           pip == Optional(parts.pip # <<>>, Instr("pip", parts.pip))
           cog == Optional(parts.cog, Instr("cog", None))
           both == IF IsUsingCogBaseImage THEN cog \o pip ELSE pip \o cog
           run == Optional(parts.run, Instr("run", None))
           copy == Optional(command # "base", Instr("copy", None))
           d == InitialSteps
<1>1. d = (head \o (both \o run)) \o copy
  BY DEF InitialSteps, Installs
<1>2. /\ from \in Seq(U) /\ Rows(from) = {I("from", parts.from)}
      /\ from[1] = I("from", parts.from) /\ 1 \in 1 .. Len(from)
  BY OneInstruction DEF Instructions, Starting
<1>3. tini \in Seq(U) /\ Rows(tini) = {I("tini", None)}
  BY OneInstruction DEF Instructions, Starting
<1>4. apt \in Seq(U) /\ Rows(apt) = IF parts.apt # {} THEN {I("apt", parts.apt)} ELSE {}
  <2>1. (parts.apt # {}) \in BOOLEAN OBVIOUS
  <2> QED BY <2>1, OneInstruction DEF Instructions, Starting
<1>5. /\ python \in Seq(U)
      /\ Rows(python) = IF parts.python # None THEN {I("python", parts.python)} ELSE {}
  <2>1. (parts.python # None) \in BOOLEAN OBVIOUS
  <2> QED BY <2>1, OneInstruction DEF Instructions, Starting
<1>6. pip \in Seq(U) /\ Rows(pip) = IF parts.pip # <<>> THEN {I("pip", parts.pip)} ELSE {}
  <2>1. (parts.pip # <<>>) \in BOOLEAN OBVIOUS
  <2> QED BY <2>1, OneInstruction DEF Instructions, Installing
<1>7. cog \in Seq(U) /\ Rows(cog) = IF parts.cog THEN {I("cog", None)} ELSE {}
  BY OneInstruction DEF Instructions, Installing
<1>8. run \in Seq(U) /\ Rows(run) \subseteq {I("run", None)}
  BY OneInstruction DEF Instructions
<1>9. copy \in Seq(U) /\ Rows(copy) \subseteq {I("copy", None)}
  <2>1. (command # "base") \in BOOLEAN OBVIOUS
  <2> QED BY <2>1, OneInstruction DEF Instructions
<1> HIDE DEF U, from, tini, apt, python, pip, cog, run, copy, d
<1>10. /\ base \in Seq(U)
       /\ Rows(base) = IF IsUsingCogBaseImage THEN Rows(apt)
                       ELSE Rows(tini) \cup Rows(apt) \cup Rows(python)
  <2> DEFINE two == tini \o apt
  <2>1. two \in Seq(U) /\ Rows(two) = Rows(tini) \cup Rows(apt)
    BY <1>3, <1>4, ConcatRows
  <2> HIDE DEF two
  <2>2. two \o python \in Seq(U) /\ Rows(two \o python) = Rows(two) \cup Rows(python)
    BY <1>5, <2>1, ConcatRows
  <2>3. base = IF IsUsingCogBaseImage THEN apt ELSE two \o python BY DEF two
  <2> HIDE DEF base
  <2> QED BY <1>4, <2>1, <2>2, <2>3
<1>11. both \in Seq(U) /\ Rows(both) = Rows(cog) \cup Rows(pip)
  <2>1. /\ cog \o pip \in Seq(U) /\ Rows(cog \o pip) = Rows(cog) \cup Rows(pip)
        /\ pip \o cog \in Seq(U) /\ Rows(pip \o cog) = Rows(pip) \cup Rows(cog)
    BY <1>6, <1>7, ConcatRows
  <2> QED BY <2>1
<1> HIDE DEF base, both
<1>12. head \in Seq(U) /\ Rows(head) = Rows(from) \cup Rows(base)
  BY <1>2, <1>10, ConcatRows
<1>13. head[1] = I("from", parts.from) /\ 1 \in 1 .. Len(head)
  BY <1>2, <1>10, ConcatFirst
<1> HIDE DEF head
<1> DEFINE rest == both \o run
           end == rest \o copy
           begin == head \o both
           last == run \o copy
<1>14. rest \in Seq(U) /\ Rows(rest) = Rows(both) \cup Rows(run)
  BY <1>8, <1>11, ConcatRows
<1>15. begin \in Seq(U) /\ Rows(begin) = Rows(head) \cup Rows(both)
  BY <1>11, <1>12, ConcatRows
<1>16. last \in Seq(U) /\ Rows(last) = Rows(run) \cup Rows(copy)
  BY <1>8, <1>9, ConcatRows
<1>17. d = head \o end
  <2>1. d = (head \o rest) \o copy BY <1>1
  <2> HIDE DEF rest
  <2>2. (head \o rest) \o copy = head \o (rest \o copy)
    BY <1>9, <1>12, <1>14, ConcatAssociative
  <2> QED BY <2>1, <2>2
<1>18. d = begin \o last
  <2>1. head \o (both \o run) = begin \o run
    BY <1>8, <1>11, <1>12, ConcatAssociative
  <2>2. (begin \o run) \o copy = begin \o last
    BY <1>8, <1>9, <1>15, ConcatAssociative
  <2> QED BY <1>1, <2>1, <2>2
<1>19. end \in Seq(U) /\ Rows(end) = Rows(rest) \cup Rows(copy)
  <2> HIDE DEF rest
  <2> QED BY <1>9, <1>14, ConcatRows
<1> HIDE DEF rest, end, begin, last
<1>20. /\ d \in Seq(U) /\ Rows(d) = Rows(head) \cup Rows(end)
       /\ 1 \in DOMAIN d /\ d[1] = head[1]
  <2>1. head \o end \in Seq(U) /\ Rows(head \o end) = Rows(head) \cup Rows(end)
    BY <1>12, <1>19, ConcatRows
  <2>2. 1 \in DOMAIN (head \o end) /\ (head \o end)[1] = head[1]
    BY <1>12, <1>13, <1>19, ConcatFirst
  <2> QED BY <1>17, <2>1, <2>2
<1>21. /\ Rows(head) \subseteq Starting /\ Rows(both) \subseteq Installing
       /\ Rows(end) \cap Starting = {} /\ Rows(head) \cap Installing = {}
       /\ Rows(last) \cap Installing = {}
       /\ I("run", None) \notin Rows(begin)
  <2>1. /\ Rows(head) \subseteq Starting /\ Rows(both) \subseteq Installing
        /\ Rows(end) \subseteq Installing \cup {I("run", None), I("copy", None)}
        /\ Rows(last) \subseteq {I("run", None), I("copy", None)}
        /\ Rows(begin) \subseteq Starting \cup Installing
    BY <1>2, <1>3, <1>4, <1>5, <1>6, <1>7, <1>8, <1>9, <1>10, <1>11, <1>12, <1>14,
       <1>15, <1>16, <1>19 DEF Starting, Installing
  <2>2. /\ Starting \cap (Installing \cup {I("run", None), I("copy", None)}) = {}
        /\ Installing \cap {I("run", None), I("copy", None)} = {}
        /\ I("run", None) \notin Starting \cup Installing
    BY DEF Starting, Installing, I
  <2> QED BY <2>1, <2>2
<1>22. \A i, j \in DOMAIN d : d[i] \in Starting /\ d[j] \in Installing => i < j
  <2>1. \A i, j \in DOMAIN (head \o end) :
          (head \o end)[i] \notin Rows(end) /\ (head \o end)[j] \notin Rows(head) => i < j
    BY <1>12, <1>19, ConcatRows
  <2> QED BY <1>17, <1>21, <2>1
<1>23. \A i, j \in DOMAIN d : d[i] \in Installing /\ d[j] = I("run", None) => i < j
  <2>1. \A i, j \in DOMAIN (begin \o last) :
          (begin \o last)[i] \notin Rows(last) /\ (begin \o last)[j] \notin Rows(begin) => i < j
    BY <1>15, <1>16, ConcatRows
  <2> QED BY <1>18, <1>21, <2>1
<1>24. Rows(d) \subseteq Instructions
  BY <1>20 DEF Rows, U
<1> QED BY <1>3, <1>4, <1>5, <1>6, <1>7, <1>10, <1>11, <1>12, <1>13, <1>14, <1>19,
           <1>20, <1>22, <1>23, <1>24 DEF d

-----------------------------------------------------------------------------
(* The invariant                                                           *)

\* The invariant holds before a command begins.
LEMMA GenInit == Init => GenInv
<1> SUFFICES ASSUME Init PROVE GenInv OBVIOUS
<1> USE DEF Init, ConfigInit
<1>1. GenTypeOK
  BY DEF GenTypeOK, Steps, Loading, Completing, BeforeCuda, NoParts
<1>2. StepOfCommand
  BY DEF StepOfCommand, Loading, Completing, BeforeCuda, Generating, AfterBase,
         AfterPython, AfterApt, AfterPip
<1>3. ErrorsOfStep BY DEF ErrorsOfStep
<1>4. ReadFromYaml BY DEF ReadFromYaml, BeforeCuda
<1>5. CudaIsChosen BY DEF CudaIsChosen
<1>6. CudaIsKnown BY DEF CudaIsKnown, Loading
<1>7. BaseImageIsMade BY DEF BaseImageIsMade
<1>8. FromIsKnown
  BY DEF FromIsKnown, AfterBase, AfterPython, AfterApt, AfterPip
<1>9. PartsAreMade
  BY DEF PartsAreMade, AfterPython, AfterApt, AfterPip
<1>10. MonobaseIsFrom BY DEF MonobaseIsFrom
<1> QED BY <1>1, <1>2, <1>3, <1>4, <1>5, <1>6, <1>7, <1>8, <1>9, <1>10 DEF GenInv

\* What is known of the generators holds while there is none.
LEMMA NoGenerator ==
    ASSUME GenInv, UNCHANGED genVars, pc \in Loading \cup Completing,
           pc' \in Loading \cup Completing \cup {"failed"}
    PROVE  FromIsKnown' /\ PartsAreMade' /\ MonobaseIsFrom'
<1>1. pc' \notin AfterBase
  BY DEF Loading, Completing, BeforeCuda, AfterBase, AfterPython, AfterApt, AfterPip
<1>2. pc' \notin AfterPython \cup AfterApt \cup AfterPip \cup {"assemble", "done"}
  BY <1>1 DEF AfterBase, AfterPython, AfterApt, AfterPip
<1>3. FromIsKnown' BY <1>1 DEF FromIsKnown
<1>4. PartsAreMade' BY <1>2 DEF PartsAreMade
<1>5. MonobaseIsFrom' BY <1>2 DEF MonobaseIsFrom
<1> QED BY <1>3, <1>4, <1>5

\* Loading cog.yaml.
LEMMA LoadingKeeps ==
    ASSUME GenInv, UNCHANGED genVars, FindProjectRootDir \/ LoadConfigFromFile
    PROVE  GenInv'
<1> USE DEF genVars, At, Fault, NoFault
<1>1. /\ pc \in Loading /\ pc' \in Loading \cup {"validate", "failed"}
      /\ yaml = None
      /\ errs' = errs /\ faults' \in Nat
      /\ command = "none" /\ errs = {} /\ config = None
      /\ pc' \in Loading \cup {"failed"} => UNCHANGED <<yaml, config>>
      /\ pc' = "validate" => yaml' \in Yamls /\ config' = yaml' /\ config' \in CogYaml
  BY ConfigAssumption DEF FindProjectRootDir, LoadConfigFromFile, Loading, GenInv, GenTypeOK,
         StepOfCommand, ErrorsOfStep, BeforeCuda
<1>2. GenTypeOK'
  BY <1>1 DEF GenInv, GenTypeOK, Steps, Loading, Completing, BeforeCuda
<1>3. StepOfCommand'
  BY <1>1 DEF GenInv, StepOfCommand, Loading, Completing, BeforeCuda, Generating, AfterBase,
         AfterPython, AfterApt, AfterPip
<1>4. ErrorsOfStep' BY <1>1 DEF ErrorsOfStep
<1>5. ReadFromYaml'
  <2>1. CASE pc' = "validate"
    <3>1. config' = [yaml' EXCEPT !.lines = config'.lines]
      BY <1>1, <2>1 DEF CogYaml
    <3> QED BY <1>1, <3>1, <2>1 DEF ReadFromYaml
  <2>2. CASE pc' # "validate"
    BY <1>1, <2>2 DEF ReadFromYaml, BeforeCuda, Loading
  <2> QED BY <2>1, <2>2
<1>6. CudaIsChosen' BY <1>1 DEF CudaIsChosen, Loading
<1>7. CudaIsKnown' BY <1>1 DEF CudaIsKnown, Loading, BeforeCuda
<1>8. BaseImageIsMade' BY <1>1 DEF BaseImageIsMade
<1>9. FromIsKnown' /\ PartsAreMade' /\ MonobaseIsFrom'
  BY <1>1, NoGenerator DEF Completing, BeforeCuda, genVars
<1> QED BY <1>2, <1>3, <1>4, <1>5, <1>6, <1>7, <1>8, <1>9 DEF GenInv

\* The step of the validation; the configuration of a base image is valid.
LEMMA ValidateKeeps ==
    ASSUME GenInv, UNCHANGED genVars, Validate
    PROVE  GenInv'
<1> USE DEF genVars, At, NoFault
<1>1. /\ pc = "validate" /\ pc' = "requirements"
      /\ UNCHANGED <<yaml, config, faults>> /\ config \in CogYaml
      /\ errs' \subseteq errs \cup {"predict", "both"}
      /\ command \in {"none", "base"}
      /\ command = "base" => errs' = errs
  <2>1. pc = "validate" /\ pc' = "requirements" /\ UNCHANGED <<yaml, config, faults>>
        /\ errs' = errs \cup ((IF config.predict THEN {} ELSE {"predict"})
              \cup (IF config.packages # <<>> /\ config.file # None THEN {"both"} ELSE {}))
    BY DEF Validate, Errors
  <2>2. config \in CogYaml /\ command \in {"none", "base"}
    BY <2>1 DEF GenInv, GenTypeOK, StepOfCommand, Completing, BeforeCuda, Loading
  <2>3. ASSUME command = "base" PROVE errs' = errs
    <3>1. config = [Made EXCEPT !.lines = config.lines, !.cudnn = config.cudnn]
          /\ request \in BaseImageConfigurations
      BY <2>1, <2>3 DEF GenInv, BaseImageIsMade
    <3>2. Made \in CogYaml /\ Made.predict /\ Made.file = None BY <3>1, MadeIs DEF Made
    <3>3. config.predict = Made.predict /\ config.file = Made.file
      BY <3>1, <3>2 DEF CogYaml
    <3> QED BY <2>1, <3>2, <3>3
  <2> QED BY <2>1, <2>2, <2>3
<1>2. GenTypeOK'
  BY <1>1 DEF GenInv, GenTypeOK, Steps, Loading, Completing, BeforeCuda
<1>3. StepOfCommand'
  BY <1>1 DEF GenInv, StepOfCommand, Loading, Completing, BeforeCuda, Generating, AfterBase,
         AfterPython, AfterApt, AfterPip
<1>4. ErrorsOfStep' BY <1>1 DEF GenInv, ErrorsOfStep, BeforeCuda
<1>5. ReadFromYaml' BY <1>1 DEF GenInv, ReadFromYaml, BeforeCuda
<1>6. CudaIsChosen' BY <1>1 DEF CudaIsChosen
<1>7. CudaIsKnown' BY <1>1 DEF CudaIsKnown, BeforeCuda
<1>8. BaseImageIsMade' BY <1>1 DEF GenInv, BaseImageIsMade, Made, BeforeCuda
<1>9. FromIsKnown' /\ PartsAreMade' /\ MonobaseIsFrom'
  BY <1>1, NoGenerator DEF Completing, BeforeCuda, genVars
<1> QED BY <1>2, <1>3, <1>4, <1>5, <1>6, <1>7, <1>8, <1>9 DEF GenInv

\* The lines of the requirements are read from cog.yaml or from its file.
LEMMA ReadKeeps ==
    ASSUME GenInv, UNCHANGED genVars, ReadRequirements
    PROVE  GenInv'
<1> USE DEF genVars, At, NoFault, Fault
<1>1. /\ pc = "requirements" /\ pc' = "cuda" /\ yaml' = yaml
      /\ config \in CogYaml /\ command \in {"none", "base"}
  BY DEF ReadRequirements, GenInv, GenTypeOK, StepOfCommand, Completing, BeforeCuda, Loading
<1>2. /\ \E lines \in {config.packages, config.file, <<>>} :
            /\ config' = [config EXCEPT !.lines = lines]
            /\ lines \in Seq(PackageLine)
            /\ config.file = None => lines = config.packages
      /\ errs' \subseteq errs \cup {"file"} /\ faults' \in Nat
      /\ config.file = None => errs' = errs
  <2>1. config.packages \in Seq(PackageLine) /\ config.file \in Seq(PackageLine) \cup {None}
    BY <1>1 DEF CogYaml
  <2>2. <<>> \in Seq(PackageLine) OBVIOUS
  <2>3. faults' \in Nat /\ errs' \subseteq errs \cup {"file"}
        /\ (config.file = None => errs' = errs)
    BY DEF ReadRequirements, Errors, GenInv, GenTypeOK
  <2>4. \/ config' = [config EXCEPT !.lines = IF config.packages # <<>> THEN config.packages
                                             ELSE IF config.file = None THEN <<>> ELSE config.file]
        \/ /\ config.file # None
           /\ config' = [config EXCEPT !.lines = IF config.packages # <<>> THEN config.packages
                                                 ELSE <<>>]
    BY DEF ReadRequirements
  <2> QED BY <2>1, <2>2, <2>3, <2>4
<1>3. PICK lines \in Seq(PackageLine) :
        /\ config' = [config EXCEPT !.lines = lines]
        /\ config.file = None => lines = config.packages
  BY <1>2
<1>4. config' \in CogYaml /\ config'.lines = lines
      /\ config' = [config EXCEPT !.lines = config'.lines]
  BY <1>1, <1>3 DEF CogYaml
<1>5. GenTypeOK'
  BY <1>1, <1>2, <1>4 DEF GenInv, GenTypeOK, Steps, Loading, Completing, BeforeCuda
<1>6. StepOfCommand'
  BY <1>1 DEF GenInv, StepOfCommand, Loading, Completing, BeforeCuda, Generating, AfterBase,
         AfterPython, AfterApt, AfterPip
<1>7. ErrorsOfStep' BY <1>1, <1>2 DEF GenInv, ErrorsOfStep, BeforeCuda
<1>8. ReadFromYaml'
  <2> SUFFICES ASSUME command = "none"
               PROVE  yaml \in Yamls /\ config' = [yaml EXCEPT !.lines = config'.lines]
    BY <1>1 DEF ReadFromYaml
  <2>1. yaml \in Yamls /\ config = [yaml EXCEPT !.lines = config.lines]
    BY <1>1 DEF GenInv, ReadFromYaml, BeforeCuda
  <2>2. yaml \in CogYaml BY <2>1, ConfigAssumption
  <2> QED BY <1>4, <2>1, <2>2 DEF CogYaml
<1>9. CudaIsChosen' BY <1>1 DEF CudaIsChosen
<1>10. CudaIsKnown' BY <1>1 DEF CudaIsKnown, BeforeCuda
<1>11. BaseImageIsMade'
  <2> SUFFICES ASSUME command = "base" PROVE BaseImageIsMade'
    BY DEF BaseImageIsMade
  <2>1. /\ config = [Made EXCEPT !.lines = config.lines, !.cudnn = config.cudnn]
        /\ request \in BaseImageConfigurations /\ errs = {} /\ config.cudnn = None
    BY <1>1 DEF GenInv, BaseImageIsMade, BeforeCuda
  <2>2. Made \in CogYaml /\ Made.file = None /\ Made' = Made
    BY <2>1, MadeIs DEF Made
  <2>3. config.file = None /\ config.packages = Made.packages
    BY <2>1, <2>2 DEF CogYaml
  <2>4. /\ config' = [Made EXCEPT !.lines = config'.lines, !.cudnn = config'.cudnn]
        /\ config'.cudnn = None
    BY <1>1, <1>4, <2>1, <2>2 DEF CogYaml
  <2>5. errs' = {} /\ config'.lines = Made.packages BY <1>2, <1>3, <1>4, <2>1, <2>3
  <2> QED BY <1>1, <2>1, <2>2, <2>4, <2>5 DEF BaseImageIsMade
<1>12. FromIsKnown' /\ PartsAreMade' /\ MonobaseIsFrom'
  BY <1>1, NoGenerator DEF Completing, BeforeCuda, genVars
<1> QED BY <1>5, <1>6, <1>7, <1>8, <1>9, <1>10, <1>11, <1>12 DEF GenInv

\* cog panics: neither a base image nor a model with a version of PyTorch, or
\* without PyTorch, makes it.
LEMMA PanicKeeps ==
    ASSUME GenInv, UNCHANGED genVars, PanicOnVersion
    PROVE  GenInv'
<1> USE DEF genVars, At, NoFault
<1>1. /\ pc = "cuda" /\ pc' = "failed" /\ UNCHANGED <<yaml, config, faults>>
      /\ errs' = errs \cup {"panic"} /\ command \in {"none", "base"}
      /\ PackageVersion(config.lines, "torch") = <<>>
  BY DEF PanicOnVersion, Panics, Errors, GenInv, StepOfCommand, Completing, BeforeCuda
<1>2. command # "base"
  <2> SUFFICES ASSUME command = "base" PROVE FALSE OBVIOUS
  <2>1. request \in BaseImageConfigurations /\ config.lines = Made.packages
    BY <1>1 DEF GenInv, BaseImageIsMade, BeforeCuda
  <2>2. PackageVersion(Made.packages, "torch") # <<>> BY <2>1, MadeIs DEF Made
  <2> QED BY <1>1, <2>1, <2>2
<1>3. GenTypeOK'
  BY <1>1 DEF GenInv, GenTypeOK, Steps, Loading, Completing, BeforeCuda
<1>4. StepOfCommand'
  BY <1>1 DEF GenInv, StepOfCommand, Loading, Completing, BeforeCuda, Generating, AfterBase,
         AfterPython, AfterApt, AfterPip
<1>5. ErrorsOfStep' BY <1>1 DEF ErrorsOfStep
<1>6. ReadFromYaml' BY <1>1 DEF ReadFromYaml, BeforeCuda
<1>7. CudaIsChosen' BY <1>1 DEF CudaIsChosen, LeftToCog
<1>8. CudaIsKnown' BY <1>1 DEF CudaIsKnown
<1>9. BaseImageIsMade' BY <1>2 DEF BaseImageIsMade
<1>10. FromIsKnown' /\ PartsAreMade' /\ MonobaseIsFrom'
  BY <1>1, NoGenerator DEF Completing, BeforeCuda, genVars
<1> QED BY <1>3, <1>4, <1>5, <1>6, <1>7, <1>8, <1>9, <1>10 DEF GenInv

\* What the step of CUDA may do: nothing, an error, or two versions.
LEMMA CompleteCUDAIs ==
    ASSUME GenInv, UNCHANGED genVars, ValidateAndCompleteCUDA
    PROVE  /\ pc = "cuda" /\ pc' = "environment" /\ UNCHANGED <<yaml, faults>>
           /\ config \in CogYaml /\ config' \in CogYaml
           /\ command \in {"none", "base"}
           /\ \/ UNCHANGED <<config, errs>> /\ ~config.gpu
              \/ UNCHANGED config /\ errs' = errs \cup {"cuda"} /\ config.gpu
              \/ /\ UNCHANGED errs /\ config.gpu
                 /\ \E cuda \in Version, cudnn \in Nat :
                       config' = [config EXCEPT !.cuda = cuda, !.cudnn = cudnn]
           /\ config'.lines = config.lines
<1> DEFINE cuda == IF config.cuda # None THEN config.cuda ELSE ChosenCUDA(config)
           cudnn == IF config.cudnn # None THEN config.cudnn ELSE ChosenCuDNN(config, cuda)
<1>1. pc = "cuda" /\ pc' = "environment" /\ UNCHANGED <<yaml, faults>>
  BY DEF ValidateAndCompleteCUDA, At, NoFault
<1>2. config \in CogYaml /\ command \in {"none", "base"}
  BY <1>1 DEF GenInv, GenTypeOK, StepOfCommand, Completing, BeforeCuda, Loading
<1>3. cuda \in Version \cup {None}
  BY <1>2, ChosenType DEF CogYaml
<1>4. cudnn \in Nat \cup {None}
  <2> HIDE DEF cuda
  <2> QED BY <1>2, ChosenType DEF CogYaml
<1>5. \/ UNCHANGED <<config, errs>> /\ ~config.gpu
      \/ UNCHANGED config /\ errs' = errs \cup {"cuda"} /\ config.gpu
      \/ /\ config' = [config EXCEPT !.cuda = cuda, !.cudnn = cudnn]
         /\ cuda # None /\ cudnn # None /\ UNCHANGED errs /\ config.gpu
  BY DEF ValidateAndCompleteCUDA, Errors
<1> HIDE DEF cuda, cudnn
<1>6. /\ \/ UNCHANGED <<config, errs>> /\ ~config.gpu
         \/ UNCHANGED config /\ errs' = errs \cup {"cuda"} /\ config.gpu
         \/ /\ UNCHANGED errs /\ config.gpu
            /\ \E u \in Version, d \in Nat :
                  config' = [config EXCEPT !.cuda = u, !.cudnn = d]
  BY <1>3, <1>4, <1>5
<1>7. config' \in CogYaml /\ config'.lines = config.lines
  BY <1>2, <1>6 DEF CogYaml
<1> QED BY <1>1, <1>2, <1>6, <1>7

\* A configuration that asks for a CUDA version that is not refused and has
\* an image, or leaves it to Cog, is completed with versions with an image.
LEMMA CompletedHasImage ==
    ASSUME GenInv, UNCHANGED genVars, ValidateAndCompleteCUDA,
           config.gpu, ~Refused(config), config.cudnn = None,
           ~HasVersion(config.lines, "tensorflow"),
           NEW cuda, cuda = IF config.cuda # None THEN config.cuda ELSE ChosenCUDA(config),
           cuda # None, \E i \in Images : Matches(cuda, i.cuda)
    PROVE  /\ UNCHANGED errs /\ HasImage(config')
           /\ config' = [config EXCEPT !.cuda = cuda, !.cudnn = config'.cudnn]
<1> DEFINE cudnn == LatestCuDNNForCUDA(cuda)
<1>1. cudnn \in Nat /\ BaseImagesFor(cuda, cudnn) # {} BY LatestCuDNNIs
<1>2. ChosenCuDNN(config, cuda) = cudnn BY DEF ChosenCuDNN
<1>3. cudnn # None BY <1>1, TablesAssumption
<1> HIDE DEF cudnn
<1>4. config' = [config EXCEPT !.cuda = cuda, !.cudnn = cudnn] /\ UNCHANGED errs
  BY <1>2, <1>3 DEF ValidateAndCompleteCUDA
<1>5. config \in CogYaml BY CompleteCUDAIs
<1>6. config'.cuda = cuda /\ config'.cudnn = cudnn
  BY <1>4, <1>5 DEF CogYaml
<1> QED BY <1>1, <1>4, <1>6 DEF HasImage

\* The step of CUDA.
LEMMA CompleteKeeps ==
    ASSUME GenInv, UNCHANGED genVars, ValidateAndCompleteCUDA
    PROVE  GenInv'
<1> USE DEF genVars
<1>1. /\ pc = "cuda" /\ pc' = "environment" /\ UNCHANGED <<yaml, faults>>
      /\ config \in CogYaml /\ config' \in CogYaml
      /\ command \in {"none", "base"} /\ config'.lines = config.lines
  BY CompleteCUDAIs
<1>2. errs' \subseteq errs \cup {"cuda"} BY CompleteCUDAIs
<1>3. GenTypeOK'
  BY <1>1 DEF GenInv, GenTypeOK, Steps, Loading, Completing, BeforeCuda
<1>4. StepOfCommand'
  BY <1>1 DEF GenInv, StepOfCommand, Loading, Completing, BeforeCuda, Generating, AfterBase,
         AfterPython, AfterApt, AfterPip
<1>5. ErrorsOfStep' BY <1>1, <1>2 DEF GenInv, ErrorsOfStep, BeforeCuda
<1>6. ReadFromYaml' BY <1>1 DEF ReadFromYaml, BeforeCuda
<1>7. CudaIsChosen'
  <2> SUFFICES ASSUME LeftToCog'
               PROVE  errs' \cap {"cuda", "panic"} = {} /\ HasImage(config')
    BY DEF CudaIsChosen
  <2>1. LeftToCog BY <1>1 DEF LeftToCog
  <2>2. command = "none"
    BY <1>1, <2>1 DEF LeftToCog, GenInv, StepOfCommand
  <2>3. config = [yaml EXCEPT !.lines = config.lines] /\ yaml \in CogYaml
    BY <1>1, <2>2, ConfigAssumption DEF GenInv, ReadFromYaml, BeforeCuda
  <2>4. config.gpu /\ config.cuda = None /\ config.cudnn = None
    BY <2>1, <2>3 DEF LeftToCog, CogYaml
  <2>5. /\ ChosenCUDA(config) \in Version
        /\ \E i \in Images : Matches(ChosenCUDA(config), i.cuda)
    BY <1>1, <2>1, ChosenHasImage DEF LeftToCog
  <2>6. ~HasVersion(config.lines, "tensorflow") BY <2>1 DEF LeftToCog
  <2>7. ~Refused(config) BY <2>4 DEF Refused, RefusedCUDA
  <2>8. ChosenCUDA(config) # None BY <2>5, TablesAssumption
  <2>9. UNCHANGED errs /\ HasImage(config')
    BY <2>4, <2>5, <2>6, <2>7, <2>8, CompletedHasImage
  <2>10. errs \cap {"cuda", "panic"} = {} BY <1>1 DEF GenInv, ErrorsOfStep
  <2> QED BY <2>9, <2>10
<1>8. CudaIsKnown'
  <2> SUFFICES ASSUME config'.gpu, "cuda" \notin errs' PROVE config'.cuda # None
    BY DEF CudaIsKnown
  <2>1. config'.gpu = config.gpu
    BY <1>1, CompleteCUDAIs DEF CogYaml
  <2>2. PICK cuda \in Version, cudnn \in Nat :
          config' = [config EXCEPT !.cuda = cuda, !.cudnn = cudnn]
    BY <2>1, CompleteCUDAIs
  <2>3. config'.cuda = cuda BY <1>1, <2>2 DEF CogYaml
  <2> QED BY <2>3, TablesAssumption
<1>9. BaseImageIsMade'
  <2> SUFFICES ASSUME command = "base" PROVE BaseImageIsMade'
    BY DEF BaseImageIsMade
  <2>1. /\ config = [Made EXCEPT !.lines = config.lines, !.cudnn = config.cudnn]
        /\ request \in BaseImageConfigurations /\ errs = {} /\ config.cudnn = None
        /\ config.lines = Made.packages
    BY <1>1 DEF GenInv, BaseImageIsMade, BeforeCuda
  <2>2. Made \in CogYaml /\ Made' = Made BY <2>1, MadeIs DEF Made
  <2>3. config.gpu = Made.gpu /\ config.cuda = Made.cuda BY <2>1, <2>2 DEF CogYaml
  <2>4. CASE ~config.gpu
    <3>1. UNCHANGED <<config, errs>> BY <2>4, CompleteCUDAIs
    <3> QED BY <1>1, <2>1, <2>2, <2>4, <3>1 DEF BaseImageIsMade, BeforeCuda
  <2>5. CASE config.gpu
    <3>1. /\ Len(config.cuda) = 2 /\ config.cuda[1] >= 11 /\ config.cuda[1] \in Nat
          /\ config.cuda # None
          /\ \E i \in Images : Matches(config.cuda, i.cuda)
      BY <2>1, <2>3, <2>5, MadeIs DEF Made
    <3>2. ~Refused(config) BY <2>1, <3>1 DEF Refused, RefusedCUDA
    <3>3. ~HasVersion(config.lines, "tensorflow") BY <2>1, MadeIs DEF Made
    <3>4. /\ UNCHANGED errs /\ HasImage(config')
          /\ config' = [config EXCEPT !.cuda = config.cuda, !.cudnn = config'.cudnn]
      BY <2>1, <2>5, <3>1, <3>2, <3>3, CompletedHasImage
    <3>5. config' = [Made EXCEPT !.lines = config'.lines, !.cudnn = config'.cudnn]
      BY <1>1, <2>1, <2>2, <3>4 DEF CogYaml
    <3> QED BY <1>1, <2>1, <2>2, <3>4, <3>5 DEF BaseImageIsMade, BeforeCuda
  <2> QED BY <2>4, <2>5
<1>10. FromIsKnown' /\ PartsAreMade' /\ MonobaseIsFrom'
  BY <1>1, NoGenerator DEF Completing, BeforeCuda, genVars
<1> QED BY <1>3, <1>4, <1>5, <1>6, <1>7, <1>8, <1>9, <1>10 DEF GenInv

\* The step of the environment; that of a base image sets no variable.
LEMMA EnvironmentKeeps ==
    ASSUME GenInv, UNCHANGED genVars, LoadEnvironment
    PROVE  GenInv'
<1> USE DEF genVars, NoFault
<1>1. /\ pc = "environment" /\ UNCHANGED <<yaml, config, faults>>
      /\ pc' \in {"complete", "failed"} /\ (pc' = "complete" => errs' = {})
      /\ errs \subseteq errs' /\ errs' \subseteq errs \cup {"environment"}
      /\ config \in CogYaml /\ command \in {"none", "base"}
  BY DEF LoadEnvironment, Errors, GenInv, GenTypeOK, StepOfCommand, Completing, BeforeCuda,
         Loading
<1>2. command = "base" => pc' = "complete" /\ errs' = {}
  <2> SUFFICES ASSUME command = "base" PROVE pc' = "complete" /\ errs' = {} OBVIOUS
  <2>1. /\ config = [Made EXCEPT !.lines = config.lines, !.cudnn = config.cudnn]
        /\ request \in BaseImageConfigurations /\ errs = {}
    BY <1>1 DEF GenInv, BaseImageIsMade
  <2>2. Made \in CogYaml /\ Made.env = <<>> BY <2>1, MadeIs DEF Made
  <2>3. config.env = <<>> BY <2>1, <2>2 DEF CogYaml
  <2>4. ParseAndValidateEnvironment(config.env)
    BY <2>3 DEF ParseAndValidateEnvironment
  <2> QED BY <2>1, <2>4 DEF LoadEnvironment, Errors
<1>3. GenTypeOK'
  BY <1>1 DEF GenInv, GenTypeOK, Steps, Loading, Completing, BeforeCuda
<1>4. StepOfCommand'
  BY <1>1 DEF GenInv, StepOfCommand, Loading, Completing, BeforeCuda, Generating, AfterBase,
         AfterPython, AfterApt, AfterPip
<1>5. ErrorsOfStep' BY <1>1 DEF GenInv, ErrorsOfStep, BeforeCuda
<1>6. ReadFromYaml' BY <1>1 DEF ReadFromYaml, BeforeCuda
<1>7. CudaIsChosen'
  <2>1. LeftToCog' <=> LeftToCog BY <1>1 DEF LeftToCog
  <2>2. HasImage(config') <=> HasImage(config) BY <1>1
  <2>3. errs' \cap {"cuda", "panic"} = errs \cap {"cuda", "panic"} BY <1>1
  <2> QED BY <1>1, <2>1, <2>2, <2>3 DEF GenInv, CudaIsChosen
<1>8. CudaIsKnown' BY <1>1 DEF GenInv, CudaIsKnown, BeforeCuda, Loading
<1>9. BaseImageIsMade'
  BY <1>1, <1>2 DEF GenInv, BaseImageIsMade, Made, BeforeCuda, HasImage
<1>10. FromIsKnown' /\ PartsAreMade' /\ MonobaseIsFrom'
  BY <1>1, NoGenerator DEF Completing, BeforeCuda, genVars
<1> QED BY <1>3, <1>4, <1>5, <1>6, <1>7, <1>8, <1>9, <1>10 DEF GenInv

\* The base image that is asked for is one there is, so that it is made.
LEMMA NewBaseKeeps ==
    ASSUME GenInv, NewBaseImageGenerator
    PROVE  GenInv'
<1>1. /\ pc = "search" /\ command' = "base" /\ useCog' = "false"
      /\ UNCHANGED <<yaml, errs, faults, useCuda, parts, dockerfile>>
      /\ command = "none" /\ errs = {} /\ yaml = None
  BY DEF NewBaseImageGenerator, GenInv, GenTypeOK, StepOfCommand, ErrorsOfStep, Loading,
         BeforeCuda
<1>2. request' \in BaseImageConfigurations /\ config' = Made' /\ pc' = "validate"
  <2>1. PICK c \in BaseImageConfigurations :
          LET n == BaseImageComponentNormalisation(c.cuda, c.python, c.torch)
          IN  /\ request' = c /\ config' = MakeConfig(n)
              /\ pc' = IF Valid(n) THEN "validate" ELSE "failed"
    BY DEF NewBaseImageGenerator
  <2> QED BY <2>1, RequestIsValid DEF Made, MadeFor
<1>3. /\ config' \in CogYaml /\ config'.lines = <<>> /\ config'.cudnn = None
      /\ config' = [Made' EXCEPT !.lines = config'.lines, !.cudnn = config'.cudnn]
  <2>1. MadeFor(request') \in CogYaml /\ MadeFor(request').lines = <<>>
        /\ MadeFor(request').cudnn = None
    BY <1>2, MadeIs
  <2>2. config' = MadeFor(request') /\ Made' = MadeFor(request') BY <1>2 DEF Made
  <2> QED BY <2>1, <2>2 DEF CogYaml
<1>4. GenTypeOK'
  BY <1>1, <1>2, <1>3 DEF GenInv, GenTypeOK, Steps, Loading, Completing, BeforeCuda
<1>5. StepOfCommand'
  BY <1>1, <1>2 DEF GenInv, StepOfCommand, Loading, Completing, BeforeCuda, Generating,
                    AfterBase,
         AfterPython, AfterApt, AfterPip
<1>6. ErrorsOfStep' BY <1>1 DEF ErrorsOfStep
<1>7. ReadFromYaml' BY <1>1 DEF ReadFromYaml
<1>8. CudaIsChosen' BY <1>1 DEF CudaIsChosen, LeftToCog
<1>9. CudaIsKnown' BY <1>2 DEF CudaIsKnown, BeforeCuda
<1>10. BaseImageIsMade' BY <1>1, <1>2, <1>3 DEF BaseImageIsMade
<1>11. FromIsKnown'
  BY <1>2 DEF FromIsKnown, AfterBase, AfterPython, AfterApt, AfterPip
<1>12. PartsAreMade' BY <1>2 DEF PartsAreMade, AfterPython, AfterApt, AfterPip
<1>13. MonobaseIsFrom' BY <1>2 DEF MonobaseIsFrom
<1> QED BY <1>4, <1>5, <1>6, <1>7, <1>8, <1>9, <1>10, <1>11, <1>12, <1>13 DEF GenInv

\* After the configuration is complete nothing that is known of it changes.
LEMMA ConfigurationStays ==
    ASSUME GenInv, UNCHANGED <<yaml, config, errs>>,
           pc \in {"complete", "monobase"} \cup Generating,
           pc' \in {"monobase", "done", "failed"} \cup Generating
    PROVE  ErrorsOfStep' /\ ReadFromYaml' /\ CudaIsChosen' /\ CudaIsKnown'
<1>1. /\ pc \notin Loading \cup BeforeCuda \cup {"environment", "failed"}
      /\ pc' \notin Loading \cup BeforeCuda \cup {"environment", "complete"}
  BY DEF Generating, AfterBase, AfterPython, AfterApt, AfterPip, Loading, BeforeCuda
<1>2. errs = {} /\ errs' = {} BY <1>1 DEF GenInv, ErrorsOfStep
<1>3. ErrorsOfStep' BY <1>2 DEF ErrorsOfStep
<1>4. ReadFromYaml' BY <1>1 DEF ReadFromYaml
<1>5. CudaIsChosen' BY <1>1, <1>2 DEF CudaIsChosen
<1>6. CudaIsKnown' BY <1>1 DEF GenInv, CudaIsKnown
<1> QED BY <1>3, <1>4, <1>5, <1>6

\* A command begins to make its Dockerfile.
LEMMA NewGeneratorKeeps ==
    ASSUME GenInv, NewGenerator
    PROVE  GenInv'
<1> USE DEF Fault, NoFault
<1>1. /\ pc = "complete" /\ UNCHANGED <<yaml, config, errs, request, parts, dockerfile>>
      /\ pc' \in {"base", "monobase", "failed"} /\ faults' \in Nat
      /\ command \in {"none", "base"} /\ config \in CogYaml
      /\ command = "base" => pc' = "base" /\ UNCHANGED <<command, useCog, useCuda, faults>>
      /\ command = "none" => \/ pc' = "failed" /\ command' \in {"none", "fast"}
                             \/ pc' = "base" /\ command' = "build"
                             \/ pc' = "monobase" /\ command' = "fast"
      /\ useCog' \in {"auto", "true", "false"} /\ useCuda' \in BOOLEAN
  BY DEF NewGenerator, GenInv, GenTypeOK, StepOfCommand, Completing, BeforeCuda, Loading
<1>2. pc' \in {"monobase", "done", "failed"} \cup Generating
  BY <1>1 DEF Generating
<1>3. ErrorsOfStep' /\ ReadFromYaml' /\ CudaIsChosen' /\ CudaIsKnown'
  BY <1>1, <1>2, ConfigurationStays
<1>4. GenTypeOK'
  BY <1>1, <1>2 DEF GenInv, GenTypeOK, Steps, Loading, Completing, BeforeCuda, Generating
<1>5. StepOfCommand'
  BY <1>1 DEF GenInv, StepOfCommand, Loading, Completing, BeforeCuda, Generating, AfterBase,
         AfterPython, AfterApt, AfterPip
<1>6. BaseImageIsMade'
  <2> SUFFICES ASSUME command = "base" PROVE BaseImageIsMade'
    BY <1>1 DEF BaseImageIsMade
  <2>1. HasImage(config') <=> HasImage(config) BY <1>1
  <2> QED BY <1>1, <2>1 DEF GenInv, BaseImageIsMade, Made, BeforeCuda
<1>7. FromIsKnown'
  BY <1>1 DEF FromIsKnown, AfterBase, AfterPython, AfterApt, AfterPip
<1>8. PartsAreMade' BY <1>1 DEF PartsAreMade, AfterPython, AfterApt, AfterPip
<1>9. MonobaseIsFrom' BY <1>1 DEF MonobaseIsFrom
<1> QED BY <1>3, <1>4, <1>5, <1>6, <1>7, <1>8, <1>9 DEF GenInv

\* Monobase is told the versions, or the command fails.
LEMMA MonobaseKeeps ==
    ASSUME GenInv, GenerateMonobase
    PROVE  GenInv'
<1>1. /\ pc = "monobase" /\ pc' \in {"done", "failed"}
      /\ UNCHANGED <<yaml, config, errs, command, request, useCog, useCuda, parts, faults>>
      /\ command = "fast" /\ config \in CogYaml
  BY DEF GenerateMonobase, NoFault, GenInv, GenTypeOK, StepOfCommand, Loading
<1>2. ErrorsOfStep' /\ ReadFromYaml' /\ CudaIsChosen' /\ CudaIsKnown'
  BY <1>1, ConfigurationStays
<1>3. GenTypeOK' BY <1>1 DEF GenInv, GenTypeOK, Steps, Loading
<1>4. StepOfCommand'
  BY <1>1 DEF GenInv, StepOfCommand, Loading, Completing, BeforeCuda, Generating, AfterBase,
         AfterPython, AfterApt, AfterPip
<1>5. BaseImageIsMade' BY <1>1 DEF BaseImageIsMade
<1>6. FromIsKnown' /\ PartsAreMade' BY <1>1 DEF FromIsKnown, PartsAreMade
<1>7. MonobaseIsFrom'
  <2> SUFFICES ASSUME pc' = "done" PROVE From'.kind = "monobase"
    BY DEF MonobaseIsFrom
  <2>1. \E x : dockerfile' = Instr("from", x) /\ x.kind = "monobase"
    BY DEF GenerateMonobase
  <2> QED BY <2>1 DEF From, Instr
<1> QED BY <1>2, <1>3, <1>4, <1>5, <1>6, <1>7 DEF GenInv

PartsType(p) ==
    /\ p = [from |-> p.from, python |-> p.python, apt |-> p.apt,
            run |-> p.run, pip |-> p.pip, cog |-> p.cog]
    /\ p.run \in BOOLEAN /\ p.cog \in BOOLEAN

\* A step of the standard generator.
LEMMA GeneratingKeeps ==
    ASSUME GenInv, pc \in Generating, pc' \in AfterBase \cup {"failed"},
           UNCHANGED <<yaml, config, errs, command, request, useCuda>>,
           faults' \in Nat, PartsType(parts'),
           useCog' \in {"auto", "true", "false"},
           command = "base" => useCog' = useCog /\ (pc' = "failed" => faults' > 0)
    PROVE  /\ GenTypeOK' /\ StepOfCommand' /\ ErrorsOfStep' /\ ReadFromYaml'
           /\ CudaIsChosen' /\ CudaIsKnown' /\ BaseImageIsMade' /\ MonobaseIsFrom'
           /\ command \in {"base", "build"} /\ config \in CogYaml
           /\ PartsType(parts) /\ useCog \in {"auto", "true", "false"} /\ faults \in Nat
<1>1. /\ pc \notin Loading \cup Completing \cup {"failed", "monobase", "done"}
      /\ pc' \notin Loading \cup Completing \cup {"monobase", "base"}
      /\ pc' \in {"monobase", "done", "failed"} \cup Generating
  BY DEF Loading, Completing, BeforeCuda, Generating, AfterBase, AfterPython, AfterApt, AfterPip
<1>2. /\ command \in {"base", "build"} /\ config \in CogYaml
      /\ PartsType(parts) /\ useCog \in {"auto", "true", "false"} /\ faults \in Nat
  BY <1>1 DEF GenInv, GenTypeOK, StepOfCommand, PartsType
<1>3. ErrorsOfStep' /\ ReadFromYaml' /\ CudaIsChosen' /\ CudaIsKnown'
  BY <1>1, ConfigurationStays
<1>4. GenTypeOK'
  <2>1. pc' \in Steps BY <1>1 DEF Steps
  <2> QED BY <1>1, <1>2, <2>1 DEF GenInv, GenTypeOK, PartsType
<1>5. StepOfCommand'
  BY <1>1, <1>2 DEF GenInv, StepOfCommand
<1>6. BaseImageIsMade'
  <2> SUFFICES ASSUME command = "base" PROVE BaseImageIsMade'
    BY DEF BaseImageIsMade
  <2>1. Made' = Made BY DEF Made
  <2>2. pc' \notin BeforeCuda \cup {"environment", "complete", "base"}
    BY <1>1 DEF Completing
  <2>3. /\ request \in BaseImageConfigurations /\ errs = {}
        /\ config = [Made EXCEPT !.lines = config.lines, !.cudnn = config.cudnn]
    BY <1>1 DEF GenInv, BaseImageIsMade
  <2>4. pc' \notin {"validate", "requirements", "cuda"} BY <2>2 DEF BeforeCuda
  <2> QED BY <2>1, <2>2, <2>3, <2>4 DEF BaseImageIsMade
<1>7. MonobaseIsFrom' BY <1>2 DEF MonobaseIsFrom
<1> QED BY <1>2, <1>3, <1>4, <1>5, <1>6, <1>7

\* The base of the image stays what it is.
LEMMA FromStays ==
    ASSUME GenInv, pc \in AfterBase, parts'.from = parts.from,
           UNCHANGED <<config, command, useCog, useCuda>>
    PROVE  FromIsKnown'
<1>1. OwnBase(config)' = OwnBase(config) BY DEF OwnBase
<1>2. CogFrom' = CogFrom BY DEF CogFrom
<1> QED BY <1>1, <1>2 DEF GenInv, FromIsKnown

\* The base of the image: for a base image there is always one.
LEMMA BaseImageKeeps ==
    ASSUME GenInv, BaseImage
    PROVE  GenInv'
<1> USE DEF NoFault
<1>1. /\ pc = "base" /\ pc' \in {"python", "failed"} /\ faults' = faults
      /\ UNCHANGED <<yaml, config, errs, command, request, useCuda, dockerfile>>
      /\ \/ pc' = "failed" /\ useCog' = useCog /\ parts' = parts
         \/ \E from : pc' = "python" /\ parts' = [parts EXCEPT !.from = from]
      /\ useCog' = useCog \/ (useCog = "auto" /\ useCog' = "false")
      /\ pc' = "failed" => useCog = "true" \/ OwnBase(config) = {}
      /\ pc' = "python" =>
            \/ useCog' = useCog /\ useCog # "false" /\ CogBase(config).valid
               /\ parts' = [parts EXCEPT !.from = CogFrom]
            \/ useCog' = "false" /\ \E from \in OwnBase(config) :
                                       parts' = [parts EXCEPT !.from = from]
  <2>1. pc = "base" BY DEF BaseImage
  <2>2. useCog \in {"auto", "true", "false"} BY DEF GenInv, GenTypeOK
  <2>3. CASE /\ useCog # "false" /\ CogBase(config).valid
             /\ Step("base", "python", [parts EXCEPT !.from = CogFrom])
             /\ UNCHANGED useCog /\ NoFault
    BY <2>1, <2>3 DEF Step, At
  <2>4. CASE useCog = "true" /\ Stop("base") /\ NoFault
    BY <2>1, <2>4 DEF Step, Stop, At
  <2>5. CASE \E from \in OwnBase(config) :
               /\ useCog # "true"
               /\ Step("base", "python", [parts EXCEPT !.from = from])
               /\ useCog' = IF useCog = "auto" THEN FellBack(useCog) ELSE useCog
               /\ NoFault
    BY <2>1, <2>2, <2>5 DEF Step, At, FellBack
  <2>6. CASE useCog # "true" /\ OwnBase(config) = {} /\ Stop("base") /\ NoFault
    BY <2>1, <2>6 DEF Step, Stop, At
  <2> QED BY <2>3, <2>4, <2>5, <2>6 DEF BaseImage, CogFrom
<1>2. PartsType(parts) /\ useCog \in {"auto", "true", "false"} /\ faults \in Nat
  BY DEF GenInv, GenTypeOK, PartsType
<1>3. PartsType(parts') BY <1>1, <1>2 DEF PartsType
<1>4. ASSUME command = "base"
      PROVE  useCog' = useCog /\ (pc' = "failed" => faults' > 0)
  <2>1. useCog = "false" BY <1>4 DEF GenInv, StepOfCommand
  <2>2. config.gpu => HasImage(config)
    BY <1>1, <1>4 DEF GenInv, BaseImageIsMade
  <2>3. OwnBase(config) # {}
    BY <2>2, OwnBaseExists DEF OwnBase
  <2> QED BY <1>1, <2>1, <2>3
<1>5. /\ pc \in Generating /\ pc' \in AfterBase \cup {"failed"}
      /\ pc' \notin AfterPython
  BY <1>1 DEF Generating, AfterBase, AfterPython, AfterApt, AfterPip
<1>6. /\ GenTypeOK' /\ StepOfCommand' /\ ErrorsOfStep' /\ ReadFromYaml'
      /\ CudaIsChosen' /\ CudaIsKnown' /\ BaseImageIsMade' /\ MonobaseIsFrom'
  BY <1>1, <1>2, <1>3, <1>4, <1>5, GeneratingKeeps
<1>7. FromIsKnown'
  <2>1. OwnBase(config)' = OwnBase(config) /\ CogFrom' = CogFrom
    BY <1>1 DEF OwnBase, CogFrom
  <2>2. \A x : [parts EXCEPT !.from = x].from = x BY <1>2 DEF PartsType
  <2>3. pc' = "failed" => pc' \notin AfterBase
    BY DEF AfterBase, AfterPython, AfterApt, AfterPip
  <2> QED BY <1>1, <2>1, <2>2, <2>3 DEF FromIsKnown
<1>8. PartsAreMade'
  <2>1. pc' \notin AfterPython \cup AfterApt \cup AfterPip \cup {"assemble", "done"}
    BY <1>5 DEF AfterPython, AfterApt, AfterPip
  <2> QED BY <2>1 DEF PartsAreMade
<1> QED BY <1>6, <1>7, <1>8 DEF GenInv

\* The generator stops.
LEMMA StopKeeps ==
    ASSUME GenInv, pc \in Generating, pc' = "failed", UNCHANGED useCog,
           UNCHANGED <<yaml, config, errs, command, request, useCuda, parts>>,
           faults' \in Nat, command = "base" => faults' > 0
    PROVE  GenInv'
<1>1. PartsType(parts') /\ useCog' \in {"auto", "true", "false"}
  BY DEF GenInv, GenTypeOK, PartsType
<1>2. /\ GenTypeOK' /\ StepOfCommand' /\ ErrorsOfStep' /\ ReadFromYaml'
      /\ CudaIsChosen' /\ CudaIsKnown' /\ BaseImageIsMade' /\ MonobaseIsFrom'
  BY <1>1, GeneratingKeeps
<1>3. FromIsKnown' /\ PartsAreMade'
  BY DEF FromIsKnown, PartsAreMade, AfterBase, AfterPython, AfterApt, AfterPip
<1> QED BY <1>2, <1>3 DEF GenInv

\* The generator makes another part.
LEMMA PartKeeps ==
    ASSUME GenInv, pc \in AfterBase \ {"done"}, pc' \in AfterPython,
           UNCHANGED <<yaml, config, errs, command, request, useCog, useCuda, faults>>,
           PartsType(parts'), parts'.from = parts.from, PartsAreMade'
    PROVE  GenInv'
<1>1. /\ pc \in Generating /\ pc' \in AfterBase /\ pc' # "failed"
  BY DEF Generating, AfterBase, AfterPython, AfterApt, AfterPip
<1>2. useCog' \in {"auto", "true", "false"} /\ faults' \in Nat
  BY DEF GenInv, GenTypeOK
<1>3. /\ GenTypeOK' /\ StepOfCommand' /\ ErrorsOfStep' /\ ReadFromYaml'
      /\ CudaIsChosen' /\ CudaIsKnown' /\ BaseImageIsMade' /\ MonobaseIsFrom'
  BY <1>1, <1>2, GeneratingKeeps
<1>4. FromIsKnown' BY FromStays
<1> QED BY <1>3, <1>4 DEF GenInv

\* Python is a part on a CUDA image only.
LEMMA InstallPythonKeeps ==
    ASSUME GenInv, InstallPython
    PROVE  GenInv'
<1> DEFINE python == IF config.gpu /\ useCuda /\ ~IsUsingCogBaseImage
                     THEN config.python ELSE None
<1>1. /\ pc = "python" /\ pc' = "apt" /\ parts' = [parts EXCEPT !.python = python]
      /\ UNCHANGED <<yaml, config, errs, command, request, useCog, useCuda, faults>>
  BY DEF InstallPython, Step, At, NoFault
<1>2. PartsType(parts) BY DEF GenInv, GenTypeOK, PartsType
<1>3. python' = python BY <1>1 DEF IsUsingCogBaseImage
<1> HIDE DEF python
<1>4. PartsType(parts') /\ parts'.from = parts.from /\ parts'.python = python
  BY <1>1, <1>2 DEF PartsType
<1>5. PartsAreMade'
  BY <1>1, <1>3, <1>4 DEF PartsAreMade, AfterPython, AfterApt, AfterPip, python
<1> QED BY <1>1, <1>4, <1>5, PartKeeps DEF AfterBase, AfterPython, AfterApt, AfterPip

\* The system packages that a base image of Cog has not.
LEMMA AptKeeps ==
    ASSUME GenInv, AptInstalls
    PROVE  GenInv'
<1> DEFINE python == IF config.gpu /\ useCuda /\ ~IsUsingCogBaseImage
                     THEN config.python ELSE None
           apt == IF IsUsingCogBaseImage THEN config.system \ BasePackages
                  ELSE config.system
<1>1. /\ pc = "apt" /\ pc' = "run" /\ parts' = [parts EXCEPT !.apt = apt]
      /\ UNCHANGED <<yaml, config, errs, command, request, useCog, useCuda, faults>>
  BY DEF AptInstalls, Step, At, NoFault
<1>2. PartsType(parts) BY DEF GenInv, GenTypeOK, PartsType
<1>3. python' = python /\ apt' = apt BY <1>1 DEF IsUsingCogBaseImage
<1>4. command # "fast" => parts.python = python
  BY <1>1 DEF GenInv, PartsAreMade, AfterPython, AfterApt
<1> HIDE DEF python, apt
<1>5. /\ PartsType(parts') /\ parts'.from = parts.from
      /\ parts'.python = parts.python /\ parts'.apt = apt
  BY <1>1, <1>2 DEF PartsType
<1>6. PartsAreMade'
  BY <1>1, <1>3, <1>4, <1>5 DEF PartsAreMade, AfterPip, python, apt
<1> QED BY <1>1, <1>5, <1>6, PartKeeps DEF AfterBase, AfterPython, AfterApt, AfterPip

\* What the first two parts are, once they are made.
EarlyParts ==
    command # "fast" =>
        /\ parts.python = IF config.gpu /\ useCuda /\ ~IsUsingCogBaseImage
                          THEN config.python ELSE None
        /\ parts.apt = IF IsUsingCogBaseImage THEN config.system \ BasePackages
                       ELSE config.system

\* They stay what they are.
LEMMA EarlyPartsStay ==
    ASSUME GenInv, pc \in AfterApt,
           UNCHANGED <<config, command, useCog, useCuda>>,
           parts'.python = parts.python, parts'.apt = parts.apt
    PROVE  EarlyParts'
<1>1. EarlyParts BY DEF GenInv, PartsAreMade, AfterPython, EarlyParts
<1>2. IsUsingCogBaseImage' = IsUsingCogBaseImage BY DEF IsUsingCogBaseImage
<1> QED BY <1>1, <1>2 DEF EarlyParts

\* The commands of a configuration; those of a base image have no line break.
LEMMA RunKeeps ==
    ASSUME GenInv, RunCommands
    PROVE  GenInv'
<1>1. PartsType(parts) /\ faults \in Nat BY DEF GenInv, GenTypeOK, PartsType
<1>2. CASE config.newline
  <2>1. /\ pc = "run" /\ pc' = "failed"
        /\ UNCHANGED <<yaml, config, errs, command, request, useCog, useCuda, parts, faults>>
    BY <1>2 DEF RunCommands, Stop, Step, At, NoFault
  <2>2. command # "base"
    <3> SUFFICES ASSUME command = "base" PROVE FALSE OBVIOUS
    <3>1. /\ config = [Made EXCEPT !.lines = config.lines, !.cudnn = config.cudnn]
          /\ request \in BaseImageConfigurations
      BY <2>1 DEF GenInv, BaseImageIsMade
    <3>2. Made \in CogYaml /\ ~Made.newline BY <3>1, MadeIs DEF Made
    <3>3. config.newline = Made.newline BY <3>1, <3>2 DEF CogYaml
    <3> QED BY <1>2, <3>2, <3>3
  <2> QED BY <1>1, <2>1, <2>2, StopKeeps DEF Generating, AfterBase, AfterPython, AfterApt
<1>3. CASE ~config.newline
  <2>1. /\ pc = "run" /\ pc' = "pip" /\ parts' = [parts EXCEPT !.run = TRUE]
        /\ UNCHANGED <<yaml, config, errs, command, request, useCog, useCuda, faults>>
    BY <1>3 DEF RunCommands, Step, At, NoFault
  <2>2. /\ PartsType(parts') /\ parts'.from = parts.from
        /\ parts'.python = parts.python /\ parts'.apt = parts.apt
    BY <1>1, <2>1 DEF PartsType
  <2>3. EarlyParts' BY <2>1, <2>2, EarlyPartsStay DEF AfterApt
  <2>4. PartsAreMade' BY <2>1, <2>3 DEF PartsAreMade, EarlyParts, AfterPip
  <2> QED BY <2>1, <2>2, <2>4, PartKeeps DEF AfterBase, AfterPython, AfterApt, AfterPip
<1> QED BY <1>2, <1>3

\* The resolved requirements.
LEMMA PipKeeps ==
    ASSUME GenInv, PipInstalls
    PROVE  GenInv'
<1> DEFINE pip == PythonRequirementsForArch(config)
<1>1. PartsType(parts) /\ faults \in Nat BY DEF GenInv, GenTypeOK, PartsType
<1>2. CASE /\ Step("pip", "cog", [parts EXCEPT !.pip = pip])
           /\ NoFault /\ UNCHANGED useCog
  <2>1. /\ pc = "pip" /\ pc' = "cog" /\ parts' = [parts EXCEPT !.pip = pip]
        /\ UNCHANGED <<yaml, config, errs, command, request, useCog, useCuda, faults>>
    BY <1>2 DEF Step, At, NoFault
  <2>2. pip' = pip BY <2>1
  <2> HIDE DEF pip
  <2>3. /\ PartsType(parts') /\ parts'.from = parts.from /\ parts'.pip = pip
        /\ parts'.python = parts.python /\ parts'.apt = parts.apt
    BY <1>1, <2>1 DEF PartsType
  <2>4. EarlyParts' BY <2>1, <2>3, EarlyPartsStay DEF AfterApt
  <2>5. PartsAreMade' BY <2>1, <2>2, <2>3, <2>4 DEF PartsAreMade, EarlyParts, pip
  <2> QED BY <2>1, <2>3, <2>5, PartKeeps DEF AfterBase, AfterPython, AfterApt, AfterPip
<1>3. CASE Stop("pip") /\ Fault
  <2>1. /\ pc = "pip" /\ pc' = "failed" /\ faults' = faults + 1
        /\ UNCHANGED <<yaml, config, errs, command, request, useCog, useCuda, parts>>
    BY <1>3 DEF Stop, Step, At, Fault
  <2> QED BY <1>1, <2>1, StopKeeps DEF Generating, AfterBase, AfterPython, AfterApt
<1> QED BY <1>2, <1>3 DEF PipInstalls

\* Cog, unless the configuration brings its own.
LEMMA InstallCogKeeps ==
    ASSUME GenInv, InstallCog
    PROVE  GenInv'
<1> DEFINE cog == ~NoCogNeeded
<1>1. PartsType(parts) /\ faults \in Nat BY DEF GenInv, GenTypeOK, PartsType
<1>2. CASE /\ Step("cog", "assemble", [parts EXCEPT !.cog = cog])
           /\ NoFault /\ UNCHANGED useCog
  <2>1. /\ pc = "cog" /\ pc' = "assemble" /\ parts' = [parts EXCEPT !.cog = cog]
        /\ UNCHANGED <<yaml, config, errs, command, request, useCog, useCuda, faults>>
    BY <1>2 DEF Step, At, NoFault
  <2>2. cog' = cog /\ cog \in BOOLEAN BY <2>1 DEF NoCogNeeded
  <2> HIDE DEF cog
  <2>3. /\ PartsType(parts') /\ parts'.from = parts.from /\ parts'.cog = cog
        /\ parts'.python = parts.python /\ parts'.apt = parts.apt
        /\ parts'.pip = parts.pip
    BY <1>1, <2>1, <2>2 DEF PartsType
  <2>4. EarlyParts' BY <2>1, <2>3, EarlyPartsStay DEF AfterApt, AfterPip
  <2>5. command # "fast" => parts.pip = PythonRequirementsForArch(config)
    BY <2>1 DEF GenInv, PartsAreMade, AfterPip
  <2>6. PartsAreMade'
    BY <2>1, <2>2, <2>3, <2>4, <2>5 DEF PartsAreMade, EarlyParts, cog
  <2> QED BY <2>1, <2>3, <2>6, PartKeeps DEF AfterBase, AfterPython, AfterApt, AfterPip
<1>3. CASE Stop("cog") /\ ~NoCogNeeded /\ (Fault \/ NoFault)
  <2>1. /\ pc = "cog" /\ pc' = "failed" /\ faults' \in Nat
        /\ UNCHANGED <<yaml, config, errs, command, request, useCog, useCuda, parts>>
        /\ command # "base"
    BY <1>1, <1>3 DEF Stop, Step, At, Fault, NoFault, NoCogNeeded
  <2> QED BY <2>1, StopKeeps DEF Generating, AfterBase, AfterPython, AfterApt, AfterPip
<1> QED BY <1>2, <1>3 DEF InstallCog

\* The Dockerfile is made of the parts.
LEMMA AssembleKeeps ==
    ASSUME GenInv, GenerateInitialSteps
    PROVE  GenInv'
<1>1. /\ pc = "assemble" /\ pc' = "done" /\ dockerfile' = InitialSteps
      /\ UNCHANGED <<yaml, config, errs, command, request, useCog, useCuda, parts, faults>>
  BY DEF GenerateInitialSteps, At, NoFault
<1>2. PartsType(parts') BY <1>1 DEF GenInv, GenTypeOK, PartsType
<1>3. EarlyParts' BY <1>1, EarlyPartsStay DEF AfterApt, AfterPip
<1>4. InitialSteps' = InitialSteps /\ (NoCogNeeded' <=> NoCogNeeded)
  BY <1>1 DEF InitialSteps, Installs, IsUsingCogBaseImage, NoCogNeeded
<1>5. command # "fast" => /\ parts.pip = PythonRequirementsForArch(config)
                          /\ parts.cog = ~NoCogNeeded
  BY <1>1 DEF GenInv, PartsAreMade, AfterPip
<1>6. PartsAreMade'
  BY <1>1, <1>3, <1>4, <1>5 DEF PartsAreMade, EarlyParts
<1> QED BY <1>1, <1>2, <1>6, PartKeeps DEF AfterBase, AfterPython, AfterApt, AfterPip

-----------------------------------------------------------------------------
(* The theorems                                                            *)

\* Where nothing changes the invariant stays.
LEMMA GenStutter == GenInv /\ UNCHANGED vars => GenInv'
<1> SUFFICES ASSUME GenInv, UNCHANGED vars PROVE GenInv' OBVIOUS
<1> USE DEF vars, configVars, genVars
<1>1. GenTypeOK' BY DEF GenInv, GenTypeOK
<1>2. StepOfCommand' BY DEF GenInv, StepOfCommand
<1>3. ErrorsOfStep' BY DEF GenInv, ErrorsOfStep
<1>4. ReadFromYaml' BY DEF GenInv, ReadFromYaml
<1>5. CudaIsChosen'
  <2>1. LeftToCog' <=> LeftToCog BY DEF LeftToCog
  <2> QED BY <2>1 DEF GenInv, CudaIsChosen
<1>6. CudaIsKnown' BY DEF GenInv, CudaIsKnown
<1>7. BaseImageIsMade' BY DEF GenInv, BaseImageIsMade, Made
<1>8. FromIsKnown'
  <2>1. OwnBase(config)' = OwnBase(config) /\ CogFrom' = CogFrom
    BY DEF OwnBase, CogFrom
  <2> QED BY <2>1 DEF GenInv, FromIsKnown
<1>9. PartsAreMade'
  <2>1. /\ InitialSteps' = InitialSteps /\ (NoCogNeeded' <=> NoCogNeeded)
        /\ (IsUsingCogBaseImage' <=> IsUsingCogBaseImage)
    BY DEF InitialSteps, Installs, IsUsingCogBaseImage, NoCogNeeded
  <2> QED BY <2>1 DEF GenInv, PartsAreMade
<1>10. MonobaseIsFrom' BY DEF GenInv, MonobaseIsFrom, From
<1> QED BY <1>1, <1>2, <1>3, <1>4, <1>5, <1>6, <1>7, <1>8, <1>9, <1>10 DEF GenInv

\* What is known of the configuration and of the parts of the Dockerfile at
\* each step of a command holds in every behaviour.
THEOREM GenInvariant == Spec => []GenInv
<1>1. GenInv /\ [Next]_vars => GenInv'
  <2> SUFFICES ASSUME GenInv, [Next]_vars PROVE GenInv' OBVIOUS
  <2>1. CASE ConfigNext /\ UNCHANGED genVars
    BY <2>1, LoadingKeeps, ValidateKeeps, ReadKeeps, PanicKeeps, CompleteKeeps,
       EnvironmentKeeps DEF ConfigNext
  <2>2. CASE NewBaseImageGenerator BY <2>2, NewBaseKeeps
  <2>3. CASE GenNext
    BY <2>3, NewGeneratorKeeps, BaseImageKeeps, InstallPythonKeeps, AptKeeps, RunKeeps,
       PipKeeps, InstallCogKeeps, AssembleKeeps, MonobaseKeeps DEF GenNext
  <2>4. CASE UNCHANGED vars BY <2>4, GenStutter
  <2> QED BY <2>1, <2>2, <2>3, <2>4 DEF Next
<1> QED BY <1>1, GenInit, PTL DEF Spec

\* A model for GPUs that leaves the versions of CUDA and cuDNN to Cog, with
\* no PyTorch or with a release that has an image, is given versions that have
\* an image.
THEOREM PyTorchAlwaysCompletes == Spec => []PyTorchCompletes
<1>1. GenInv => PyTorchCompletes
  BY DEF GenInv, ErrorsOfStep, CudaIsChosen, PyTorchCompletes
<1> QED BY <1>1, GenInvariant, PTL

\* The PyTorch and the torchvision of a release are installed for one CUDA
\* version, not later than that of the configuration.
THEOREM AlwaysOneCUDA == Spec => []OneCUDAForTorch
<1>1. GenInv => OneCUDAForTorch
  <2> SUFFICES ASSUME GenInv, pc = "done", config.gpu PROVE OneCUDAForTorch
    BY DEF OneCUDAForTorch
  <2>1. config \in CogYaml /\ config.lines \in Seq(PackageLine)
    BY DEF GenInv, GenTypeOK, Loading, CogYaml
  <2>2. CASE command = "fast"
    <3>1. parts.pip = <<>> BY <2>2 DEF GenInv, StepOfCommand, NoParts
    <3> QED BY <3>1 DEF OneCUDAForTorch
  <2>3. CASE command # "fast"
    <3>1. parts.pip = PythonRequirementsForArch(config)
      BY <2>3 DEF GenInv, PartsAreMade, AfterPip
    <3> QED BY <2>1, <3>1, OneCUDA DEF OneCUDAForTorch
  <2> QED BY <2>2, <2>3
<1> QED BY <1>1, GenInvariant, PTL

\* What is known of a Dockerfile that the standard generator has made.
LEMMA MadeDockerfile ==
    ASSUME GenInv, pc = "done", command # "fast"
    PROVE  /\ config \in CogYaml /\ command \in {"base", "build"}
           /\ dockerfile = InitialSteps
           /\ parts.run \in BOOLEAN /\ parts.cog \in BOOLEAN
           /\ From = parts.from
           /\ \/ IsUsingCogBaseImage /\ CogBase(config).valid /\ parts.from = CogFrom
              \/ ~IsUsingCogBaseImage /\ parts.from \in OwnBase(config)
           /\ parts.python = IF config.gpu /\ useCuda /\ ~IsUsingCogBaseImage
                             THEN config.python ELSE None
           /\ parts.apt = IF IsUsingCogBaseImage THEN config.system \ BasePackages
                          ELSE config.system
           /\ parts.pip = PythonRequirementsForArch(config)
           /\ parts.cog = ~NoCogNeeded
<1>1. /\ config \in CogYaml /\ command \in {"base", "build"}
      /\ parts.run \in BOOLEAN /\ parts.cog \in BOOLEAN
  BY DEF GenInv, GenTypeOK, StepOfCommand, Loading
<1>2. dockerfile = InitialSteps
  BY DEF GenInv, PartsAreMade
<1>3. From = parts.from
  BY <1>1, <1>2, InitialStepsAre DEF From, I
<1>4. \/ IsUsingCogBaseImage /\ CogBase(config).valid /\ parts.from = CogFrom
      \/ ~IsUsingCogBaseImage /\ parts.from \in OwnBase(config)
  BY DEF GenInv, FromIsKnown, IsUsingCogBaseImage, AfterBase, AfterPython, AfterApt, AfterPip
<1>5. /\ parts.python = IF config.gpu /\ useCuda /\ ~IsUsingCogBaseImage
                        THEN config.python ELSE None
      /\ parts.apt = IF IsUsingCogBaseImage THEN config.system \ BasePackages
                     ELSE config.system
      /\ parts.pip = PythonRequirementsForArch(config)
      /\ parts.cog = ~NoCogNeeded
  BY DEF GenInv, PartsAreMade, AfterPython, AfterApt, AfterPip
<1> QED BY <1>1, <1>2, <1>3, <1>4, <1>5

\* The name of the base image of Cog that is used: one that is published,
\* with the Python of the configuration and, if it has PyTorch, with one that
\* the configuration asks for.
LEMMA CogFromIs ==
    ASSUME config \in CogYaml, CogBase(config).valid
    PROVE  /\ CogFrom.kind = "cog"
           /\ CogFrom.python # None /\ Matches(CogFrom.python, config.python)
           /\ \E c \in BaseImageConfigurations :
                 BaseImageName(c) = Configuration(CogFrom.cuda, CogFrom.python, CogFrom.torch)
           /\ CogFrom.torch # None =>
                 /\ HasVersion(config.lines, "torch")
                 /\ Matches(PackageVersion(config.lines, "torch"), CogFrom.torch)
<1> DEFINE asked == PackageVersion(config.lines, "torch")
           torch == IF asked = <<>> THEN None ELSE asked
           python == StripPatch(config.python)
           n == BaseImageComponentNormalisation(config.cuda, python, torch)
           name == BaseImageName(n)
<1>1. CogBase(config).valid = Valid(n) /\ CogBase(config).name = name
  BY DEF CogBase
<1>2. config.cuda \in Version \cup {None} /\ config.python \in Version
  BY DEF CogYaml
<1>3. /\ python \in Version /\ StripPatch(python) = python
      /\ Matches(python, config.python)
  BY <1>2, StripMatches
<1> HIDE DEF asked, python
<1>4. /\ n = Configuration(config.cuda, python, n.torch)
      /\ n.cuda = config.cuda /\ n.python = python
      /\ n.torch \in [1 .. 3 -> Nat] \cup {None}
      /\ n.torch # None =>
            \E c \in Compatible(config.cuda, python, torch) : c.torch = n.torch
  BY Normalised
<1> HIDE DEF n
<1>5. Compatible(n.cuda, n.python, n.torch) # {}
  <2>1. Valid(n) BY <1>1
  <2> QED BY <2>1 DEF Valid
<1>6. /\ \E c \in BaseImageConfigurations : BaseImageName(c) = name
      /\ name.torch # None => name.torch = n.torch
      /\ name.python = python
      /\ name = Configuration(name.cuda, name.python, name.torch)
  <2> DEFINE t == n.torch
             u == config.cuda
             d == Configuration(u, python, t)
  <2>1. /\ u \in Version \cup {None} /\ t \in [1 .. 3 -> Nat] \cup {None}
        /\ Compatible(u, python, t) # {} /\ d = n
    BY <1>2, <1>4, <1>5
  <2> HIDE DEF t, u
  <2>2. LET x == BaseImageName(d)
        IN  /\ \E c \in BaseImageConfigurations : BaseImageName(c) = x
            /\ x.torch # None => x.torch = t
            /\ x.python = StripPatch(python)
            /\ x = Configuration(x.cuda, x.python, x.torch)
    BY <1>3, <2>1, NameIsPublished
  <2> HIDE DEF d
  <2> QED BY <1>3, <2>1, <2>2 DEF t
<1>7. CogFrom = [kind |-> "cog", cuda |-> name.cuda, python |-> name.python,
                 torch |-> name.torch]
  BY <1>1 DEF CogFrom
<1>8. name.torch # None => asked \notin {None, <<>>} /\ Matches(asked, name.torch)
  BY <1>4, <1>6 DEF Compatible, IsVersionCompatible
<1> HIDE DEF name
<1>9. python # None BY <1>3, TablesAssumption
<1> QED BY <1>3, <1>6, <1>7, <1>8, <1>9 DEF asked, HasVersion

\* A base image of Cog that a build uses is published, and one that is
\* published can be made.
THEOREM BaseImagesAlwaysExist == Spec => []BaseImagesExist
<1>1. GenInv => BaseImagesExist
  <2> SUFFICES ASSUME GenInv PROVE BaseImageIsPublished /\ PublishedCanBeMade
    BY DEF BaseImagesExist
  <2>1. PublishedCanBeMade
    BY DEF GenInv, BaseImageIsMade, PublishedCanBeMade
  <2>2. BaseImageIsPublished
    <3> SUFFICES ASSUME pc = "done", From.kind = "cog" PROVE BaseImageIsPublished
      BY DEF BaseImageIsPublished
    <3>1. command # "fast" BY DEF GenInv, MonobaseIsFrom
    <3>2. config \in CogYaml /\ CogBase(config).valid /\ From = CogFrom
      <4>1. \A from \in OwnBase(config) : from.kind # "cog" BY DEF OwnBase
      <4> QED BY <3>1, <4>1, MadeDockerfile
    <3> QED BY <3>2, CogFromIs DEF BaseImageIsPublished
  <2> QED BY <2>1, <2>2
<1> QED BY <1>1, GenInvariant, PTL

\* A Dockerfile of the standard generator gives the image the Python, the
\* system packages, the frameworks, the init and the Cog that are asked for,
\* each before what needs it.
THEOREM ImageAlwaysHasWhatIsAsked == Spec => []ImageHasWhatIsAsked
<1>1. GenInv => ImageHasWhatIsAsked
  <2> SUFFICES ASSUME GenInv, pc = "done", command # "fast"
               PROVE  ImageHasWhatIsAsked
    BY DEF ImageHasWhatIsAsked
  <2> DEFINE d == dockerfile
  <2>1. /\ config \in CogYaml /\ command \in {"base", "build"}
        /\ From = parts.from
        /\ \/ IsUsingCogBaseImage /\ CogBase(config).valid /\ parts.from = CogFrom
           \/ ~IsUsingCogBaseImage /\ parts.from \in OwnBase(config)
        /\ parts.python = IF config.gpu /\ useCuda /\ ~IsUsingCogBaseImage
                          THEN config.python ELSE None
        /\ parts.apt = IF IsUsingCogBaseImage THEN config.system \ BasePackages
                       ELSE config.system
        /\ parts.pip = PythonRequirementsForArch(config)
        /\ parts.cog = ~NoCogNeeded
    BY MadeDockerfile
  <2>2. /\ Rows(d) \subseteq Instructions
        /\ parts.apt # {} => I("apt", parts.apt) \in Rows(d)
        /\ ~IsUsingCogBaseImage => I("tini", None) \in Rows(d)
        /\ ~IsUsingCogBaseImage /\ parts.python # None =>
              I("python", parts.python) \in Rows(d)
        /\ parts.pip # <<>> => I("pip", parts.pip) \in Rows(d)
        /\ parts.cog => I("cog", None) \in Rows(d)
        /\ \A i, j \in DOMAIN d : d[i] \in Starting /\ d[j] \in Installing => i < j
        /\ \A i, j \in DOMAIN d : d[i] \in Installing /\ d[j] = I("run", None) => i < j
    BY MadeDockerfile, InitialStepsAre
  <2>3. /\ config.python \in Version /\ config.python # None
        /\ config.lines \in Seq(PackageLine)
    BY <2>1, TablesAssumption DEF CogYaml
  <2>4. \A i \in DOMAIN d :
          /\ d[i] \in Rows(d) /\ d[i] \in Instructions
          /\ d[i].op \in {"pip", "cog"} => d[i] \in Installing
          /\ d[i].op = "run" => d[i] = I("run", None)
          /\ d[i].op = "python" => d[i] \in Starting
    <3> TAKE i \in DOMAIN d
    <3>1. d[i] \in Rows(d) BY DEF Rows
    <3>2. d[i] \in Instructions BY <2>2, <3>1
    <3> QED BY <3>1, <3>2 DEF Instructions, Starting, Installing, I
  <2>5. \A op, x : I(op, x) \in Rows(d) =>
                     \E i \in Done(op) : i \in DOMAIN d /\ d[i] = I(op, x) /\ d[i].arg = x
    BY DEF Rows, Done, I
  <2>6. \/ From.python # None /\ Matches(From.python, config.python)
        \/ \E i \in Done("python") :
              /\ d[i].arg = config.python
              /\ \A j \in Done("pip") \cup Done("cog") : i < j
    <3>1. CASE IsUsingCogBaseImage
      BY <2>1, <3>1, CogFromIs
    <3>2. CASE ~IsUsingCogBaseImage /\ config.gpu /\ useCuda
      <4>1. parts.python = config.python BY <2>1, <3>2
      <4>2. PICK i \in Done("python") : i \in DOMAIN d /\ d[i].arg = config.python
        BY <2>2, <2>3, <2>5, <3>2, <4>1
      <4>3. \A j \in Done("pip") \cup Done("cog") : i < j
        BY <2>2, <2>4 DEF Done
      <4> QED BY <4>2, <4>3
    <3>3. CASE ~IsUsingCogBaseImage /\ ~(config.gpu /\ useCuda)
      <4>1. From.python = config.python BY <2>1, <3>3 DEF OwnBase
      <4> QED BY <2>3, <4>1 DEF Matches
    <3> QED BY <3>1, <3>2, <3>3
  <2>7. config.system \subseteq
          (IF From.kind = "cog" THEN BasePackages ELSE {})
          \cup UNION {d[i].arg : i \in Done("apt")}
    <3>1. IsUsingCogBaseImage => From.kind = "cog" BY <2>1, CogFromIs
    <3>2. config.system \subseteq BasePackages \cup parts.apt
          /\ (~IsUsingCogBaseImage => config.system = parts.apt)
      BY <2>1
    <3>3. parts.apt \subseteq UNION {d[i].arg : i \in Done("apt")}
      <4>1. parts.apt # {} => \E i \in Done("apt") : d[i].arg = parts.apt
        BY <2>2, <2>5
      <4> QED BY <4>1
    <3> QED BY <3>1, <3>2, <3>3
  <2>8. From.kind = "cog" \/ Done("tini") # {}
    <3>1. CASE IsUsingCogBaseImage BY <2>1, <3>1, CogFromIs
    <3>2. CASE ~IsUsingCogBaseImage BY <2>2, <2>5, <3>2
    <3> QED BY <3>1, <3>2
  <2>9. \A n \in {config.lines[i].name : i \in DOMAIN config.lines} :
           \E i \in Done("pip") : Named(d[i].arg, n) # {}
    <3> SUFFICES ASSUME NEW l \in DOMAIN config.lines
                 PROVE  \E i \in Done("pip") : Named(d[i].arg, config.lines[l].name) # {}
      OBVIOUS
    <3>1. Named(parts.pip, config.lines[l].name) # {}
      BY <2>1, <2>3, RequirementsCover
    <3>2. parts.pip # <<>> BY <3>1 DEF Named
    <3>3. PICK i \in Done("pip") : d[i].arg = parts.pip BY <2>2, <2>5, <3>2
    <3> QED BY <3>1, <3>3
  <2>10. command = "build" /\ Named(config.lines, "coglet") = {} => Done("cog") # {}
    BY <2>1, <2>2, <2>5 DEF NoCogNeeded
  <2>11. \A i \in Done("run"), j \in Done("pip") \cup Done("cog") : j < i
    BY <2>2, <2>4 DEF Done
  <2> QED BY <2>6, <2>7, <2>8, <2>9, <2>10, <2>11 DEF ImageHasWhatIsAsked
<1> QED BY <1>1, GenInvariant, PTL

-----------------------------------------------------------------------------
(* The steps of a build, in order                                          *)

Validating == {"head", "get", "copy", "requirements"}
Cleaning == {"clean", "ignoreCheck"}
BeforeSwap == Validating \cup Cleaning
              \cup {"dockerfile", "generator", "baseImage", "base", "plain", "separate",
                    "backup"}
SwapBegun == {"manifest", "weightsBackup", "weightsIgnore"}
WeightsBuilt == {"saveManifest", "encodeManifest"}
Swapping == SwapBegun \cup WeightsBuilt
            \cup {"weightsFill", "weightsImage", "runnerIgnore", "runnerFill",
                  "runnerImage", "unlinkIgnore", "restoreIgnore"}
SchemaChecked == {"pipFreeze", "dependencies", "baseLabels", "labelImage"}
SchemaWritten == {"validateSchema"} \cup SchemaChecked
SchemaRead == {"writeSchema"} \cup SchemaWritten
AfterSwap == {"schema"} \cup SchemaRead
PC == BeforeSwap \cup Swapping \cup AfterSwap \cup {"idle", "end", "cleanup"}

Modes == {"dockerfile", "plain", "separate", "base"}
Tag == Names \cup {BaseName}

\* Each step belongs to some of the modes.
StepsOfMode ==
    /\ pc \in {"separate", "backup"} \cup Swapping => req.mode = "separate"
    /\ pc = "plain" => req.mode = "plain"
    /\ pc \in {"generator", "base"} => req.mode # "dockerfile"
    /\ pc = "dockerfile" => req.mode = "dockerfile"
    /\ pc = "baseImage" => req.mode = "base"
    /\ pc \in Validating \cup Cleaning \cup {"base"} \cup AfterSwap => req.mode # "base"

IsLocal(l) ==
    /\ l = [f \in {"tmp", "weights", "manifest", "base", "schema", "head"} |-> l[f]]
    /\ l.tmp \in BOOLEAN

CallTyped ==
    /\ pc \in PC
    /\ pc # "idle" => req \in Requests
    /\ IsLocal(local)

PatternsTyped ==
    /\ ignoreFile \in (SUBSET Patterns) \cup {None}
    /\ backup \in (SUBSET Patterns) \cup {None}
    /\ userIgnore \in SUBSET Patterns
    /\ cut \in {"whole", "cut", "saved"}

Requirement == [version : Etags, whole : BOOLEAN]

FilesTyped ==
    /\ tree \in Trees
    /\ tmpDirs \in Nat /\ leaked \in Nat
    /\ reqFiles \in [Etags -> Requirement \cup {None}]
    /\ etag \in Etags

ImagesTyped ==
    /\ images = [n \in Tag |-> images[n]]
    /\ weightsImages = [n \in Names |-> weightsImages[n]]

TypeOK == CallTyped /\ PatternsTyped /\ FilesTyped /\ ImagesTyped

-----------------------------------------------------------------------------
(* .dockerignore                                                           *)

\* .dockerignore, or else its backup.
Present == IF ignoreFile # None THEN ignoreFile ELSE backup

\* A half-written .dockerignore is no loss: what it had to hold is in the backup.
PatternsKept ==
    /\ cut = "whole" => userIgnore \subseteq Lines(Present)
    /\ cut = "cut" => userIgnore \subseteq Lines(backup)
BackupKept == pc \in Swapping /\ cut # "saved" => userIgnore \subseteq Lines(backup)
WrittenForRunner == pc \in {"runnerImage", "unlinkIgnore", "restoreIgnore"} => cut # "cut"
NotGenerated == pc \in SwapBegun \cup {"restoreIgnore"} => ignoreFile = None
GeneratedForRunner ==
    pc = "runnerImage" =>
        ignoreFile = Lines(backup) \cup MakeDockerignoreForWeights(local.weights)

StartKept ==
    /\ pc \in BeforeSwap => startIgnore = Present
    /\ pc \in Swapping => startIgnore = backup
    /\ pc \in AfterSwap /\ req.mode = "separate" => ignoreFile = startIgnore /\ backup = None

IgnoreInv == PatternsKept /\ BackupKept /\ WrittenForRunner /\ NotGenerated
             /\ GeneratedForRunner /\ StartKept /\ SuccessRestoresIgnore

-----------------------------------------------------------------------------
(* The other files under .cog                                              *)

TmpOfBuild ==
    /\ tmpDirs = leaked + (IF local.tmp /\ pc \notin {"idle", "end"} THEN 1 ELSE 0)
    /\ pc \in Validating \cup Cleaning \cup {"dockerfile", "generator"} => ~local.tmp
    /\ pc = "cleanup" => local.tmp

CopyOfVersion == pc = "copy" => local.head \in Etags /\ reqFiles[local.head] # None

WeightsOfTree ==
    pc \in {"backup"} \cup Swapping => local.weights = FindWeights(DOMAIN tree)

JustBuilt == pc \in WeightsBuilt => local.manifest \in built

SchemaRemoved ==
    pc \in (BeforeSwap \ (Validating \cup {"clean"})) \cup Swapping \cup {"schema", "writeSchema"}
        => (req.mode # "base" => schemaFile = None)

FilesInv == TmpOfBuild /\ CopyOfVersion /\ WeightsOfTree /\ JustBuilt /\ SchemaRemoved
            /\ LeftoversAreTrue

-----------------------------------------------------------------------------
(* Images and labels                                                       *)

IsImage(i) == i = [f \in {"layer", "labels", "bundled"} |-> i[f]]

SchemaOfImage ==
    /\ pc \in {"unlinkIgnore", "restoreIgnore"} \cup AfterSwap => IsImage(images[req.name])
    /\ pc \in SchemaRead /\ local.schema.of # None =>
          local.schema.of = images[req.name].layer[Code]
    /\ pc \in SchemaWritten => schemaFile = local.schema
    /\ pc \in SchemaChecked => local.schema.valid

LabelsInv == SchemaOfImage /\ LabelsDescribeImage

\* The inductive invariant.
IInv == TypeOK /\ StepsOfMode /\ IgnoreInv /\ FilesInv /\ LabelsInv

-----------------------------------------------------------------------------
(* Operators                                                               *)

\* What the steps write into the record of the build.
LEMMA LocalUpdates ==
    ASSUME IsLocal(local), NEW v
    PROVE  /\ IsLocal([local EXCEPT !.weights = v])
           /\ [local EXCEPT !.weights = v].weights = v
           /\ [local EXCEPT !.weights = v].tmp = local.tmp
           /\ IsLocal([local EXCEPT !.manifest = v])
           /\ [local EXCEPT !.manifest = v].manifest = v
           /\ [local EXCEPT !.manifest = v].tmp = local.tmp
           /\ [local EXCEPT !.manifest = v].weights = local.weights
           /\ IsLocal([local EXCEPT !.base = v])
           /\ [local EXCEPT !.base = v].tmp = local.tmp
           /\ IsLocal([local EXCEPT !.schema = v])
           /\ [local EXCEPT !.schema = v].schema = v
           /\ [local EXCEPT !.schema = v].tmp = local.tmp
           /\ IsLocal([local EXCEPT !.head = v])
           /\ [local EXCEPT !.head = v].head = v
           /\ [local EXCEPT !.head = v].tmp = local.tmp
           /\ IsLocal([local EXCEPT !.tmp = TRUE])
           /\ [local EXCEPT !.tmp = TRUE].tmp = TRUE
  BY DEF IsLocal

\* A build that has computed nothing yet has nothing to clean up.
LEMMA NoLocalTyped == IsLocal(NoLocal) /\ NoLocal.tmp = FALSE
  BY DEF IsLocal, NoLocal

\* The paths that FindWeights selects are in the model, and code is not among them,
\* wherever they are looked up, but for what is under .git.
LEMMA WeightsAreNoCode ==
    ASSUME NEW t \in Trees, NEW S, S \subseteq DOMAIN t
    PROVE  \A p \in Selected(FindWeights(DOMAIN t), S) : IsCodeFile(p) => IsGitFile(p)
<1> DEFINE w == FindWeights(DOMAIN t)
<1>1. ASSUME NEW p \in S, p \in w.files PROVE ~IsCodeFile(p)
  BY <1>1 DEF FindWeights, ModelFiles
<1>2. ASSUME NEW p \in S, NEW d \in w.dirs, Under(d, p), ~IsGitFile(p) PROVE ~IsCodeFile(p)
  BY <1>2 DEF FindWeights, FilterDirsContainingCode, HasPrefix
<1> QED
  BY <1>1, <1>2 DEF Selected

\* The lines that are written for the weights are paths and directories of the model.
LEMMA WeightsArePatterns ==
    ASSUME NEW t \in Trees
    PROVE  /\ FindWeights(DOMAIN t).files \subseteq Patterns
           /\ FindWeights(DOMAIN t).dirs \subseteq Patterns
           /\ Header \subseteq Patterns
<1> DEFINE ofModel(x) == DOMAIN x \cup {Dir(p) : p \in DOMAIN x}
<1>1. ASSUME NEW l \in ofModel(t) PROVE l \in Patterns
  <2>1. \E x \in Trees : l \in ofModel(x)
    BY <1>1
  <2> HIDE DEF ofModel
  <2>2. l \in UNION {ofModel(x) : x \in Trees}
    BY <2>1, Zenon
  <2>3. Patterns = (UNION UserIgnores) \cup Header \cup (UNION {ofModel(x) : x \in Trees})
    BY Zenon DEF Patterns, ofModel
  <2> QED
    BY <2>2, <2>3
<1>2. FindWeights(DOMAIN t).files \subseteq DOMAIN t
  BY DEF FindWeights, ModelFiles
<1>3. \A d \in FindWeights(DOMAIN t).dirs : \E p \in DOMAIN t : d = Dir(p)
  BY DEF FindWeights, ModelFiles, FilterDirsContainingCode, DirsOf
<1>4. Header \subseteq Patterns
  BY DEF Patterns
<1>5. DOMAIN t \subseteq ofModel(t) /\ \A p \in DOMAIN t : Dir(p) \in ofModel(t)
  OBVIOUS
<1> HIDE DEF ofModel
<1> QED
  BY <1>1, <1>2, <1>3, <1>4, <1>5

\* .dockerignore of the runner's image keeps out what is in the weights.
LEMMA WeightsAreIgnored ==
    ASSUME NEW t \in Trees, NEW p \in DOMAIN t, NEW w, NEW f, f # None,
           p \in Selected(w, DOMAIN t), w.dirs \cup w.files \subseteq f
    PROVE  Ignored(p, f)
<1>1. p \in Seq(STRING)
  BY BuildAssumption
<1>2. Under(p, p)
  BY <1>1 DEF Under, IsPrefix
<1> QED
  BY <1>2 DEF Selected, Ignored, Lines, Under

-----------------------------------------------------------------------------
(* A step that fails                                                       *)

\* The steps of a build, each of which may fail.
BuildSteps ==
    \/ HeadRequirements \/ GetRequirements \/ SaveRequirements \/ CheckRequirements
    \/ RemoveBundledSchema \/ CheckCompatibleDockerIgnore
    \/ BuildFromDockerfile \/ MakeGenerator \/ NameBaseImage \/ PlainBuild \/ BuildBase
    \/ GenerateSeparate \/ BackupDockerignore \/ CompareManifest
    \/ BackupAgain \/ WeightsIgnore \/ BuildWeightsImage
    \/ CreateManifest \/ EncodeManifest \/ RunnerIgnore \/ BuildRunnerImage
    \/ RemoveIgnore \/ RestoreIgnore
    \/ ReadSchema \/ WriteSchema \/ ValidateSchema
    \/ GeneratePipFreeze \/ GenerateModelDependencies \/ BaseLabels \/ LabelImage

Busy == PC \ {"idle", "end", "cleanup"}

\* Where a step of a build fails, nothing but the return happens.
LEMMA FailureAlone ==
    ASSUME BuildSteps, Fail
    PROVE  Env /\ pc \in Busy
<1> USE DEF Busy, PC, BeforeSwap, Validating, Cleaning, Swapping, SwapBegun, WeightsBuilt,
            AfterSwap, SchemaRead, SchemaWritten, SchemaChecked
<1>1. pc' \in {"cleanup", "end"}
  BY DEF Fail, Return
<1>2. CASE HeadRequirements \/ GetRequirements \/ SaveRequirements \/ CheckRequirements
  BY <1>2 DEF HeadRequirements, GetRequirements, SaveRequirements, CheckRequirements
<1>3. CASE \/ RemoveBundledSchema \/ CheckCompatibleDockerIgnore
           \/ BuildFromDockerfile \/ MakeGenerator \/ NameBaseImage \/ PlainBuild \/ BuildBase
  BY <1>3 DEF RemoveBundledSchema, CheckCompatibleDockerIgnore, BuildFromDockerfile,
              MakeGenerator, NameBaseImage, PlainBuild, BuildBase
<1>4. CASE GenerateSeparate \/ CompareManifest
  BY <1>4 DEF GenerateSeparate, CompareManifest
<1>8. CASE BackupDockerignore \/ BackupAgain
  BY <1>1, <1>8 DEF BackupDockerignore, BackupAgain, Goto, Env
<1>9. CASE WeightsIgnore \/ RunnerIgnore
  BY <1>1, <1>9 DEF WeightsIgnore, RunnerIgnore, WriteDockerignore, Goto, Env
<1>5. CASE BuildWeightsImage
  BY <1>1, <1>5 DEF BuildWeightsImage, Goto, Fail, Env, EnvButCut, history
<1>6. CASE \/ CreateManifest \/ EncodeManifest \/ BuildRunnerImage
           \/ RemoveIgnore \/ RestoreIgnore
  BY <1>6 DEF CreateManifest, EncodeManifest, BuildRunnerImage, RemoveIgnore, RestoreIgnore
<1>7. CASE \/ ReadSchema \/ WriteSchema \/ ValidateSchema
           \/ GeneratePipFreeze \/ GenerateModelDependencies \/ BaseLabels \/ LabelImage
  BY <1>7 DEF ReadSchema, WriteSchema, ValidateSchema, GeneratePipFreeze,
              GenerateModelDependencies, BaseLabels, LabelImage
<1> QED
  BY <1>2, <1>3, <1>4, <1>5, <1>6, <1>7, <1>8, <1>9 DEF BuildSteps

\* A failure leaves the invariant: it is the same directory, without a build.
LEMMA FailureKeepsInv ==
    ASSUME IInv, Fail, Env, pc \in Busy
    PROVE  IInv'
<1> USE DEF IInv, Busy, Fail, Return, Env, EnvButCut, dirVars, dockerVars, envVars, history,
            bounds
<1>1. pc' \in {"cleanup", "end"} /\ result' = "error" /\ UNCHANGED <<req, local>>
  OBVIOUS
<1>2. TypeOK'
  BY <1>1 DEF TypeOK, CallTyped, PatternsTyped, FilesTyped, ImagesTyped, PC
<1> USE DEF Validating, Cleaning, BeforeSwap, SwapBegun, WeightsBuilt, Swapping,
            SchemaChecked, SchemaWritten, SchemaRead, AfterSwap
<1>3. StepsOfMode'
  BY <1>1 DEF StepsOfMode
<1>4. IgnoreInv'
  BY <1>1 DEF IgnoreInv, PatternsKept, Present, BackupKept, WrittenForRunner, NotGenerated,
              GeneratedForRunner, StartKept, SuccessRestoresIgnore
<1>5. FilesInv'
  <2>1. TmpOfBuild'
    BY <1>1 DEF FilesInv, TmpOfBuild, TypeOK, CallTyped, IsLocal
  <2>2. CopyOfVersion' /\ WeightsOfTree' /\ JustBuilt' /\ SchemaRemoved'
    BY <1>1 DEF CopyOfVersion, WeightsOfTree, JustBuilt, SchemaRemoved
  <2>3. LeftoversAreTrue'
    BY <1>1 DEF FilesInv, LeftoversAreTrue, ManifestWasBuilt, RequirementsMatchName,
                NoCodeInWeights, NoStaleSchema
  <2> QED
    BY <2>1, <2>2, <2>3 DEF FilesInv
<1>6. LabelsInv'
  BY <1>1 DEF LabelsInv, SchemaOfImage, LabelsDescribeImage
<1> QED
  BY <1>2, <1>3, <1>4, <1>5, <1>6

-----------------------------------------------------------------------------
(* Types and the modes                                                     *)

\* What Start makes of a call, and what is left when a build is over.
LEMMA CallBeginsAndEnds ==
    ASSUME IInv, Start \/ End \/ Cleanup \/ Kill
    PROVE  CallTyped' /\ StepsOfMode'
<1> USE DEF IInv, TypeOK, CallTyped, PC, Validating, Cleaning, BeforeSwap, SwapBegun,
            WeightsBuilt, Swapping, SchemaChecked, SchemaWritten, SchemaRead, AfterSwap
<1>1. CASE Start
  BY <1>1, NoLocalTyped, BuildAssumption DEF Start, StepsOfMode
<1>2. CASE End
  BY <1>2, NoLocalTyped DEF End, StepsOfMode
<1>3. CASE Cleanup
  BY <1>3 DEF Cleanup, StepsOfMode
<1>4. CASE Kill
  BY <1>4, NoLocalTyped DEF Kill, StepsOfMode
<1> QED
  BY <1>1, <1>2, <1>3, <1>4

\* The steps that write into the record of the build.
LEMMA LocalStep ==
    ASSUME IInv, ~Fail
    PROVE  /\ HeadRequirements \/ NameBaseImage => IsLocal(local') /\ local'.tmp = local.tmp
           /\ MakeGenerator => IsLocal(local') /\ local'.tmp
           /\ GetRequirements =>
                 IsLocal(local') /\ local'.tmp = local.tmp /\ local'.head = etag
           /\ GenerateSeparate =>
                 /\ IsLocal(local') /\ local'.tmp = local.tmp
                 /\ local'.weights = FindWeights(DOMAIN tree)
           /\ CompareManifest =>
                 /\ IsLocal(local') /\ local'.tmp = local.tmp
                 /\ local'.weights = local.weights
           /\ ReadSchema => IsLocal(local') /\ local'.tmp = local.tmp
<1>1. IsLocal(local)
  BY DEF IInv, TypeOK, CallTyped
<1>2. ASSUME HeadRequirements PROVE IsLocal(local') /\ local'.tmp = local.tmp
  <2>1. PICK e : local' = [local EXCEPT !.head = e]
    BY <1>2 DEF HeadRequirements
  <2> QED
    BY <1>1, <2>1, LocalUpdates
<1>3. ASSUME NameBaseImage PROVE IsLocal(local') /\ local'.tmp = local.tmp
  <2>1. PICK b : local' = [local EXCEPT !.base = b]
    BY <1>3 DEF NameBaseImage
  <2> QED
    BY <1>1, <2>1, LocalUpdates
<1>4. ASSUME MakeGenerator PROVE IsLocal(local') /\ local'.tmp
  BY <1>1, <1>4, LocalUpdates DEF MakeGenerator
<1>5. ASSUME GetRequirements PROVE IsLocal(local') /\ local'.tmp = local.tmp /\ local'.head = etag
  <2>1. PICK e : e = etag /\ local' = [local EXCEPT !.head = e]
    BY <1>5 DEF GetRequirements, NameFromAnswer
  <2> QED
    BY <1>1, <2>1, LocalUpdates
<1>6. ASSUME GenerateSeparate
      PROVE  IsLocal(local') /\ local'.tmp = local.tmp /\ local'.weights = FindWeights(DOMAIN tree)
  <2>1. PICK w : w = FindWeights(DOMAIN tree) /\ local' = [local EXCEPT !.weights = w]
    BY <1>6 DEF GenerateSeparate
  <2> QED
    BY <1>1, <2>1, LocalUpdates
<1>7. ASSUME CompareManifest
      PROVE  IsLocal(local') /\ local'.tmp = local.tmp /\ local'.weights = local.weights
  <2>1. PICK m : local' = [local EXCEPT !.manifest = m]
    BY <1>7 DEF CompareManifest
  <2> QED
    BY <1>1, <2>1, LocalUpdates
<1>8. ASSUME ReadSchema PROVE IsLocal(local') /\ local'.tmp = local.tmp
  <2>1. PICK s : local' = [local EXCEPT !.schema = s]
    BY <1>8 DEF ReadSchema
  <2> QED
    BY <1>1, <2>1, LocalUpdates
<1> QED
  BY <1>2, <1>3, <1>4, <1>5, <1>6, <1>7, <1>8

\* Each step leads to a step of the same mode.
LEMMA CallGoesOn ==
    ASSUME IInv, BuildSteps, ~Fail
    PROVE  CallTyped' /\ StepsOfMode'
<1> USE DEF IInv, TypeOK, CallTyped, PC, Validating, Cleaning, BeforeSwap, SwapBegun,
            WeightsBuilt, Swapping, SchemaChecked, SchemaWritten, SchemaRead, AfterSwap,
            Goto, StepsOfMode
<1>1. CASE HeadRequirements \/ GetRequirements
  BY <1>1, LocalStep DEF HeadRequirements, GetRequirements
<1>2. CASE \/ SaveRequirements \/ CheckRequirements
           \/ RemoveBundledSchema \/ CheckCompatibleDockerIgnore \/ BuildFromDockerfile
  BY <1>2 DEF SaveRequirements, CheckRequirements, RemoveBundledSchema,
              CheckCompatibleDockerIgnore, BuildFromDockerfile
<1>3. CASE MakeGenerator \/ NameBaseImage \/ GenerateSeparate
  <2>1. req.mode \in Modes
    BY <1>3, BuildAssumption DEF MakeGenerator, NameBaseImage, GenerateSeparate, Modes
  <2> QED
    BY <1>3, <2>1, LocalStep DEF MakeGenerator, NameBaseImage, GenerateSeparate, Modes
<1>4. CASE PlainBuild \/ BuildBase
  BY <1>4 DEF PlainBuild, BuildBase, Return
<1>5. CASE BackupDockerignore \/ CompareManifest \/ BackupAgain \/ WeightsIgnore
  BY <1>5, LocalStep DEF BackupDockerignore, CompareManifest, IfChanged, BackupAgain,
     WeightsIgnore, WriteDockerignore
<1>6. CASE BuildWeightsImage \/ CreateManifest \/ EncodeManifest \/ RunnerIgnore
  BY <1>6 DEF BuildWeightsImage, CreateManifest, EncodeManifest, RunnerIgnore, WriteDockerignore
<1>7. CASE BuildRunnerImage \/ RemoveIgnore \/ RestoreIgnore
  BY <1>7 DEF BuildRunnerImage, RemoveIgnore, RestoreIgnore
<1>8. CASE ReadSchema \/ WriteSchema \/ ValidateSchema
  BY <1>8, LocalStep DEF ReadSchema, WriteSchema, ValidateSchema
<1>9. CASE GeneratePipFreeze \/ GenerateModelDependencies \/ BaseLabels \/ LabelImage
  BY <1>9 DEF GeneratePipFreeze, GenerateModelDependencies, BaseLabels, LabelImage, Return
<1> QED
  BY <1>1, <1>2, <1>3, <1>4, <1>5, <1>6, <1>7, <1>8, <1>9 DEF BuildSteps

\* Which steps change an image or the image of the weights.
LEMMA ImagesFrame ==
    ASSUME BuildSteps, ~Fail
    PROVE  /\ \/ weightsImages' = weightsImages
              \/ BuildWeightsImage
           /\ \/ images' = images
              \/ BuildFromDockerfile \/ PlainBuild \/ BuildBase
              \/ BuildRunnerImage \/ LabelImage
<1> USE DEF dockerVars
<1>1. CASE HeadRequirements \/ GetRequirements \/ SaveRequirements \/ CheckRequirements
  BY <1>1 DEF HeadRequirements, GetRequirements, SaveRequirements, CheckRequirements
<1>2. CASE \/ RemoveBundledSchema \/ CheckCompatibleDockerIgnore \/ MakeGenerator \/ NameBaseImage
  BY <1>2 DEF RemoveBundledSchema, CheckCompatibleDockerIgnore, MakeGenerator, NameBaseImage
<1>3. CASE BuildFromDockerfile \/ PlainBuild \/ BuildBase
  BY <1>3 DEF BuildFromDockerfile, PlainBuild, BuildBase
<1>4. CASE \/ GenerateSeparate \/ BackupDockerignore \/ CompareManifest
           \/ BackupAgain \/ WeightsIgnore
  BY <1>4 DEF GenerateSeparate, BackupDockerignore, CompareManifest, BackupAgain,
              WeightsIgnore, WriteDockerignore
<1>5. CASE BuildWeightsImage \/ BuildRunnerImage \/ LabelImage
  BY <1>5 DEF BuildWeightsImage, BuildRunnerImage, LabelImage
<1>6. CASE CreateManifest \/ EncodeManifest \/ RunnerIgnore \/ RemoveIgnore \/ RestoreIgnore
  BY <1>6 DEF CreateManifest, EncodeManifest, RunnerIgnore, WriteDockerignore, RemoveIgnore,
              RestoreIgnore
<1>7. CASE \/ ReadSchema \/ WriteSchema \/ ValidateSchema
            \/ GeneratePipFreeze \/ GenerateModelDependencies \/ BaseLabels
  BY <1>7 DEF ReadSchema, WriteSchema, ValidateSchema, GeneratePipFreeze,
              GenerateModelDependencies, BaseLabels
<1> QED
  BY <1>1, <1>2, <1>3, <1>4, <1>5, <1>6, <1>7 DEF BuildSteps

\* A step replaces one image at a time.
LEMMA ImagesStep ==
    ASSUME IInv, BuildSteps, ~Fail
    PROVE  ImagesTyped'
<1> USE DEF IInv, TypeOK, ImagesTyped
<1>1. \E n, v : images' = images \/ images' = [images EXCEPT ![n] = v]
  <2>1. CASE BuildFromDockerfile \/ PlainBuild \/ BuildBase \/ BuildRunnerImage
    BY <2>1 DEF BuildFromDockerfile, PlainBuild, BuildBase, BuildRunnerImage
  <2>2. CASE LabelImage
    <3> DEFINE l == [schema |-> local.schema, base |-> local.base]
               n == req.name
    <3>1. images' = [images EXCEPT ![n].labels = l, ![n].bundled = schemaFile]
      BY <2>2 DEF LabelImage
    <3> HIDE DEF l, n
    <3>2. images' = [images EXCEPT ![n] = [[images[n] EXCEPT !.labels = l]
                                              EXCEPT !.bundled = schemaFile]]
      BY <3>1
    <3> DEFINE v == [[images[n] EXCEPT !.labels = l] EXCEPT !.bundled = schemaFile]
    <3>3. images' = [images EXCEPT ![n] = v]
      BY <3>2
    <3> HIDE DEF v
    <3> QED
      BY <3>3
  <2> QED
    BY <2>1, <2>2, ImagesFrame
<1>2. \E n, v : weightsImages' = weightsImages \/ weightsImages' = [weightsImages EXCEPT ![n] = v]
  BY ImagesFrame DEF BuildWeightsImage
<1> QED
  BY <1>1, <1>2

\* The files of the model and under .cog, and what a step counts.
LEMMA FilesStep ==
    ASSUME IInv, BuildSteps, ~Fail
    PROVE  FilesTyped'
<1> USE DEF IInv, TypeOK, FilesTyped, Env, EnvButCut, envVars, dirVars, history
<1>1. CASE GetRequirements
  <2>1. reqFiles' = [reqFiles EXCEPT ![etag] = [version |-> etag, whole |-> FALSE]]
    BY <1>1 DEF GetRequirements, NameFromAnswer
  <2>2. [version |-> etag, whole |-> FALSE] \in Requirement
    BY DEF Requirement
  <2> QED
    BY <1>1, <2>1, <2>2 DEF GetRequirements
<1>2. CASE SaveRequirements
  <2> DEFINE h == local.head
             r == [reqFiles[h] EXCEPT !.whole = TRUE]
  <2>1. h \in Etags /\ reqFiles[h] \in Requirement
    BY <1>2 DEF SaveRequirements, FilesInv, CopyOfVersion
  <2>2. r \in Requirement
    BY <2>1 DEF Requirement
  <2>3. reqFiles' = [reqFiles EXCEPT ![h] = r]
    BY <1>2 DEF SaveRequirements
  <2> HIDE DEF h, r
  <2> QED
    BY <1>2, <2>1, <2>2, <2>3 DEF SaveRequirements
<1>3. CASE HeadRequirements \/ CheckRequirements
  BY <1>3 DEF HeadRequirements, CheckRequirements
<1>4. CASE \/ RemoveBundledSchema \/ CheckCompatibleDockerIgnore \/ BuildFromDockerfile
           \/ MakeGenerator \/ NameBaseImage \/ PlainBuild \/ BuildBase
  BY <1>4 DEF RemoveBundledSchema, CheckCompatibleDockerIgnore, BuildFromDockerfile,
              MakeGenerator, NameBaseImage, PlainBuild, BuildBase
<1>5. CASE \/ GenerateSeparate \/ BackupDockerignore \/ CompareManifest
           \/ BackupAgain \/ WeightsIgnore \/ BuildWeightsImage
  BY <1>5 DEF GenerateSeparate, BackupDockerignore, CompareManifest, BackupAgain,
              WeightsIgnore, WriteDockerignore, BuildWeightsImage
<1>6. CASE \/ CreateManifest \/ EncodeManifest \/ RunnerIgnore \/ BuildRunnerImage
           \/ RemoveIgnore \/ RestoreIgnore
  BY <1>6 DEF CreateManifest, EncodeManifest, RunnerIgnore, WriteDockerignore, BuildRunnerImage,
              RemoveIgnore, RestoreIgnore
<1>7. CASE \/ ReadSchema \/ WriteSchema \/ ValidateSchema
            \/ GeneratePipFreeze \/ GenerateModelDependencies \/ BaseLabels \/ LabelImage
  BY <1>7 DEF ReadSchema, WriteSchema, ValidateSchema, GeneratePipFreeze,
               GenerateModelDependencies, BaseLabels, LabelImage
<1> QED
  BY <1>1, <1>2, <1>3, <1>4, <1>5, <1>6, <1>7 DEF BuildSteps

-----------------------------------------------------------------------------
(* .dockerignore                                                           *)

IgnoreOK == PatternsTyped /\ IgnoreInv

\* What may be written over .dockerignore is a set of patterns, with the user's.
LEMMA GeneratedLines ==
    ASSUME IInv, NEW S, S \subseteq Patterns
    PROVE  /\ Lines(backup) \cup S \in SUBSET Patterns
           /\ Lines(backup) \cup S # None
           /\ Lines(Lines(backup) \cup S) = Lines(backup) \cup S
<1>1. Lines(backup) \subseteq Patterns
  <2>1. backup \in SUBSET Patterns \/ backup = None
    BY DEF IInv, TypeOK, PatternsTyped
  <2> QED
    BY <2>1, Zenon DEF Lines
<1>2. \A P \in SUBSET Patterns : P # None
  BY BuildAssumption
<1> QED
  BY <1>1, <1>2 DEF Lines

\* A write of .dockerignore, on its way or complete.
LEMMA WriteDoes ==
    ASSUME IInv, ~Fail, NEW from, NEW filling, NEW next, NEW S, S \subseteq Patterns,
           WriteDockerignore(from, filling, next, S)
    PROVE  /\ UNCHANGED <<backup, userIgnore, startIgnore, result, req, local, tree>>
           /\ ignoreFile' \in SUBSET Patterns /\ ignoreFile' # None
           /\ \/ /\ pc = from /\ pc' = filling
                 /\ cut' = IF cut = "saved" THEN cut ELSE "cut"
              \/ /\ pc = filling /\ pc' = next
                 /\ cut' = IF cut = "saved" THEN cut ELSE "whole"
                 /\ ignoreFile' = Lines(backup) \cup S
                 /\ Lines(ignoreFile') = Lines(backup) \cup S
<1>1. /\ Lines(backup) \cup S \in SUBSET Patterns
      /\ Lines(backup) \cup S # None
      /\ Lines(Lines(backup) \cup S) = Lines(backup) \cup S
  BY GeneratedLines
<1>2. \A P \in SUBSET Patterns : P # None
  BY BuildAssumption
<1>3. Parts(S) \subseteq SUBSET Patterns
  BY <1>1 DEF Parts, IgnoreContents
<1> QED
  BY <1>1, <1>2, <1>3 DEF WriteDockerignore, IgnoreContents, Goto, EnvButCut, envVars

\* The steps that rename or write .dockerignore.
LEMMA SwapKeepsIgnore ==
    ASSUME IInv, ~Fail,
           \/ BackupDockerignore \/ BackupAgain \/ WeightsIgnore \/ RunnerIgnore
           \/ RemoveIgnore \/ RestoreIgnore
    PROVE  IgnoreOK'
<1> USE DEF IInv, TypeOK, IgnoreOK, PatternsTyped, IgnoreInv, PatternsKept, Present, BackupKept,
            WrittenForRunner, NotGenerated, GeneratedForRunner, StartKept,
            SuccessRestoresIgnore, Validating, Cleaning, BeforeSwap, SwapBegun,
            WeightsBuilt, Swapping, SchemaChecked, SchemaWritten, SchemaRead, AfterSwap
<1> DEFINE Others == UNCHANGED <<userIgnore, startIgnore, result, req>>
<1>1. CASE BackupDockerignore
  <2>1. /\ pc = "backup" /\ pc' = "manifest" /\ Others
        /\ ignoreFile' = None /\ backup' = Present
        /\ cut' = IF cut = "cut" /\ ignoreFile # None THEN "saved" ELSE cut
    BY <1>1 DEF BackupDockerignore, Backup, Goto, EnvButCut, envVars
  <2>2. /\ startIgnore = Present
        /\ cut' # "saved" => userIgnore \subseteq Lines(Present)
    BY <2>1
  <2>3. Present' = backup'
    BY <2>1
  <2>4. PatternsTyped'
    BY <2>1
  <2>5. PatternsKept' /\ BackupKept' /\ StartKept'
    <3> HIDE DEF Present
    <3> QED
      BY <2>1, <2>2, <2>3
  <2> QED
    BY <2>1, <2>4, <2>5
<1>2. CASE BackupAgain
  <2>1. /\ pc = "weightsBackup" /\ pc' = "weightsIgnore" /\ Others
        /\ ignoreFile = None /\ ignoreFile' = None /\ UNCHANGED <<backup, cut>>
    BY <1>2 DEF BackupAgain, Backup, Goto, EnvButCut, envVars
  <2> QED
    BY <2>1
<1>3. CASE WeightsIgnore \/ RunnerIgnore
  <2>1. PICK from \in {"weightsIgnore", "runnerIgnore"},
             filling \in {"weightsFill", "runnerFill"},
             next \in {"weightsImage", "runnerImage"},
             S \in SUBSET Patterns :
          /\ WriteDockerignore(from, filling, next, S)
          /\ next = "runnerImage" => S = MakeDockerignoreForWeights(local.weights)
    <3>1. CASE WeightsIgnore
      BY <3>1 DEF WeightsIgnore, Patterns
    <3>2. CASE RunnerIgnore
      <4>1. pc \in {"runnerIgnore", "runnerFill"}
        BY <3>2 DEF RunnerIgnore, WriteDockerignore
      <4>2. MakeDockerignoreForWeights(local.weights) \in SUBSET Patterns
        BY <4>1, WeightsArePatterns
           DEF FilesInv, WeightsOfTree, FilesTyped, MakeDockerignoreForWeights
      <4> QED
        BY <3>2, <4>2 DEF RunnerIgnore
    <3> QED
      BY <1>3, <3>1, <3>2
  <2>2. /\ UNCHANGED <<backup, local>> /\ Others
        /\ ignoreFile' \in SUBSET Patterns /\ ignoreFile' # None
        /\ \/ /\ pc = from /\ pc' = filling
              /\ cut' = IF cut = "saved" THEN cut ELSE "cut"
           \/ /\ pc = filling /\ pc' = next
              /\ cut' = IF cut = "saved" THEN cut ELSE "whole"
              /\ ignoreFile' = Lines(backup) \cup S
              /\ Lines(ignoreFile') = Lines(backup) \cup S
    BY <2>1, WriteDoes
  <2>3. MakeDockerignoreForWeights(local.weights)' = MakeDockerignoreForWeights(local.weights)
    BY <2>2 DEF MakeDockerignoreForWeights
  <2>4. PatternsTyped' /\ BackupKept' /\ WrittenForRunner' /\ NotGenerated' /\ StartKept'
    BY <2>2
  <2>5. PatternsKept' /\ GeneratedForRunner'
    BY <2>1, <2>2, <2>3
  <2> QED
    BY <2>2, <2>4, <2>5
<1>4. CASE RemoveIgnore
  <2>1. /\ pc = "unlinkIgnore" /\ pc' = "restoreIgnore" /\ Others
        /\ ignoreFile' = None /\ UNCHANGED <<backup, cut>>
    BY <1>4 DEF RemoveIgnore, Goto, Env, EnvButCut, envVars
  <2>2. startIgnore = backup /\ (cut # "saved" => userIgnore \subseteq Lines(backup))
    BY <2>1
  <2>3. PatternsKept'
    BY <2>1, <2>2
  <2> QED
    BY <2>1, <2>2, <2>3
<1>5. CASE RestoreIgnore
  <2>1. /\ pc = "restoreIgnore" /\ pc' = "schema" /\ Others
        /\ ignoreFile' = backup /\ backup' = None /\ UNCHANGED cut
    BY <1>5 DEF RestoreIgnore, Restore, Goto, Env, EnvButCut, envVars
  <2>2. /\ startIgnore = backup /\ cut # "cut"
        /\ cut # "saved" => userIgnore \subseteq Lines(backup)
    BY <2>1
  <2>3. PatternsKept'
    BY <2>1, <2>2 DEF Lines
  <2> QED
    BY <2>1, <2>2, <2>3
<1> QED
  BY <1>1, <1>2, <1>3, <1>4, <1>5

\* The other steps of a build leave .dockerignore and its backup alone.
LEMMA BuildKeepsIgnore ==
    ASSUME IInv, BuildSteps, ~Fail,
           ~(\/ BackupDockerignore \/ BackupAgain \/ WeightsIgnore \/ RunnerIgnore
             \/ RemoveIgnore \/ RestoreIgnore)
    PROVE  IgnoreOK'
<1> USE DEF IInv, TypeOK, IgnoreOK, PatternsTyped, IgnoreInv, PatternsKept, Present,
            BackupKept, WrittenForRunner,
            NotGenerated, GeneratedForRunner, StartKept, SuccessRestoresIgnore,
            Validating, Cleaning, BeforeSwap, SwapBegun, WeightsBuilt, Swapping,
            SchemaChecked, SchemaWritten, SchemaRead, AfterSwap, Goto, Env, EnvButCut,
            envVars, dirVars,
            history
<1>1. CASE HeadRequirements \/ GetRequirements \/ SaveRequirements \/ CheckRequirements
  BY <1>1 DEF HeadRequirements, GetRequirements, SaveRequirements, CheckRequirements
<1>2. CASE RemoveBundledSchema \/ CheckCompatibleDockerIgnore
  BY <1>2 DEF RemoveBundledSchema, CheckCompatibleDockerIgnore
<1>3. CASE MakeGenerator \/ NameBaseImage \/ GenerateSeparate
  BY <1>3 DEF MakeGenerator, NameBaseImage, GenerateSeparate
<1>4. CASE BuildFromDockerfile \/ PlainBuild \/ BuildBase
  BY <1>4 DEF BuildFromDockerfile, PlainBuild, BuildBase, StepsOfMode, Return
<1>5. CASE CompareManifest
  BY <1>5 DEF CompareManifest, IfChanged
<1>6. CASE BuildWeightsImage \/ CreateManifest \/ EncodeManifest \/ BuildRunnerImage
  BY <1>6 DEF BuildWeightsImage, CreateManifest, EncodeManifest, BuildRunnerImage
<1>7. CASE ReadSchema \/ WriteSchema \/ ValidateSchema
  BY <1>7 DEF ReadSchema, WriteSchema, ValidateSchema
<1>8. CASE GeneratePipFreeze \/ GenerateModelDependencies \/ BaseLabels \/ LabelImage
  BY <1>8 DEF GeneratePipFreeze, GenerateModelDependencies, BaseLabels, LabelImage, Return
<1> QED
  BY <1>1, <1>2, <1>3, <1>4, <1>5, <1>6, <1>7, <1>8 DEF BuildSteps

\* Between two builds only the user writes into .dockerignore.
LEMMA OthersKeepIgnore ==
    ASSUME IInv, Start \/ End \/ Cleanup \/ Outside
    PROVE  IgnoreOK'
<1> USE DEF IInv, TypeOK, CallTyped, IgnoreOK, PatternsTyped, IgnoreInv, PatternsKept, Present,
            BackupKept, WrittenForRunner, NotGenerated, GeneratedForRunner, StartKept,
            SuccessRestoresIgnore,
            Validating, Cleaning, BeforeSwap, SwapBegun, WeightsBuilt, Swapping,
            SchemaChecked, SchemaWritten, SchemaRead, AfterSwap, Env, EnvButCut, envVars, dirVars, history
<1>1. CASE Start
  BY <1>1 DEF Start
<1>2. CASE End \/ Cleanup \/ Kill
  BY <1>2 DEF End, Cleanup, Kill
<1>3. CASE EditModel \/ PublishRequirements \/ \E n \in Names : RemoveWeightsImage(n)
  BY <1>3 DEF EditModel, Edit, PublishRequirements, RemoveWeightsImage
<1>4. CASE EditIgnore
  <2>1. \A S \in UserIgnores : S \in SUBSET Patterns
    BY DEF Patterns
  <2>2. pc' = "idle" /\ backup' = backup /\ cut' = "whole"
    BY <1>4 DEF EditIgnore, Edit
  <2>3. userIgnore' = Lines(ignoreFile')
    BY <1>4 DEF EditIgnore
  <2>4. ignoreFile' \in UserIgnores \/ ignoreFile' = None
    BY <1>4 DEF EditIgnore
  <2>5. PatternsTyped'
    BY <2>1, <2>2, <2>3, <2>4 DEF Lines
  <2>6. PatternsKept'
    BY <2>2, <2>3 DEF Lines
  <2> QED
    BY <2>2, <2>5, <2>6
<1> QED
  BY <1>1, <1>2, <1>3, <1>4 DEF Outside

-----------------------------------------------------------------------------
(* The other files                                                         *)

\* Directories under .cog/tmp are those of this build and those that were left.
LEMMA TmpStep ==
    ASSUME IInv, BuildSteps, ~Fail
    PROVE  TmpOfBuild'
<1> USE DEF IInv, TypeOK, CallTyped, FilesTyped, IsLocal, FilesInv, TmpOfBuild,
            Validating, Cleaning, Goto, Return, Env, EnvButCut, history, dirVars
<1>1. CASE HeadRequirements \/ GetRequirements
  BY <1>1, LocalStep DEF HeadRequirements, GetRequirements
<1>2. CASE SaveRequirements \/ CheckRequirements
  BY <1>2 DEF SaveRequirements, CheckRequirements
<1>3. CASE RemoveBundledSchema \/ CheckCompatibleDockerIgnore \/ BuildFromDockerfile
  BY <1>3 DEF RemoveBundledSchema, CheckCompatibleDockerIgnore, BuildFromDockerfile
<1>4. CASE MakeGenerator \/ NameBaseImage
  BY <1>4, LocalStep DEF MakeGenerator, NameBaseImage
<1>5. CASE PlainBuild \/ BuildBase
  BY <1>5 DEF PlainBuild, BuildBase
<1>6. CASE GenerateSeparate \/ CompareManifest
  BY <1>6, LocalStep DEF GenerateSeparate, CompareManifest, IfChanged
<1>7. CASE BackupDockerignore \/ BackupAgain \/ WeightsIgnore \/ BuildWeightsImage
  BY <1>7 DEF BackupDockerignore, BackupAgain, WeightsIgnore, WriteDockerignore,
              BuildWeightsImage
<1>8. CASE \/ CreateManifest \/ EncodeManifest \/ RunnerIgnore \/ BuildRunnerImage
            \/ RemoveIgnore \/ RestoreIgnore
  BY <1>8 DEF CreateManifest, EncodeManifest, RunnerIgnore, WriteDockerignore, BuildRunnerImage,
               RemoveIgnore, RestoreIgnore
<1>9. CASE ReadSchema \/ WriteSchema \/ ValidateSchema
  BY <1>9, LocalStep DEF ReadSchema, WriteSchema, ValidateSchema
<1>10. CASE GeneratePipFreeze \/ GenerateModelDependencies \/ BaseLabels \/ LabelImage
  BY <1>10 DEF GeneratePipFreeze, GenerateModelDependencies, BaseLabels, LabelImage
<1> QED
  BY <1>1, <1>2, <1>3, <1>4, <1>5, <1>6, <1>7, <1>8, <1>9, <1>10 DEF BuildSteps

\* What a build knows of the requirements, the weights and the schema.
LEMMA KnownStep ==
    ASSUME IInv, BuildSteps, ~Fail
    PROVE  CopyOfVersion' /\ WeightsOfTree' /\ JustBuilt' /\ SchemaRemoved'
<1> USE DEF IInv, TypeOK, CallTyped, FilesTyped, FilesInv, CopyOfVersion, WeightsOfTree,
            JustBuilt, SchemaRemoved, Validating, Cleaning, BeforeSwap, SwapBegun,
            WeightsBuilt, Swapping, Goto, Return, Env, EnvButCut, envVars, history, dirVars
<1>1. CASE GetRequirements
  <2>1. reqFiles' = [reqFiles EXCEPT ![etag] = [version |-> etag, whole |-> FALSE]]
    BY <1>1 DEF GetRequirements, NameFromAnswer
  <2>2. [version |-> etag, whole |-> FALSE] # None
    <3>1. [version |-> etag, whole |-> FALSE] \in Requirement
      BY DEF Requirement
    <3>2. None \notin Requirement
      BY BuildAssumption, Zenon DEF Requirement
    <3> QED
      BY <3>1, <3>2, Zenon
  <2>3. local'.head = etag
    BY <1>1, LocalStep
  <2>4. etag \in Etags /\ DOMAIN reqFiles = Etags
    OBVIOUS
  <2>5. reqFiles'[etag] # None
    BY <2>1, <2>2, <2>4
  <2>6. CopyOfVersion'
    BY <2>3, <2>4, <2>5
  <2> QED
    BY <1>1, <2>6 DEF GetRequirements
<1>2. CASE HeadRequirements \/ SaveRequirements \/ CheckRequirements
  BY <1>2 DEF HeadRequirements, SaveRequirements, CheckRequirements
<1>3. CASE \/ RemoveBundledSchema \/ CheckCompatibleDockerIgnore \/ BuildFromDockerfile
           \/ MakeGenerator \/ NameBaseImage \/ PlainBuild \/ BuildBase
  BY <1>3 DEF RemoveBundledSchema, CheckCompatibleDockerIgnore, BuildFromDockerfile,
              MakeGenerator, NameBaseImage, PlainBuild, BuildBase
<1>4. CASE GenerateSeparate \/ CompareManifest
  BY <1>4, LocalStep DEF GenerateSeparate, CompareManifest, IfChanged
<1>5. CASE BackupDockerignore \/ BackupAgain \/ WeightsIgnore \/ BuildWeightsImage
  BY <1>5 DEF BackupDockerignore, BackupAgain, WeightsIgnore, WriteDockerignore,
              BuildWeightsImage
<1>6. CASE \/ CreateManifest \/ EncodeManifest \/ RunnerIgnore \/ BuildRunnerImage
           \/ RemoveIgnore \/ RestoreIgnore
  BY <1>6 DEF CreateManifest, EncodeManifest, RunnerIgnore, WriteDockerignore, BuildRunnerImage,
              RemoveIgnore, RestoreIgnore
<1>7. CASE ReadSchema \/ WriteSchema \/ ValidateSchema
  BY <1>7 DEF ReadSchema, WriteSchema, ValidateSchema
<1>8. CASE GeneratePipFreeze \/ GenerateModelDependencies \/ BaseLabels \/ LabelImage
  BY <1>8 DEF GeneratePipFreeze, GenerateModelDependencies, BaseLabels, LabelImage
<1> QED
  BY <1>1, <1>2, <1>3, <1>4, <1>5, <1>6, <1>7, <1>8 DEF BuildSteps

\* What a build leaves for the next one.
LEMMA LeftoversStep ==
    ASSUME IInv, BuildSteps, ~Fail
    PROVE  ManifestWasBuilt' /\ RequirementsMatchName'
<1> USE DEF IInv, TypeOK, FilesTyped, FilesInv, LeftoversAreTrue, ManifestWasBuilt,
            RequirementsMatchName, Env, EnvButCut, history, dirVars
<1>1. CASE GetRequirements
  BY <1>1 DEF GetRequirements, NameFromAnswer
<1>2. CASE SaveRequirements
  <2> DEFINE h == local.head
             r == [reqFiles[h] EXCEPT !.whole = TRUE]
  <2>1. h \in Etags /\ reqFiles[h] \in Requirement /\ reqFiles[h].version = h
    BY <1>2 DEF SaveRequirements, CopyOfVersion
  <2>2. r.version = h
    BY <2>1 DEF Requirement
  <2>3. reqFiles' = [reqFiles EXCEPT ![h] = r]
    BY <1>2 DEF SaveRequirements
  <2>4. UNCHANGED <<manifestFile, built>>
    BY <1>2 DEF SaveRequirements
  <2> HIDE DEF h, r
  <2> QED
    BY <2>1, <2>2, <2>3, <2>4
<1>3. CASE HeadRequirements \/ CheckRequirements
  BY <1>3 DEF HeadRequirements, CheckRequirements
<1>4. CASE \/ RemoveBundledSchema \/ CheckCompatibleDockerIgnore \/ BuildFromDockerfile
           \/ MakeGenerator \/ NameBaseImage \/ PlainBuild \/ BuildBase
  BY <1>4 DEF RemoveBundledSchema, CheckCompatibleDockerIgnore, BuildFromDockerfile,
              MakeGenerator, NameBaseImage, PlainBuild, BuildBase
<1>5. CASE \/ GenerateSeparate \/ BackupDockerignore \/ CompareManifest
           \/ BackupAgain \/ WeightsIgnore \/ BuildWeightsImage
  BY <1>5 DEF GenerateSeparate, BackupDockerignore, CompareManifest, BackupAgain,
              WeightsIgnore, WriteDockerignore, BuildWeightsImage
<1>6. CASE EncodeManifest
  BY <1>6 DEF EncodeManifest, JustBuilt, WeightsBuilt
<1>7. CASE CreateManifest \/ RunnerIgnore \/ BuildRunnerImage \/ RemoveIgnore \/ RestoreIgnore
  BY <1>7 DEF CreateManifest, RunnerIgnore, WriteDockerignore, BuildRunnerImage,
              RemoveIgnore, RestoreIgnore
<1>8. CASE \/ ReadSchema \/ WriteSchema \/ ValidateSchema
            \/ GeneratePipFreeze \/ GenerateModelDependencies \/ BaseLabels \/ LabelImage
  BY <1>8 DEF ReadSchema, WriteSchema, ValidateSchema, GeneratePipFreeze,
               GenerateModelDependencies, BaseLabels, LabelImage
<1> QED
  BY <1>1, <1>2, <1>3, <1>4, <1>5, <1>6, <1>7, <1>8 DEF BuildSteps

-----------------------------------------------------------------------------
(* The images                                                              *)

\* The weights that are copied into an image of their own are no code.
LEMMA WeightsImagesStep ==
    ASSUME IInv, BuildSteps, ~Fail
    PROVE  NoCodeInWeights'
<1> USE DEF IInv, TypeOK, ImagesTyped, FilesInv, LeftoversAreTrue, NoCodeInWeights
<1>1. CASE weightsImages' = weightsImages
  BY <1>1
<1>2. CASE BuildWeightsImage
  <2> DEFINE S == Selected(local.weights, Context)
             w == [p \in S |-> tree[p]]
  <2>1. weightsImages' = [weightsImages EXCEPT ![req.name] = w]
    BY <1>2 DEF BuildWeightsImage
  <2>2. \A p \in S : IsCodeFile(p) => IsGitFile(p)
    <3>1. local.weights = FindWeights(DOMAIN tree) /\ tree \in Trees
      BY <1>2 DEF BuildWeightsImage, WeightsOfTree, Swapping, FilesTyped
    <3>2. Context \subseteq DOMAIN tree
      BY DEF Context
    <3> QED
      BY <3>1, <3>2, WeightsAreNoCode
  <2>3. DOMAIN w = S
    OBVIOUS
  <2> HIDE DEF S, w
  <2>4. \A n \in Names : weightsImages'[n] = w \/ weightsImages'[n] = weightsImages[n]
    BY <2>1
  <2> QED
    BY <2>2, <2>3, <2>4
<1> QED
  BY <1>1, <1>2, ImagesFrame

\* A new image has no labels yet.
LEMMA NewImage ==
    ASSUME NEW layer
    PROVE  IsImage(Image(layer)) /\ Image(layer).labels = None
  BY DEF IsImage, Image

\* The steps that build an image of the model.
LEMMA ImageOfCall ==
    ASSUME IInv, ~Fail, BuildFromDockerfile \/ PlainBuild \/ BuildBase \/ BuildRunnerImage
    PROVE  /\ images'[req.name].labels = None
           /\ IsImage(images'[req.name])
           /\ \A n \in Names : n # req.name => images'[n] = images[n]
           /\ UNCHANGED <<req, local, schemaFile>>
<1>1. PICK layer : images' = [images EXCEPT ![req.name] = Image(layer)]
  BY DEF BuildFromDockerfile, PlainBuild, BuildBase, BuildRunnerImage
<1>2. /\ pc # "idle"
      /\ UNCHANGED <<req, local, schemaFile>>
  BY DEF BuildFromDockerfile, PlainBuild, BuildBase, BuildRunnerImage, Goto, Return, dirVars
<1>3. req.name \in Tag
  BY <1>2, BuildAssumption DEF IInv, TypeOK, CallTyped, Tag
<1> DEFINE i == Image(layer)
<1>4. IsImage(i) /\ i.labels = None
  BY NewImage
<1>5. images' = [images EXCEPT ![req.name] = i]
  BY <1>1
<1> HIDE DEF i
<1> QED
  BY <1>2, <1>3, <1>4, <1>5 DEF IInv, TypeOK, ImagesTyped, Tag

\* What the labels are put on keeps its layer.
LEMMA LabelsOfImage ==
    ASSUME IInv, ~Fail, LabelImage
    PROVE  /\ images'[req.name].layer = images[req.name].layer
           /\ images'[req.name].labels = [schema |-> local.schema, base |-> local.base]
           /\ images'[req.name].bundled = schemaFile
           /\ \A n \in Names : n # req.name => images'[n] = images[n]
<1> DEFINE l == [schema |-> local.schema, base |-> local.base]
           i == [images[req.name] EXCEPT !.labels = l]
           j == [i EXCEPT !.bundled = schemaFile]
<1>1. pc = "labelImage"
  BY DEF LabelImage
<1>2. req.name \in Tag /\ IsImage(images[req.name])
  BY <1>1, BuildAssumption
     DEF IInv, TypeOK, CallTyped, Tag, LabelsInv, SchemaOfImage, AfterSwap, SchemaRead,
         SchemaWritten, SchemaChecked
<1>3. images' = [images EXCEPT ![req.name] = j]
  <2>1. images' = [images EXCEPT ![req.name].labels = l, ![req.name].bundled = schemaFile]
    BY DEF LabelImage
  <2>2. images = [n \in Tag |-> images[n]]
    BY DEF IInv, TypeOK, ImagesTyped
  <2> QED
    BY <1>2, <2>1, <2>2
<1>4. j.layer = images[req.name].layer /\ j.labels = l /\ j.bundled = schemaFile
  <2> HIDE DEF l
  <2> QED
    BY <1>2 DEF IsImage
<1> HIDE DEF j, l
<1>5. images'[req.name] = j /\ \A n \in Names : n # req.name => images'[n] = images[n]
  BY <1>2, <1>3 DEF IInv, TypeOK, ImagesTyped, Tag
<1> QED
  BY <1>4, <1>5 DEF l

\* A step that succeeds changes an image only together with its labels, or to one
\* without labels.
LEMMA DescribesStep ==
    ASSUME IInv, BuildSteps, ~Fail
    PROVE  LabelsDescribeImage'
<1> USE DEF IInv, LabelsInv, LabelsDescribeImage
<1>1. CASE images' = images
  BY <1>1
<1>2. CASE BuildFromDockerfile \/ PlainBuild \/ BuildBase \/ BuildRunnerImage
  BY <1>2, ImageOfCall
<1>3. CASE LabelImage
  <2>1. /\ schemaFile = local.schema /\ local.schema.valid
        /\ local.schema.of # None => local.schema.of = images[req.name].layer[Code]
    BY <1>3 DEF LabelImage, SchemaOfImage, SchemaRead, SchemaWritten, SchemaChecked
  <2>2. ASSUME NEW n \in Names, n # req.name,
               images'[n] # None, images'[n].labels # None
        PROVE  LET s == images'[n].labels.schema
               IN  /\ s.valid /\ images'[n].bundled = s
                   /\ s.of # None => s.of = images'[n].layer[Code]
    BY <1>3, <2>2, LabelsOfImage
  <2>3. LET s == images'[req.name].labels.schema
        IN  /\ s.valid /\ images'[req.name].bundled = s
            /\ s.of # None => s.of = images'[req.name].layer[Code]
    BY <1>3, <2>1, LabelsOfImage
  <2> QED
    BY <2>2, <2>3
<1> QED
  BY <1>1, <1>2, <1>3, ImagesFrame

\* The schema that is read is that of the image of this build.
LEMMA SchemaStep ==
    ASSUME IInv, BuildSteps, ~Fail
    PROVE  SchemaOfImage'
<1> USE DEF IInv, TypeOK, CallTyped, LabelsInv, SchemaOfImage, AfterSwap, SchemaRead,
            SchemaWritten, SchemaChecked, Goto, Return, dirVars, dockerVars
<1>1. CASE HeadRequirements \/ GetRequirements \/ SaveRequirements \/ CheckRequirements
  BY <1>1 DEF HeadRequirements, GetRequirements, SaveRequirements, CheckRequirements
<1>2. CASE \/ RemoveBundledSchema \/ CheckCompatibleDockerIgnore \/ MakeGenerator \/ NameBaseImage
  BY <1>2 DEF RemoveBundledSchema, CheckCompatibleDockerIgnore, MakeGenerator, NameBaseImage
<1>3. CASE BuildFromDockerfile \/ PlainBuild \/ BuildBase \/ BuildRunnerImage
  <2>1. pc' \in {"schema", "unlinkIgnore", "cleanup", "end"}
    BY <1>3 DEF BuildFromDockerfile, PlainBuild, BuildBase, BuildRunnerImage
  <2> QED
    BY <1>3, <2>1, ImageOfCall
<1>4. CASE \/ GenerateSeparate \/ BackupDockerignore \/ CompareManifest
           \/ BackupAgain \/ WeightsIgnore \/ BuildWeightsImage
  BY <1>4 DEF GenerateSeparate, BackupDockerignore, CompareManifest, IfChanged, BackupAgain,
              WeightsIgnore, WriteDockerignore, BuildWeightsImage
<1>5. CASE CreateManifest \/ EncodeManifest \/ RunnerIgnore \/ RemoveIgnore \/ RestoreIgnore
  BY <1>5 DEF CreateManifest, EncodeManifest, RunnerIgnore, WriteDockerignore, RemoveIgnore,
              RestoreIgnore
<1>6. CASE ReadSchema
  <2> DEFINE i == images[req.name]
             of == IF req.schema = "run" /\ Code \in DOMAIN i.layer THEN i.layer[Code] ELSE None
             s(ok) == [of |-> of, valid |-> ok]
  <2>1. PICK ok : local' = [local EXCEPT !.schema = s(ok)]
    BY <1>6 DEF ReadSchema
  <2>2. of # None => of = i.layer[Code]
    OBVIOUS
  <2> HIDE DEF i, of
  <2>3. s(ok).of = of
    OBVIOUS
  <2> HIDE DEF s
  <2>4. local'.schema = s(ok)
    BY <2>1, LocalUpdates
  <2> QED
    BY <1>6, <2>2, <2>3, <2>4 DEF ReadSchema, i
<1>7. CASE WriteSchema \/ ValidateSchema
  BY <1>7 DEF WriteSchema, ValidateSchema
<1>8. CASE GeneratePipFreeze \/ GenerateModelDependencies \/ BaseLabels \/ LabelImage
  BY <1>8 DEF GeneratePipFreeze, GenerateModelDependencies, BaseLabels, LabelImage
<1> QED
  BY <1>1, <1>2, <1>3, <1>4, <1>5, <1>6, <1>7, <1>8 DEF BuildSteps

-----------------------------------------------------------------------------
(* The invariant                                                           *)

\* The invariant holds of a directory in which nothing was built.
LEMMA InitIInv == BuildInit => IInv
<1> SUFFICES ASSUME BuildInit PROVE IInv
  OBVIOUS
<1> USE DEF BuildInit
<1>1. TypeOK /\ StepsOfMode
  <2>1. CallTyped /\ StepsOfMode
    BY NoLocalTyped
       DEF CallTyped, StepsOfMode, PC, Validating, Cleaning, BeforeSwap, SwapBegun,
           WeightsBuilt, Swapping, SchemaChecked, SchemaWritten, SchemaRead, AfterSwap
  <2>2. PatternsTyped
    <3>1. \A S \in UserIgnores : S \in SUBSET Patterns
      BY DEF Patterns
    <3>2. Lines(ignoreFile) \in SUBSET Patterns
      BY <3>1, Zenon DEF Lines
    <3> QED
      BY <3>1, <3>2 DEF PatternsTyped
  <2>3. FilesTyped /\ ImagesTyped
    BY DEF FilesTyped, ImagesTyped, Tag
  <2> QED
    BY <2>1, <2>2, <2>3 DEF TypeOK
<1>2. IgnoreInv
  BY DEF IgnoreInv, PatternsKept, Present, Lines, BackupKept, WrittenForRunner, NotGenerated,
         GeneratedForRunner, StartKept, SuccessRestoresIgnore, Validating, Cleaning,
         BeforeSwap, SwapBegun, WeightsBuilt, Swapping, SchemaChecked, SchemaWritten,
         SchemaRead, AfterSwap
<1>3. FilesInv
  BY DEF FilesInv, TmpOfBuild, CopyOfVersion, WeightsOfTree, JustBuilt, SchemaRemoved,
         LeftoversAreTrue, ManifestWasBuilt, RequirementsMatchName, NoCodeInWeights,
         NoStaleSchema, Validating, Cleaning, BeforeSwap, SwapBegun, WeightsBuilt, Swapping
<1>4. LabelsInv
  BY DEF LabelsInv, SchemaOfImage, LabelsDescribeImage, AfterSwap, SchemaRead,
         SchemaWritten, SchemaChecked, Tag
<1> QED
  BY <1>1, <1>2, <1>3, <1>4 DEF IInv


-----------------------------------------------------------------------------
(* Between two builds                                                      *)

Around == Start \/ End \/ Cleanup \/ Outside

\* A build begins, ends, is killed or cleans up, or something happens outside: the
\* files and images a build works on are as they were, but for those of the user.
LEMMA AroundKeepsInv ==
    ASSUME IInv, Around
    PROVE  IInv'
<1> USE DEF IInv, TypeOK, Around, Outside
<1>1. CallTyped' /\ StepsOfMode'
  <2>1. CASE Start \/ End \/ Cleanup \/ Kill
    BY <2>1, CallBeginsAndEnds
  <2>2. CASE EditModel \/ EditIgnore \/ PublishRequirements
             \/ \E n \in Names : RemoveWeightsImage(n)
    BY <2>2 DEF EditModel, EditIgnore, Edit, PublishRequirements, RemoveWeightsImage,
                CallTyped, StepsOfMode
  <2> QED
    BY <2>1, <2>2
<1>2. IgnoreOK'
  BY OthersKeepIgnore
<1>3. FilesTyped'
  <2> USE DEF FilesTyped, Env, EnvButCut, envVars, dirVars, history
  <2>1. CASE Start \/ End \/ EditModel \/ EditIgnore
    BY <2>1 DEF Start, End, EditModel, EditIgnore, Edit
  <2>2. CASE Kill \/ PublishRequirements \/ \E n \in Names : RemoveWeightsImage(n)
    BY <2>2 DEF Kill, PublishRequirements, RemoveWeightsImage
  <2>3. CASE Cleanup
    BY <2>3 DEF Cleanup, FilesInv, TmpOfBuild
  <2> QED
    BY <2>1, <2>2, <2>3
<1>4. /\ images' = images
      /\ weightsImages' = weightsImages \/ \E n \in Names : RemoveWeightsImage(n)
  <2>1. CASE Start \/ End \/ Cleanup \/ Kill \/ EditModel \/ EditIgnore \/ PublishRequirements
    BY <2>1 DEF Start, End, Cleanup, Kill, EditModel, EditIgnore, PublishRequirements,
                dockerVars
  <2>2. CASE \E n \in Names : RemoveWeightsImage(n)
    BY <2>2 DEF RemoveWeightsImage
  <2> QED
    BY <2>1, <2>2
<1>5. ImagesTyped' /\ NoCodeInWeights'
  BY <1>4 DEF RemoveWeightsImage, ImagesTyped, FilesInv, LeftoversAreTrue, NoCodeInWeights
<1>6. TmpOfBuild'
  <2> USE DEF CallTyped, FilesTyped, IsLocal, FilesInv, TmpOfBuild, Validating, Cleaning,
              history, dirVars
  <2>1. CASE Start \/ End
    BY <2>1, NoLocalTyped DEF Start, End
  <2>2. CASE Cleanup
    BY <2>2 DEF Cleanup
  <2>3. CASE Kill
    BY <2>3, NoLocalTyped DEF Kill
  <2>4. CASE EditModel \/ EditIgnore \/ PublishRequirements
             \/ \E n \in Names : RemoveWeightsImage(n)
    BY <2>4 DEF EditModel, EditIgnore, Edit, PublishRequirements, RemoveWeightsImage
  <2> QED
    BY <2>1, <2>2, <2>3, <2>4
<1>7. /\ CopyOfVersion' /\ WeightsOfTree' /\ JustBuilt' /\ SchemaRemoved'
      /\ ManifestWasBuilt' /\ RequirementsMatchName' /\ SchemaOfImage'
  <2> USE DEF FilesInv, CopyOfVersion, WeightsOfTree, JustBuilt, SchemaRemoved,
              LeftoversAreTrue, ManifestWasBuilt, RequirementsMatchName, LabelsInv,
              SchemaOfImage, Validating, Cleaning, BeforeSwap, SwapBegun, WeightsBuilt,
              Swapping, AfterSwap, SchemaRead, SchemaWritten, SchemaChecked, history,
              dirVars, dockerVars
  <2>1. CASE Start
    BY <2>1 DEF Start
  <2>2. CASE End \/ Cleanup \/ Kill
    BY <2>2 DEF End, Cleanup, Kill
  <2>3. CASE EditModel \/ EditIgnore \/ \E n \in Names : RemoveWeightsImage(n)
    BY <2>3 DEF EditModel, EditIgnore, Edit, RemoveWeightsImage
  <2>4. CASE PublishRequirements
    BY <2>4 DEF PublishRequirements
  <2> QED
    BY <2>1, <2>2, <2>3, <2>4
<1>8. NoStaleSchema'
  BY <1>7 DEF SchemaRemoved, NoStaleSchema, BeforeSwap, Validating, Swapping
<1>9. LabelsDescribeImage'
  BY <1>4 DEF LabelsInv, LabelsDescribeImage
<1> QED
  BY <1>1, <1>2, <1>3, <1>5, <1>6, <1>7, <1>8, <1>9
     DEF IgnoreOK, FilesInv, LeftoversAreTrue, LabelsInv

-----------------------------------------------------------------------------
(* The theorems                                                            *)

\* Every step of a build, every failure, kill, edit and loss of an image keeps it.
LEMMA StepKeepsInv ==
    ASSUME IInv, BuildNext
    PROVE  IInv'
<1>1. CASE BuildSteps /\ Fail
  BY <1>1, FailureAlone, FailureKeepsInv
<1>2. CASE BuildSteps /\ ~Fail
  <2> USE <1>2
  <2>1. CallTyped' /\ StepsOfMode'
    BY CallGoesOn
  <2>2. IgnoreOK'
    BY SwapKeepsIgnore, BuildKeepsIgnore
  <2>3. FilesTyped' /\ ImagesTyped'
    BY FilesStep, ImagesStep
  <2>4. TmpOfBuild' /\ CopyOfVersion' /\ WeightsOfTree' /\ JustBuilt' /\ SchemaRemoved'
    BY TmpStep, KnownStep
  <2>5. LeftoversAreTrue'
    <3>1. NoStaleSchema'
      BY <2>4 DEF SchemaRemoved, NoStaleSchema, BeforeSwap, Validating, Swapping
    <3> QED
      BY <3>1, LeftoversStep, WeightsImagesStep DEF LeftoversAreTrue
  <2>6. LabelsInv'
    BY SchemaStep, DescribesStep DEF LabelsInv
  <2> QED
    BY <2>1, <2>2, <2>3, <2>4, <2>5, <2>6 DEF IInv, TypeOK, IgnoreOK, FilesInv
<1>3. CASE Around
  BY <1>3, AroundKeepsInv
<1> QED
  BY <1>1, <1>2, <1>3 DEF BuildNext, Build, BuildSteps, Around

\* Whatever the models, the patterns and the calls, and however builds fail, are
\* killed and follow one another, the invariant holds.
THEOREM ImageBuildInv == BuildSpec => []IInv
<1>1. IInv /\ UNCHANGED buildVars => IInv'
  BY DEF IInv, TypeOK, CallTyped, PatternsTyped, FilesTyped, ImagesTyped, StepsOfMode,
         IgnoreInv, PatternsKept, Present, BackupKept, WrittenForRunner, NotGenerated,
         GeneratedForRunner,
         StartKept, SuccessRestoresIgnore, FilesInv, TmpOfBuild, CopyOfVersion,
         WeightsOfTree, JustBuilt, SchemaRemoved, LeftoversAreTrue, ManifestWasBuilt,
         RequirementsMatchName, NoCodeInWeights, NoStaleSchema, LabelsInv, SchemaOfImage,
         LabelsDescribeImage, buildVars, dirVars, dockerVars, envVars, history
<1> QED
  BY <1>1, InitIInv, StepKeepsInv, PTL DEF BuildSpec

\* The patterns the user wrote are in .dockerignore or in its backup, at whatever step
\* a build is, failed or was killed, also within a write of .dockerignore; only a later
\* build can lose them, when it saves a half-written file as the backup
\* (backupDockerignore, writeDockerignore, restoreDockerignore).
THEOREM ImageBuildUserPatternsSurvive == BuildSpec => []UserPatternsSurvive
<1>1. IInv => UserPatternsSurvive
  BY DEF IInv, TypeOK, PatternsTyped, IgnoreInv, PatternsKept, Present, UserPatternsSurvive
<1> QED
  BY <1>1, ImageBuildInv, PTL

\* A build removes its temporary directory however it returns, and one that succeeds
\* puts .dockerignore back (the deferred Cleanup, restoreDockerignore).
THEOREM ImageBuildCleansUp == BuildSpec => []BuildCleansUp
<1>1. IInv => BuildCleansUp
  BY DEF IInv, TypeOK, FilesTyped, IgnoreInv, FilesInv, TmpOfBuild, BuildCleansUp,
         TmpDirsAreRemoved
<1> QED
  BY <1>1, ImageBuildInv, PTL

\* The manifest, the requirements and the weights images that a build leaves are what
\* a later one takes them for, and no stale schema gets into an image.
THEOREM ImageBuildLeftoversAreTrue == BuildSpec => []LeftoversAreTrue
<1>1. IInv => LeftoversAreTrue
  BY DEF IInv, FilesInv
<1> QED
  BY <1>1, ImageBuildInv, PTL

\* An image with labels bundles the valid schema its labels hold, of its own code.
THEOREM ImageBuildLabelsDescribeImage == BuildSpec => []LabelsDescribeImage
<1>1. IInv => LabelsDescribeImage
  BY DEF IInv, LabelsInv
<1> QED
  BY <1>1, ImageBuildInv, PTL

\* The image that is built with the weights of its own image has no file that the user
\* or the weights exclude from COPY . /src.
LEMMA RunnerHonoursIgnore ==
    ASSUME IInv, ~Fail, BuildRunnerImage, NEW n \in Names, images'[n] # images[n],
           NEW p \in DOMAIN images'[n].layer,
           \/ Ignored(p, userIgnore) /\ cut # "saved"
           \/ p \in Selected(local.weights, DOMAIN tree)
    PROVE  p \in DOMAIN weightsImages[n]
<1> DEFINE w == weightsImages[req.name]
           copied == Selected(local.weights, DOMAIN w)
           layer == [q \in Context \cup copied |-> IF q \in Context THEN tree[q] ELSE w[q]]
<1>1. pc = "runnerImage" /\ images' = [images EXCEPT ![req.name] = Image(layer)]
  BY DEF BuildRunnerImage
<1>2. Image(layer).layer = layer /\ DOMAIN layer = Context \cup copied
  BY DEF Image
<1> HIDE DEF layer
<1>3. n = req.name /\ images'[n] = Image(layer)
  BY <1>1 DEF IInv, TypeOK, ImagesTyped, Tag
<1>4. copied \subseteq DOMAIN w
  BY DEF Selected
<1> HIDE DEF copied
<1>5. ASSUME p \in Context PROVE FALSE
  <2>1. p \in DOMAIN tree /\ ~Ignored(p, ignoreFile)
    BY <1>5 DEF Context
  <2>2. /\ ignoreFile = Lines(backup) \cup MakeDockerignoreForWeights(local.weights)
        /\ cut # "saved" => userIgnore \subseteq Lines(backup)
    BY <1>1 DEF IInv, IgnoreInv, GeneratedForRunner, BackupKept, Swapping
  <2>3. ignoreFile # None /\ userIgnore # None
    <3>1. Lines(backup) \cup MakeDockerignoreForWeights(local.weights) # None
      <4>1. MakeDockerignoreForWeights(local.weights) \subseteq Patterns
        BY <1>1, WeightsArePatterns
           DEF IInv, TypeOK, FilesTyped, FilesInv, WeightsOfTree, Swapping,
               MakeDockerignoreForWeights
      <4> QED
        BY <4>1, GeneratedLines
    <3>2. userIgnore # None
      BY BuildAssumption DEF IInv, TypeOK, PatternsTyped
    <3> QED
      BY <2>2, <3>1, <3>2
  <2>4. cut # "saved" => ~Ignored(p, userIgnore)
    BY <2>1, <2>2, <2>3 DEF Ignored, Lines
  <2>5. p \notin Selected(local.weights, DOMAIN tree)
    <3>1. local.weights.dirs \cup local.weights.files \subseteq ignoreFile
      BY <2>2 DEF MakeDockerignoreForWeights
    <3> QED
      BY <2>1, <2>3, <3>1, WeightsAreIgnored DEF IInv, TypeOK, FilesTyped
  <2> QED
    BY <2>4, <2>5
<1> QED
  BY <1>2, <1>3, <1>4, <1>5

\* The code layer of a build with separate weights has no file the user's patterns
\* exclude, although the build replaces .dockerignore and whatever broke off before it,
\* unless a half-written .dockerignore was saved as the user's, and it has no weights
\* (makeDockerignoreForWeights, writeDockerignore).
THEOREM ImageBuildCodeLayerHonoursIgnore == BuildSpec => CodeLayerHonoursIgnore
<1> DEFINE Honours(n) ==
       (pc = "runnerImage" /\ images'[n] # images[n]) =>
           \A p \in DOMAIN images'[n].layer :
               \/ Ignored(p, userIgnore) /\ cut # "saved"
               \/ p \in Selected(local.weights, DOMAIN tree)
               => p \in DOMAIN weightsImages[n]
<1>1. ASSUME IInv, [BuildNext]_buildVars
      PROVE  [\A n \in Names : Honours(n)]_buildVars
  <2>1. SUFFICES ASSUME BuildNext, NEW n \in Names, pc = "runnerImage", images'[n] # images[n]
                 PROVE  BuildRunnerImage /\ ~Fail
    BY <1>1, RunnerHonoursIgnore
  <2>2. ~Fail
    BY <2>1 DEF Fail, dockerVars
  <2>3. ~Around
    <3>1. CASE Start \/ End \/ Cleanup \/ Kill \/ EditModel \/ EditIgnore \/ PublishRequirements
      BY <2>1, <3>1 DEF Start, End, Cleanup, Kill, EditModel, EditIgnore,
         PublishRequirements, dockerVars
    <3>2. CASE \E m \in Names : RemoveWeightsImage(m)
      BY <2>1, <3>2 DEF RemoveWeightsImage
    <3> QED
      BY <3>1, <3>2 DEF Around, Outside
  <2>4. BuildSteps
    BY <2>1, <2>3 DEF BuildNext, Build, BuildSteps, Around
  <2> QED
    BY <2>1, <2>2, <2>4, ImagesFrame
       DEF BuildFromDockerfile, PlainBuild, BuildBase, LabelImage
<1>2. IInv /\ [BuildNext]_buildVars => [\A n \in Names : Honours(n)]_buildVars
  BY <1>1
<1> QED
  BY <1>2, ImageBuildInv, PTL DEF BuildSpec, CodeLayerHonoursIgnore
=============================================================================
