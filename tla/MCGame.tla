-------------------------------- MODULE MCGame --------------------------------
EXTENDS Game

Relocation(type, symbol, defined) == [type |-> type, symbol |-> symbol, defined |-> defined]
Text(end) == [exec |-> TRUE, end |-> end]
Data(end) == [exec |-> FALSE, end |-> end]
File(segments, relocations, needed, exports) ==
  [magic |-> TRUE, sections |-> TRUE, segments |-> segments, relocations |-> relocations,
   needed |-> needed, exports |-> exports]

Basic == <<Relocation("RELATIVE", "none", TRUE), Relocation("JUMP_SLOT", "malloc", FALSE),
           Relocation("JUMP_SLOT", "helper", TRUE)>>

MCElf == [
  cpufeatures |-> {File(<<Text(2), Data(4)>>, Basic, <<>>, {"android_getCpuFeatures"})},
  jbejni |-> {File(<<Text(8), Data(10)>>,
                   Basic \o <<Relocation("JUMP_SLOT", "missing", FALSE),
                              Relocation("GLOB_DAT", "absent", FALSE)>>,
                   <<"game", "cpufeatures">>, {"jni"})},
  libcpp |-> {File(<<Text(140), Data(148)>>,
                   Basic \o <<Relocation("JUMP_SLOT", "android_getCpuFeatures", FALSE)>>,
                   <<"cpufeatures">>, {"malloc", "new"})},
  libxmv |-> {File(<<Text(340), Data(347)>>, Basic \o <<Relocation("JUMP_SLOT", "new", FALSE)>>,
                   <<"libcpp">>, {"GetNextFrame"}),
              File(<<Data(7), Text(347)>>, Basic, <<>>, {}),
              File(<<Text(340)>> \o [i \in 1 .. 5 |-> Data(340 + i)], Basic, <<>>, {})},
  game |-> {File(<<Text(500), Data(510), Data(514)>>,
                 Basic \o <<Relocation("JUMP_SLOT", "new", FALSE), Relocation("ABS32", "malloc", FALSE),
                            Relocation("JUMP_SLOT", "GetNextFrame", FALSE),
                            Relocation("JUMP_SLOT", "missing", FALSE)>>,
                 <<"libcpp", "libxmv", "jbejni">>, {"android_main"}),
            [File(<<Text(500), Data(510)>>, Basic, <<>>, {}) EXCEPT !.sections = FALSE],
            [File(<<Text(500), Data(510)>>, Basic, <<>>, {}) EXCEPT !.magic = FALSE]}]
MCDynlib == {"malloc", "pthread_create"}

Code == [lengths |-> <<1, 3, 3, 4, 4, 5, 5>>, codes |-> <<0, 4, 5, 12, 13, 28, 29>>,
         commands |-> <<1, 0, 2, 7, 3, 6, 8>>, likely |-> [k \in 0 .. 15 |-> IF k = 1 THEN 0 ELSE 1]]

\* The stream of chosen commands, which start at these bits; ones follow it.
Stream(chosen, starts) ==
  LET Within(k, j) == k >= starts[j] /\ k < starts[j] + Code.lengths[chosen[j]]
      BitOf(k) == IF \E j \in 1 .. 4 : Within(k, j)
                  THEN LET j == CHOOSE j \in 1 .. 4 : Within(k, j)
                       IN  Bit(Code.codes[chosen[j]], Code.lengths[chosen[j]] - 1 - (k - starts[j]))
                  ELSE 1
      Words == (starts[4] + Code.lengths[chosen[4]]) \div 5 + 2
  IN  [w \in 1 .. Words |->
         FoldLeft(LAMBDA x, k : 2 * x + BitOf((w - 1) * 5 + k), 0, <<0, 1, 2, 3, 4>>)]

Starts(chosen) ==
  [i \in 1 .. 4 |-> FoldLeft(LAMBDA x, j : x + Code.lengths[chosen[j]], 0, [j \in 1 .. i - 1 |-> j])]

\* Every choice of commands for the pixels.
Blocks(pixels) ==
  {[pixels |-> pixels, chosen |-> chosen, starts |-> Starts(chosen),
    stream |-> Stream(chosen, Starts(chosen))] :
     chosen \in {c \in [1 .. 4 -> DOMAIN Code.commands] :
                   \A i \in 1 .. 4 : Means(Code, Code.commands[c[i]], pixels, i)}}
Picture(width, height, pictures) ==
  [width |-> width, height |-> height, code |-> Code, tables |-> Tables(Code),
   blocks |-> UNION {Blocks(p) : p \in pictures}]
P == Picture(64, 64, {<<1, 0, 0, 1>>})
Q == Picture(300, 128, {<<0, 1, 1, 0>>})
None(count) == [count |-> count, textures |-> <<>>]
C(offset, flags) == [offset |-> offset, flags |-> flags]
NewWorld(name, chunks, size, file) ==
  [name |-> name, chunks |-> chunks, file |-> [size |-> size, chunks |-> file]]

MCWorlds ==
  {NewWorld("bog1", <<C(40, 1), C(10, 1), C(0, 1), C(70, 0)>>, 100,
            40 :> [count |-> 2, textures |-> <<P, Q>>] @@ 10 :> None(0)),
   NewWorld("cellar1", <<C(10, 1), C(50, 1), C(30, 1), C(10, 1)>>, 60,
            10 :> [count |-> 1, textures |-> <<Q>>] @@ 50 :> None(0) @@ 30 :> None(1001)),
   [name |-> "gone", chunks |-> <<C(10, 1)>>, file |-> Null],
   NewWorld("flat", <<C(0, 1), C(0, 1)>>, 20, <<>>),
   [name |-> "empty", chunks |-> <<>>, file |-> Null],
   NewWorld("bog2", <<C(4, 1)>>, 44,
            4 :> [count |-> 1, textures |-> <<Picture(96, 64, {<<1, 1, 1, 0>>, <<0, 1, 0, 0>>})>>])}
===============================================================================
