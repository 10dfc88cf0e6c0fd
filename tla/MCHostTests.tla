----------------------------- MODULE MCHostTests -----------------------------
(* Tests with one observed word, one for each kind of observation.  The     *)
(* word 98 is <<2, 0, 2, 1>>: its first bytes look like a response.         *)
EXTENDS HostTests

Li(r, v) == I("li", r, "x0", v)
Sw(r, b, n) == [I("store", r, b, n) EXCEPT !.form = "teaching"]
Lw(r, b, n) == [I("load", r, b, n) EXCEPT !.form = "teaching"]
AsInG3Test1 == [spec |-> [kind |-> "int_regs", what |-> <<"x8">>],
  inits |-> {I("addi", "x1", "x0", 4), I("addi", "x9", "x0", 0)},
  sources |-> <<<<Li("x2", 98), I("addi", "x1", "x0", 4), Sw("x2", "x1", 4),
                  I("addi", "x9", "x0", 0), Lw("x8", "x9", 8)>>>>]
AsInG5Test1 == [spec |-> [kind |-> "fp_regs", what |-> <<"f0">>], inits |-> {},
  sources |-> <<<<I("spin", "x0", "x0", 0)>>,
                <<Li("x5", 98), Sw("x5", "x0", 0), Lw("f0", "x0", 0)>>>>]
AsInG5Test2 == [spec |-> [kind |-> "memory_words", what |-> <<48>>],
  inits |-> {I("addi", "x9", "x0", 48)},
  sources |-> <<<<Li("x5", 98), I("addi", "x9", "x0", 48), Sw("x5", "x9", 0)>>>>]

AllTests == {AsInG3Test1, AsInG5Test1, AsInG5Test2}
OneTest == {AsInG5Test2}
PlainExtras == {<<1>>, <<2>>}
LikeAResponse == {<<2, 0, 2>>}
=============================================================================
