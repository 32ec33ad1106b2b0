--------------------------- MODULE VerilogTokens ---------------------------
(***************************************************************************)
(* The lexemes the Verilog grammar names (generated/grammar.peg.c):        *)
(* keywords, system tasks and the classes of names and literals.           *)
(***************************************************************************)
EXTENDS Peg

ID     == Class("NAME")
NUMBER == Class("NUMBER")
FLOAT  == Class("FLOAT")
STR    == Class("STRING")

KW_ALWAYS == Tok("always")
KW_ALWAYS_COMB == Tok("always_comb")
KW_ALWAYS_FF == Tok("always_ff")
KW_ALWAYS_LATCH == Tok("always_latch")
KW_ASSIGN == Tok("assign")
KW_AUTOMATIC == Tok("automatic")
KW_BEGIN == Tok("begin")
KW_CASE == Tok("case")
KW_CASEZ == Tok("casez")
KW_DEFAULT == Tok("default")
KW_DEFPARAM == Tok("defparam")
KW_DISABLE == Tok("disable")
KW_ELSE == Tok("else")
KW_END == Tok("end")
KW_ENDCASE == Tok("endcase")
KW_ENDFUNCTION == Tok("endfunction")
KW_ENDINTERFACE == Tok("endinterface")
KW_ENDMODULE == Tok("endmodule")
KW_ENDPACKAGE == Tok("endpackage")
KW_ENDTASK == Tok("endtask")
KW_EVENT == Tok("event")
KW_FOR == Tok("for")
KW_FORCE == Tok("force")
KW_FOREVER == Tok("forever")
KW_FUNCTION == Tok("function")
KW_GENVAR == Tok("genvar")
KW_IF == Tok("if")
KW_IMPORT == Tok("import")
KW_INITIAL == Tok("initial")
KW_INOUT == Tok("inout")
KW_INPUT == Tok("input")
KW_INTEGER == Tok("integer")
KW_INTERFACE == Tok("interface")
KW_LOCALPARAM == Tok("localparam")
KW_LOGIC == Tok("logic")
KW_LONGINT == Tok("longint")
KW_MODPORT == Tok("modport")
KW_MODULE == Tok("module")
KW_NEGEDGE == Tok("negedge")
KW_OR == Tok("or")
KW_OUTPUT == Tok("output")
KW_PACKAGE == Tok("package")
KW_PARAMETER == Tok("parameter")
KW_POSEDGE == Tok("posedge")
KW_REAL == Tok("real")
KW_REG == Tok("reg")
KW_RELEASE == Tok("release")
KW_REPEAT == Tok("repeat")
KW_SIGNED == Tok("signed")
KW_SUPPLY0 == Tok("supply0")
KW_SUPPLY1 == Tok("supply1")
KW_TASK == Tok("task")
KW_TRI == Tok("tri")
KW_TRI0 == Tok("tri0")
KW_TRI1 == Tok("tri1")
KW_TRIAND == Tok("triand")
KW_TRIOR == Tok("trior")
KW_TRIREG == Tok("trireg")
KW_UWIRE == Tok("uwire")
KW_WAIT == Tok("wait")
KW_WAND == Tok("wand")
KW_WHILE == Tok("while")
KW_WIRE == Tok("wire")
KW_WOR == Tok("wor")

SYS_BITSTOREAL == Tok("$bitstoreal")
SYS_CEIL == Tok("$ceil")
SYS_CLOG2 == Tok("$clog2")
SYS_DISPLAY == Tok("$display")
SYS_DUMPFILE == Tok("$dumpfile")
SYS_DUMPOFF == Tok("$dumpoff")
SYS_DUMPON == Tok("$dumpon")
SYS_DUMPVARS == Tok("$dumpvars")
SYS_ERROR == Tok("$error")
SYS_FATAL == Tok("$fatal")
SYS_FCLOSE == Tok("$fclose")
SYS_FDISPLAY == Tok("$fdisplay")
SYS_FINISH == Tok("$finish")
SYS_FLOOR == Tok("$floor")
SYS_FOPEN == Tok("$fopen")
SYS_FWRITE == Tok("$fwrite")
SYS_INFO == Tok("$info")
SYS_ITOR == Tok("$itor")
SYS_MONITOR == Tok("$monitor")
SYS_PRINTTIMESCALE == Tok("$printtimescale")
SYS_RANDOM == Tok("$random")
SYS_READMEMH == Tok("$readmemh")
SYS_REALTIME == Tok("$realtime")
SYS_REALTOBITS == Tok("$realtobits")
SYS_RTOI == Tok("$rtoi")
SYS_SDF_ANNOTATE == Tok("$sdf_annotate")
SYS_SIGNED == Tok("$signed")
SYS_SQRT == Tok("$sqrt")
SYS_STOP == Tok("$stop")
SYS_TEST_PLUSARGS == Tok("$test$plusargs")
SYS_TIME == Tok("$time")
SYS_TIMEFORMAT == Tok("$timeformat")
SYS_UNSIGNED == Tok("$unsigned")
SYS_VALUE_PLUSARGS == Tok("$value$plusargs")
SYS_WARNING == Tok("$warning")
SYS_WRITE == Tok("$write")
SYS_WRITEMEMH == Tok("$writememh")

AND == Tok("&")
ARROW == Tok("->")
ASR == Tok(">>>")
ASSIGN == Tok("=")
AT == Tok("@")
ATTR_CLOSE == Tok("*)")
ATTR_OPEN == Tok("(*")
CASE_EQ == Tok("===")
CASE_NEQ == Tok("!==")
COLON == Tok(":")
COMMA == Tok(",")
DBL_COLON == Tok("::")
DOT == Tok(".")
EQ == Tok("==")
GE == Tok(">=")
GT == Tok(">")
HASH == Tok("#")
LAND == Tok("&&")
LBRACE == Tok("{")
LBRACKET == Tok("[")
LE == Tok("<=")
LNOT == Tok("!")
LOR == Tok("||")
LPAREN == Tok("(")
LT == Tok("<")
MINUS == Tok("-")
MINUSCOLON == Tok("-:")
NEQ == Tok("!=")
OR == Tok("|")
PERCENT == Tok("%")
PLUS == Tok("+")
PLUSCOLON == Tok("+:")
QUESTION == Tok("?")
RBRACE == Tok("}")
RBRACKET == Tok("]")
RPAREN == Tok(")")
SEMI == Tok(";")
SHL == Tok("<<")
SHR == Tok(">>")
SLASH == Tok("/")
STAR == Tok("*")
TILDE == Tok("~")
XOR == Tok("^")

=============================================================================
