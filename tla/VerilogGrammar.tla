--------------------------- MODULE VerilogGrammar ---------------------------
(***************************************************************************)
(* The Verilog grammar as the generated matchers are (generated/           *)
(* grammar.peg.c), rule by rule and alternative by alternative; a matcher  *)
(* yy_expr is expr.  Left out are the rules of generate blocks (modelled   *)
(* in Generates), of specify blocks and of primitives, and the rules below *)
(* a lexeme: a text here has none of these constructs.                     *)
(***************************************************************************)
EXTENDS BodyActions, VerilogTokens

-----------------------------------------------------------------------------
(* Expressions.                                                             *)
expr_list == Opt(All(<<Rule("expr"), Many(All(<<COMMA, Rule("expr")>>))>>))
concat_expr ==
  OneOf(<<All(<<LBRACE, NUMBER, Then(concat_expr_do[1]), Then(concat_expr_do[2]), LBRACE,
                Rule("expr"), RBRACE, Then(concat_expr_do[3]),
                Opt(All(<<COMMA, Rule("expr_list")>>)), RBRACE, Then(concat_expr_do[4])>>),
          All(<<LBRACE, Then(concat_expr_do[5]), Rule("expr_list"), RBRACE,
                Then(concat_expr_do[6])>>)>>)
primary_expr ==
  OneOf(<<All(<<LPAREN, Rule("expr"), RPAREN>>),
          All(<<SYS_SIGNED, LPAREN, Rule("expr"), RPAREN, Then(primary_expr_do[1])>>),
          All(<<SYS_UNSIGNED, LPAREN, Rule("expr"), RPAREN, Then(primary_expr_do[2])>>),
          All(<<SYS_BITSTOREAL, LPAREN, Rule("expr"), RPAREN, Then(primary_expr_30)>>),
          All(<<SYS_REALTOBITS, LPAREN, Rule("expr"), RPAREN, Then(primary_expr_31)>>),
          All(<<SYS_SQRT, LPAREN, Rule("expr"), RPAREN, Then(primary_expr_32)>>),
          All(<<SYS_FLOOR, LPAREN, Rule("expr"), RPAREN, Then(primary_expr_33)>>),
          All(<<SYS_CEIL, LPAREN, Rule("expr"), RPAREN, Then(primary_expr_34)>>),
          All(<<SYS_RTOI, LPAREN, Rule("expr"), RPAREN, Then(primary_expr_35)>>),
          All(<<SYS_ITOR, LPAREN, Rule("expr"), RPAREN, Then(primary_expr_36)>>),
          All(<<SYS_CLOG2, LPAREN, Rule("expr"), RPAREN, Then(primary_expr_do[3])>>),
          All(<<SYS_TIME, LPAREN, RPAREN, Then(primary_expr_do[4])>>),
          All(<<SYS_TIME, Then(primary_expr_do[5])>>),
          All(<<SYS_REALTIME, LPAREN, RPAREN, Then(primary_expr_do[6])>>),
          All(<<SYS_REALTIME, Then(primary_expr_do[7])>>),
          All(<<SYS_RANDOM, LPAREN, Rule("expr"), RPAREN, Then(primary_expr_do[8])>>),
          All(<<SYS_RANDOM, LPAREN, RPAREN, Then(primary_expr_do[9])>>),
          All(<<SYS_RANDOM, Then(primary_expr_do[10])>>),
          All(<<SYS_FOPEN, LPAREN, STR, RPAREN, Then(primary_expr_do[11])>>),
          All(<<ID, LBRACKET, Then(primary_expr_do[12]), Rule("expr"), PLUSCOLON, Rule("expr"),
                RBRACKET, Then(primary_expr_do[13])>>),
          All(<<ID, LBRACKET, Then(primary_expr_do[14]), Rule("expr"), MINUSCOLON, Rule("expr"),
                RBRACKET, Then(primary_expr_do[15])>>),
          All(<<ID, LBRACKET, Then(primary_expr_do[16]), Rule("expr"), COLON, Rule("expr"),
                RBRACKET, Then(primary_expr_do[17])>>),
          All(<<ID, LBRACKET, Then(primary_expr_28), Rule("expr"), RBRACKET,
                Then(primary_expr_do[19]), LBRACKET, Rule("expr"), COLON, Rule("expr"),
                RBRACKET, Then(primary_expr_29)>>),
          All(<<ID, LBRACKET, Then(primary_expr_do[18]), Rule("expr"), RBRACKET,
                Then(primary_expr_do[19]), LBRACKET, Rule("expr"), RBRACKET,
                Then(primary_expr_do[20]),
                Many(All(<<LBRACKET, Rule("expr"), RBRACKET, Then(primary_expr_do[20])>>)),
                Then(primary_expr_do[21])>>),
          All(<<ID, LBRACKET, Then(primary_expr_do[22]), Rule("expr"), RBRACKET,
                Then(primary_expr_do[23])>>),
          All(<<ID, Then(primary_expr_do[24]), LPAREN, Rule("expr_list"), RPAREN,
                Then(primary_expr_do[25])>>),
          All(<<ID, Then(hier_save), DOT, ID, Then(hier_append),
                Many(All(<<DOT, ID, Then(hier_append)>>)),
                Opt(All(<<LBRACKET, Rule("expr"), RBRACKET, Then(primary_expr_37)>>)),
                Then(hier_push)>>),
          All(<<ID, Then(primary_expr_do[26])>>),
          All(<<FLOAT, Then(primary_expr_27)>>),
          All(<<NUMBER, Then(primary_expr_27)>>),
          concat_expr>>)
unary_expr ==
  OneOf(<<All(<<PLUS, Rule("unary_expr"), Then(unary_expr_do[1])>>),
          All(<<MINUS, Rule("unary_expr"), Then(unary_expr_do[2])>>),
          All(<<TILDE, AND, Rule("unary_expr"), Then(unary_expr_do[3])>>),
          All(<<TILDE, OR, Rule("unary_expr"), Then(unary_expr_do[4])>>),
          All(<<TILDE, XOR, Rule("unary_expr"), Then(unary_expr_do[5])>>),
          All(<<XOR, TILDE, Rule("unary_expr"), Then(unary_expr_do[6])>>),
          All(<<TILDE, Rule("unary_expr"), Then(unary_expr_do[7])>>),
          All(<<LNOT, Rule("unary_expr"), Then(unary_expr_do[8])>>),
          All(<<AND, Rule("unary_expr"), Then(unary_expr_do[9])>>),
          All(<<OR, Rule("unary_expr"), Then(unary_expr_do[10])>>),
          All(<<XOR, Rule("unary_expr"), Then(unary_expr_do[11])>>),
          primary_expr>>)
mul_expr ==
  All(<<Rule("unary_expr"),
        Many(OneOf(<<All(<<STAR, Rule("unary_expr"), Then(mul_expr_do[1])>>),
                     All(<<SLASH, Rule("unary_expr"), Then(mul_expr_do[2])>>),
                     All(<<PERCENT, Rule("unary_expr"), Then(mul_expr_do[3])>>)>>))>>)
add_expr ==
  All(<<Rule("mul_expr"),
        Many(OneOf(<<All(<<PLUS, Rule("mul_expr"), Then(add_expr_do[1])>>),
                     All(<<MINUS, Rule("mul_expr"), Then(add_expr_do[2])>>)>>))>>)
shift_expr ==
  All(<<Rule("add_expr"),
        Many(OneOf(<<All(<<SHL, Rule("add_expr"), Then(shift_expr_do[1])>>),
                     All(<<ASR, Rule("add_expr"), Then(shift_expr_do[2])>>),
                     All(<<SHR, Rule("add_expr"), Then(shift_expr_do[3])>>)>>))>>)
rel_expr ==
  All(<<Rule("shift_expr"),
        Many(OneOf(<<All(<<LT, Rule("shift_expr"), Then(rel_expr_do[1])>>),
                     All(<<GT, Rule("shift_expr"), Then(rel_expr_do[2])>>),
                     All(<<LE, Rule("shift_expr"), Then(rel_expr_do[3])>>),
                     All(<<GE, Rule("shift_expr"), Then(rel_expr_do[4])>>)>>))>>)
eq_expr ==
  All(<<Rule("rel_expr"),
        Many(OneOf(<<All(<<CASE_EQ, Rule("rel_expr"), Then(eq_expr_do[1])>>),
                     All(<<CASE_NEQ, Rule("rel_expr"), Then(eq_expr_do[2])>>),
                     All(<<EQ, Rule("rel_expr"), Then(eq_expr_do[1])>>),
                     All(<<NEQ, Rule("rel_expr"), Then(eq_expr_do[2])>>)>>))>>)
bitand_expr ==
  All(<<Rule("eq_expr"), Many(All(<<AND, Rule("eq_expr"), Then(bitand_expr_1)>>))>>)
bitxor_expr ==
  All(<<Rule("bitand_expr"), Many(All(<<XOR, Rule("bitand_expr"), Then(bitxor_expr_1)>>))>>)
bitor_expr ==
  All(<<Rule("bitxor_expr"), Many(All(<<OR, Rule("bitxor_expr"), Then(bitor_expr_1)>>))>>)
logand_expr ==
  All(<<Rule("bitor_expr"), Many(All(<<LAND, Rule("bitor_expr"), Then(logand_expr_1)>>))>>)
logor_expr ==
  All(<<Rule("logand_expr"), Many(All(<<LOR, Rule("logand_expr"), Then(logor_expr_1)>>))>>)
cond_expr ==
  All(<<logor_expr,
        Opt(All(<<QUESTION, Rule("expr"), COLON, Rule("cond_expr"), Then(cond_expr_1)>>))>>)
expr == cond_expr

-----------------------------------------------------------------------------
(* Statements.                                                              *)
delay_control == All(<<HASH, Rule("expr"), Then(delay_control_1)>>)
event_control ==
  OneOf(<<All(<<AT, LPAREN,
                Opt(OneOf(<<All(<<KW_POSEDGE, Then(event_control_do[1])>>),
                            All(<<KW_NEGEDGE, Then(event_control_do[2])>>)>>)), ID,
                Then(event_control_do[3]), RPAREN>>),
          All(<<AT, ID, Then(event_control_do[4])>>)>>)
trigger_stmt == All(<<ARROW, ID, SEMI, Then(trigger_stmt_1)>>)
wait_stmt ==
  All(<<KW_WAIT, LPAREN, Rule("expr"), RPAREN, Rule("statement"), Then(wait_stmt_1)>>)
range ==
  All(<<LBRACKET, NUMBER, Then(range_do[1]), COLON, NUMBER, Then(range_do[2]), RBRACKET,
        Then(range_do[3])>>)
range_opt == OneOf(<<range, Then(range_opt_1)>>)
array_range ==
  All(<<LBRACKET, NUMBER, Then(array_range_do[1]), COLON, NUMBER, Then(array_range_do[2]), RBRACKET,
        Then(array_range_do[3])>>)
array_dims_opt == Many(array_range)
reg_decl ==
  All(<<KW_REG, Then(reg_decl_do[1]), Opt(All(<<KW_SIGNED, Then(reg_decl_do[2])>>)),
        Rule("range_opt"), ID, Then(reg_decl_do[3]), Rule("array_dims_opt"),
        Opt(All(<<ASSIGN, Rule("expr"), Then(reg_decl_do[4])>>)), Then(reg_decl_do[5]),
        Many(All(<<COMMA, ID, Then(reg_decl_do[6]), Rule("array_dims_opt"),
                   Opt(All(<<ASSIGN, Rule("expr"), Then(reg_decl_do[7])>>)),
                     Then(reg_decl_do[8])>>)),
        SEMI>>)
integer_decl ==
  All(<<KW_INTEGER, ID, Then(integer_decl_do[1]),
        Opt(All(<<ASSIGN, Rule("expr"), Then(integer_decl_3)>>)),
        Many(All(<<COMMA, ID, Then(integer_decl_do[2]),
                   Opt(All(<<ASSIGN, Rule("expr"), Then(integer_decl_3)>>))>>)), SEMI,
        Then(integer_decl_4)>>)
real_decl ==
  All(<<KW_REAL, ID, Then(real_decl_1), Many(All(<<COMMA, ID, Then(real_decl_1)>>)), SEMI>>)
longint_decl ==
  All(<<KW_LONGINT, ID, Then(longint_decl_1),
        Many(All(<<COMMA, ID, Then(longint_decl_1)>>)), SEMI>>)
seq_block ==
  OneOf(<<All(<<KW_BEGIN, COLON, ID, Then(seq_block_do[1]),
                Many(OneOf(<<Rule("reg_decl"),
                             Rule("integer_decl"),
                             Rule("real_decl"),
                             Rule("longint_decl")>>)), Many(Rule("statement")), KW_END,
                Then(seq_block_do[2])>>),
          All(<<KW_BEGIN,
                Many(OneOf(<<Rule("reg_decl"),
                             Rule("integer_decl"),
                             Rule("real_decl"),
                             Rule("longint_decl")>>)), Many(Rule("statement")), KW_END>>)>>)
if_stmt ==
  All(<<KW_IF, LPAREN, Rule("expr"), RPAREN, Then(if_stmt_do[1]), Rule("statement"),
        Opt(All(<<KW_ELSE, Then(if_stmt_do[2]), Rule("statement")>>)), Then(if_stmt_do[3])>>)
default_item ==
  All(<<KW_DEFAULT, COLON, Then(default_item_do[1]), Rule("statement"), Then(default_item_do[2])>>)
pattern_item ==
  All(<<Rule("expr"), Many(All(<<COMMA, Rule("expr")>>)), COLON, Then(pattern_item_do[1]),
        Rule("statement"), Then(pattern_item_do[2])>>)
case_item == OneOf(<<default_item, pattern_item>>)
case_item_list == Many(case_item)
case_stmt ==
  All(<<KW_CASE, LPAREN, Rule("expr"), RPAREN, Then(case_stmt_do[1]), Rule("case_item_list"),
        KW_ENDCASE, Then(case_stmt_do[2])>>)
casez_stmt ==
  All(<<KW_CASEZ, LPAREN, Rule("expr"), RPAREN, Then(casez_stmt_do[1]), Rule("case_item_list"),
        KW_ENDCASE, Then(casez_stmt_do[2])>>)
blocking_assign ==
  All(<<OneOf(<<All(<<ID, Then(blocking_assign_do[1]),
                      Many(All(<<DOT, ID, Then(hier_append)>>)),
                      Opt(OneOf(<<All(<<LBRACKET, Rule("expr"), RBRACKET,
                                        Then(blocking_assign_do[2]), LBRACKET, Rule("expr"),
                                        RBRACKET, Then(blocking_assign_do[3]),
                                        Many(All(<<LBRACKET, Rule("expr"), RBRACKET,
                                                   Then(blocking_assign_do[3])>>))>>),
                                  All(<<LBRACKET, Rule("expr"), COLON, Rule("expr"),
                                        RBRACKET, Then(blocking_assign_do[4])>>),
                                  All(<<LBRACKET, Rule("expr"), RBRACKET,
                                        Then(blocking_assign_do[5])>>)>>))>>),
                All(<<LBRACE, Then(blocking_assign_do[6]), ID, Then(blocking_assign_do[7]),
                      Many(All(<<COMMA, ID, Then(blocking_assign_do[8])>>)), RBRACE>>)>>),
        ASSIGN, Rule("expr"), Then(blocking_assign_do[9])>>)
for_stmt ==
  All(<<KW_FOR, LPAREN,
        OneOf(<<All(<<KW_INTEGER, ID, Then(for_stmt_6), ASSIGN, Rule("expr"),
                      Then(for_stmt_7)>>),
                All(<<Rule("blocking_assign"), Then(for_stmt_do[1])>>)>>), SEMI, Rule("expr"),
        Then(for_stmt_do[2]), SEMI, Rule("blocking_assign"), Then(for_stmt_do[3]), RPAREN,
        Then(for_stmt_do[4]), Rule("statement"), Then(for_stmt_do[5])>>)
repeat_stmt ==
  All(<<KW_REPEAT, LPAREN, Rule("expr"), Then(repeat_stmt_do[1]), RPAREN, Then(repeat_stmt_do[2]),
        Rule("statement"), Then(repeat_stmt_do[3])>>)
while_stmt ==
  All(<<KW_WHILE, LPAREN, Rule("expr"), Then(while_stmt_do[1]), RPAREN, Then(while_stmt_do[2]),
        Rule("statement"), Then(while_stmt_do[3])>>)
forever_stmt ==
  All(<<KW_FOREVER, Then(forever_stmt_do[1]), Rule("statement"), Then(forever_stmt_do[2])>>)
disable_stmt == All(<<KW_DISABLE, ID, SEMI, Then(disable_stmt_1)>>)
force_stmt ==
  All(<<KW_FORCE, ID, Then(force_stmt_do[1]), ASSIGN, Rule("expr"), SEMI, Then(force_stmt_do[2])>>)
release_stmt == All(<<KW_RELEASE, ID, Then(release_stmt_do[1]), SEMI, Then(release_stmt_do[2])>>)
nonblocking_assign ==
  All(<<OneOf(<<All(<<ID, Then(nonblocking_assign_do[1]),
                      Many(All(<<DOT, ID, Then(hier_append)>>)),
                      Opt(OneOf(<<All(<<LBRACKET, Rule("expr"), RBRACKET,
                                        Then(nonblocking_assign_do[2]), LBRACKET, Rule("expr"),
                                        RBRACKET, Then(nonblocking_assign_do[3]),
                                        Many(All(<<LBRACKET, Rule("expr"), RBRACKET,
                                                   Then(nonblocking_assign_do[3])>>))>>),
                                  All(<<LBRACKET, Rule("expr"), COLON, Rule("expr"),
                                        RBRACKET, Then(nonblocking_assign_do[4])>>),
                                  All(<<LBRACKET, Rule("expr"), RBRACKET,
                                        Then(nonblocking_assign_do[5])>>)>>))>>),
                All(<<LBRACE, Then(nonblocking_assign_do[6]), ID, Then(nonblocking_assign_do[7]),
                      Many(All(<<COMMA, ID, Then(nonblocking_assign_do[8])>>)), RBRACE>>)>>),
        LE, Rule("expr"), Then(nonblocking_assign_do[9])>>)
system_task ==
  OneOf(<<All(<<SYS_READMEMH, LPAREN, STR, Then(system_task_do[1]), COMMA, ID, Then(hier_save),
                Many(All(<<DOT, ID, Then(hier_append)>>)), RPAREN, SEMI,
                Then(system_task_do[2])>>),
          All(<<SYS_WRITEMEMH, LPAREN, STR, Then(system_task_do[3]), COMMA, ID, RPAREN, SEMI,
                Then(system_task_do[4])>>),
          All(<<SYS_DISPLAY, LPAREN, STR, Then(system_task_do[5]),
                Opt(All(<<COMMA, Rule("expr_list")>>)), RPAREN, SEMI, Then(system_task_do[6])>>),
          All(<<SYS_WRITE, LPAREN, STR, Then(system_task_do[7]),
                Opt(All(<<COMMA, Rule("expr_list")>>)), RPAREN, SEMI, Then(system_task_do[8])>>),
          All(<<SYS_MONITOR, LPAREN, STR, Then(system_task_do[9]),
                Opt(All(<<COMMA, Rule("expr_list")>>)), RPAREN, SEMI, Then(system_task_do[10])>>),
          All(<<SYS_STOP, LPAREN, Rule("expr"), RPAREN, SEMI, Then(system_task_do[11])>>),
          All(<<SYS_STOP, SEMI, Then(system_task_do[12])>>),
          All(<<SYS_FINISH, LPAREN, Rule("expr"), RPAREN, SEMI, Then(system_task_do[13])>>),
          All(<<SYS_FINISH, SEMI, Then(system_task_do[14])>>),
          All(<<SYS_FATAL, LPAREN, STR, Then(system_task_do[15]),
                Opt(All(<<COMMA, Rule("expr_list")>>)), RPAREN, SEMI, Then(system_task_do[16])>>),
          All(<<SYS_ERROR, LPAREN, STR, Then(system_task_do[17]),
                Opt(All(<<COMMA, Rule("expr_list")>>)), RPAREN, SEMI, Then(system_task_do[18])>>),
          All(<<SYS_WARNING, LPAREN, STR, Then(system_task_do[19]),
                Opt(All(<<COMMA, Rule("expr_list")>>)), RPAREN, SEMI, Then(system_task_do[20])>>),
          All(<<SYS_INFO, LPAREN, STR, Then(system_task_do[21]),
                Opt(All(<<COMMA, Rule("expr_list")>>)), RPAREN, SEMI, Then(system_task_do[22])>>),
          All(<<SYS_DUMPFILE, LPAREN, STR, RPAREN, SEMI, Then(system_task_do[23])>>),
          All(<<SYS_DUMPVARS,
                Opt(OneOf(<<All(<<LPAREN, Rule("expr"), Then(system_task_do[7]),
                                  Many(All(<<COMMA, Rule("expr"), Then(system_task_do[7])>>)),
                                  RPAREN>>),
                            All(<<LPAREN, RPAREN>>)>>)), SEMI, Then(system_task_do[24])>>),
          All(<<SYS_DUMPON, Opt(All(<<LPAREN, RPAREN>>)), SEMI, Then(system_task_do[25])>>),
          All(<<SYS_DUMPOFF, Opt(All(<<LPAREN, RPAREN>>)), SEMI, Then(system_task_do[26])>>),
          All(<<SYS_VALUE_PLUSARGS, LPAREN, STR, Then(system_task_do[27]), COMMA, ID, RPAREN,
                SEMI, Then(system_task_do[28])>>),
          All(<<SYS_TEST_PLUSARGS, LPAREN, STR, RPAREN, SEMI, Then(system_task_do[29])>>),
          All(<<SYS_FWRITE, LPAREN, Then(system_task_do[30]), Rule("expr"), COMMA, STR,
                Then(system_task_do[31]), Opt(All(<<COMMA, Rule("expr_list")>>)), RPAREN, SEMI,
                Then(system_task_do[32])>>),
          All(<<SYS_FDISPLAY, LPAREN, Then(system_task_do[33]), Rule("expr"), COMMA, STR,
                Then(system_task_do[34]), Opt(All(<<COMMA, Rule("expr_list")>>)), RPAREN, SEMI,
                Then(system_task_do[35])>>),
          All(<<SYS_FCLOSE, LPAREN, Then(system_task_do[36]), Rule("expr"), RPAREN, SEMI,
                Then(system_task_do[37])>>),
          All(<<SYS_TIMEFORMAT, LPAREN, Then(system_task_do[38]), Rule("expr"), COMMA,
                Rule("expr"), COMMA, STR, Then(system_task_do[39]), COMMA, Rule("expr"), RPAREN,
                SEMI, Then(system_task_do[40])>>),
          All(<<SYS_PRINTTIMESCALE, LPAREN, STR, RPAREN, SEMI, Then(system_task_do[41])>>),
          All(<<SYS_PRINTTIMESCALE, SEMI, Then(system_task_do[42])>>),
          All(<<SYS_SDF_ANNOTATE, LPAREN, STR, Then(system_task_do[43]),
                Opt(All(<<COMMA, ID>>)), RPAREN, SEMI, Then(system_task_do[44])>>)>>)
task_enable ==
  All(<<ID, Then(task_enable_do[1]), LPAREN, Rule("expr_list"), RPAREN, SEMI,
        Then(task_enable_do[2])>>)
statement ==
  OneOf(<<All(<<Rule("delay_control"), Rule("statement"), Then(statement_do[1])>>),
          All(<<event_control, Rule("statement"), Then(statement_do[2])>>),
          trigger_stmt,
          wait_stmt,
          Rule("seq_block"),
          if_stmt,
          case_stmt,
          casez_stmt,
          for_stmt,
          repeat_stmt,
          while_stmt,
          forever_stmt,
          disable_stmt,
          force_stmt,
          release_stmt,
          All(<<Rule("blocking_assign"), SEMI>>),
          All(<<nonblocking_assign, SEMI>>),
          system_task,
          task_enable,
          SEMI>>)

-----------------------------------------------------------------------------
(* Declarations, processes, instances, files.                               *)
net_type ==
  OneOf(<<All(<<KW_WIRE, Then(net_type_do[1])>>),
          All(<<KW_TRI, Then(net_type_do[2])>>),
          All(<<KW_WAND, Then(net_type_do[3])>>),
          All(<<KW_WOR, Then(net_type_do[4])>>),
          All(<<KW_TRI0, Then(net_type_do[5])>>),
          All(<<KW_TRI1, Then(net_type_do[6])>>),
          All(<<KW_TRIAND, Then(net_type_do[7])>>),
          All(<<KW_TRIOR, Then(net_type_do[8])>>),
          All(<<KW_TRIREG, Then(net_type_do[9])>>),
          All(<<KW_SUPPLY0, Then(net_type_do[10])>>),
          All(<<KW_SUPPLY1, Then(net_type_do[11])>>),
          All(<<KW_UWIRE, Then(net_type_do[12])>>)>>)
net_decl ==
  All(<<net_type, Then(net_decl_do[1]), Opt(All(<<KW_SIGNED, Then(net_decl_do[2])>>)),
        Rule("range_opt"), ID, Then(net_decl_do[3]), Rule("array_dims_opt"),
        Opt(All(<<ASSIGN, Rule("expr"), Then(net_decl_do[4])>>)), Then(net_decl_do[5]),
        Many(All(<<COMMA, ID, Then(net_decl_do[6]), Rule("array_dims_opt"),
                   Opt(All(<<ASSIGN, Rule("expr"), Then(net_decl_do[7])>>)),
                     Then(net_decl_do[8])>>)),
        SEMI>>)
assign_stmt ==
  All(<<KW_ASSIGN, Opt(Rule("delay_control")),
        OneOf(<<All(<<ID, Then(assign_stmt_do[1]), Many(All(<<DOT, ID, Then(hier_append)>>)),
                      Opt(OneOf(<<All(<<LBRACKET, Rule("expr"), COLON, Rule("expr"),
                                        RBRACKET, Then(assign_stmt_do[2])>>),
                                  All(<<LBRACKET, Rule("expr"), RBRACKET,
                                        Then(assign_stmt_do[3])>>)>>))>>),
                All(<<LBRACE, Then(assign_stmt_do[4]), ID, Then(assign_stmt_do[5]),
                      Many(All(<<COMMA, ID, Then(assign_stmt_do[6])>>)), RBRACE>>)>>), ASSIGN,
        Rule("expr"), Then(assign_stmt_do[7]), SEMI>>)
sens_item ==
  All(<<Opt(OneOf(<<All(<<KW_POSEDGE, Then(sens_item_do[1])>>),
                    All(<<KW_NEGEDGE, Then(sens_item_do[2])>>)>>)), ID, Then(sens_item_do[3])>>)
sens_list ==
  All(<<Rule("sens_item"), Many(All(<<OneOf(<<COMMA, KW_OR>>), Rule("sens_item")>>))>>)
sensitivity_stmt ==
  OneOf(<<All(<<AT, LPAREN, sens_list, RPAREN>>),
          All(<<AT, LPAREN, STAR, RPAREN, Then(sensitivity_stmt_1)>>)>>)
always_stmt ==
  All(<<KW_ALWAYS, Then(always_stmt_do[1]), Opt(Rule("sensitivity_stmt")), Rule("statement"),
        Then(always_stmt_do[2])>>)
always_comb_stmt ==
  All(<<KW_ALWAYS_COMB, Then(always_comb_stmt_do[1]), Rule("statement"),
        Then(always_comb_stmt_do[2])>>)
always_ff_stmt ==
  All(<<KW_ALWAYS_FF, Then(always_ff_stmt_do[1]), Rule("sensitivity_stmt"), Rule("statement"),
        Then(always_ff_stmt_do[2])>>)
always_latch_stmt ==
  All(<<KW_ALWAYS_LATCH, Then(always_latch_stmt_do[1]), Rule("statement"),
        Then(always_latch_stmt_do[2])>>)
initial_stmt ==
  All(<<KW_INITIAL, Then(initial_stmt_do[1]), Rule("statement"), Then(initial_stmt_do[2])>>)
conn_item ==
  OneOf(<<All(<<DOT, ID, Then(conn_item_do[1]), LPAREN, RPAREN, Then(conn_item_do[2])>>),
          All(<<DOT, ID, Then(conn_item_do[3]), LPAREN, ID, Then(conn_item_do[4]), DOT, ID,
                Then(conn_item_do[5]), RPAREN, Then(conn_item_do[6])>>),
          All(<<DOT, ID, Then(conn_item_do[7]), LPAREN, Rule("expr"), RPAREN,
                Then(conn_item_do[8])>>),
          All(<<Rule("expr"), Then(conn_item_do[9])>>)>>)
conn_list == Opt(All(<<Rule("conn_item"), Many(All(<<COMMA, Rule("conn_item")>>))>>))
module_inst ==
  All(<<ID, Then(module_inst_do[1]), ID, Then(module_inst_do[2]), LPAREN, conn_list, RPAREN, SEMI>>)
const_expr == expr
param_item ==
  All(<<Opt(KW_REAL), Rule("range_opt"), ID, Then(param_item_do[1]), ASSIGN, Rule("const_expr"),
        Then(param_item_do[2])>>)
mod_param_decl ==
  All(<<Opt(KW_PARAMETER), Rule("param_item"),
        Many(All(<<COMMA, Opt(KW_PARAMETER), Rule("param_item")>>))>>)
port_item ==
  OneOf(<<All(<<KW_INPUT, Then(port_item_do[1]),
                Opt(OneOf(<<All(<<KW_REG, Then(port_item_do[2])>>),
                            KW_WIRE,
                            All(<<KW_LOGIC, Then(port_item_do[3])>>),
                            All(<<KW_REAL, Then(port_item_23)>>)>>)),
                Opt(All(<<KW_SIGNED, Then(port_item_do[4])>>)), Rule("range_opt"), ID,
                Then(port_item_17), Rule("array_dims_opt"), Then(port_item_18)>>),
          All(<<KW_OUTPUT, Then(port_item_6),
                Opt(OneOf(<<All(<<KW_REG, Then(port_item_7)>>),
                            KW_WIRE,
                            All(<<KW_LOGIC, Then(port_item_8)>>),
                            All(<<KW_REAL, Then(port_item_23)>>)>>)),
                Opt(All(<<KW_SIGNED, Then(port_item_9)>>)), Rule("range_opt"), ID,
                Then(port_item_19), Rule("array_dims_opt"), Then(port_item_20)>>),
          All(<<KW_INOUT, Then(port_item_11),
                Opt(OneOf(<<All(<<KW_REG, Then(port_item_12)>>),
                            KW_WIRE,
                            All(<<KW_LOGIC, Then(port_item_13)>>),
                            All(<<KW_REAL, Then(port_item_23)>>)>>)),
                Opt(All(<<KW_SIGNED, Then(port_item_14)>>)), Rule("range_opt"), ID,
                Then(port_item_21), Rule("array_dims_opt"), Then(port_item_22)>>),
          All(<<ID, Then(port_item_16)>>)>>)
port_list == Opt(All(<<Rule("port_item"), Many(All(<<COMMA, Rule("port_item")>>))>>))
attr_list ==
  All(<<ATTR_OPEN, ID, Then(attr_list_do[1]),
        Opt(All(<<ASSIGN, OneOf(<<ID, NUMBER, STR>>), Then(attr_list_do[2])>>)),
        Many(All(<<COMMA, ID, Then(attr_list_do[3]),
                   Opt(All(<<ASSIGN, OneOf(<<ID, NUMBER, STR>>), Then(attr_list_do[4])>>))>>)),
        ATTR_CLOSE, Then(attr_list_do[5])>>)
logic_decl ==
  All(<<KW_LOGIC, Then(logic_decl_do[1]), Opt(All(<<KW_SIGNED, Then(logic_decl_do[2])>>)),
        Rule("range_opt"), ID, Then(logic_decl_do[3]), Rule("array_dims_opt"),
        Opt(All(<<ASSIGN, Rule("expr"), Then(logic_decl_do[4])>>)), Then(logic_decl_do[5]),
        Many(All(<<COMMA, ID, Then(logic_decl_do[6]), Rule("array_dims_opt"),
                   Opt(All(<<ASSIGN, Rule("expr"), Then(logic_decl_do[7])>>)),
                   Then(logic_decl_do[8])>>)), SEMI>>)
input_decl ==
  All(<<KW_INPUT, Then(input_decl_do[1]), Opt(All(<<KW_SIGNED, Then(input_decl_do[2])>>)),
        Rule("range_opt"), ID, Then(input_decl_do[3]), Rule("array_dims_opt"),
        Then(input_decl_do[4]),
        Many(All(<<COMMA, ID, Then(input_decl_do[5]), Rule("array_dims_opt"),
                   Then(input_decl_do[6])>>)), SEMI>>)
output_decl ==
  All(<<KW_OUTPUT, Then(output_decl_do[1]),
        Opt(OneOf(<<All(<<KW_REG, Then(output_decl_do[2])>>), KW_WIRE>>)),
        Opt(All(<<KW_SIGNED, Then(output_decl_do[3])>>)), Rule("range_opt"), ID,
        Then(output_decl_do[4]), Rule("array_dims_opt"), Then(output_decl_do[5]),
        Many(All(<<COMMA, ID, Then(output_decl_do[6]), Rule("array_dims_opt"),
                   Then(output_decl_do[7])>>)), SEMI>>)
inout_decl ==
  All(<<KW_INOUT, Then(inout_decl_do[1]), Opt(All(<<KW_SIGNED, Then(inout_decl_do[2])>>)),
        Rule("range_opt"), ID, Then(inout_decl_do[3]), Rule("array_dims_opt"),
        Then(inout_decl_do[4]),
        Many(All(<<COMMA, ID, Then(inout_decl_do[5]), Rule("array_dims_opt"),
                   Then(inout_decl_do[6])>>)), SEMI>>)
param_decl ==
  All(<<OneOf(<<KW_PARAMETER, KW_LOCALPARAM>>), Rule("param_item"),
        Many(All(<<COMMA, Rule("param_item")>>)), SEMI>>)
genvar_decl ==
  All(<<KW_GENVAR, ID, Then(genvar_decl_do[1]), Many(All(<<COMMA, ID, Then(genvar_decl_do[2])>>)),
        SEMI>>)
event_decl ==
  All(<<KW_EVENT, ID, Then(event_decl_do[1]), Many(All(<<COMMA, ID, Then(event_decl_do[2])>>)),
        SEMI>>)
defparam_stmt ==
  All(<<KW_DEFPARAM, ID, Then(defparam_stmt_do[1]),
        Many(All(<<DOT, ID, Then(defparam_stmt_do[2])>>)), ASSIGN, Rule("const_expr"),
        Then(defparam_stmt_do[3]),
        Many(All(<<COMMA, ID, Then(defparam_stmt_do[4]),
                   Many(All(<<DOT, ID, Then(defparam_stmt_do[5])>>)), ASSIGN,
                   Rule("const_expr"), Then(defparam_stmt_do[6])>>)), SEMI>>)
func_port_opt ==
  OneOf(<<All(<<LPAREN, Then(func_port_opt_do[1]), Rule("port_list"), RPAREN,
                Then(func_port_opt_do[2]), SEMI, Then(func_port_opt_do[3])>>),
          All(<<SEMI, Then(func_port_opt_do[4])>>)>>)
real_input_decl ==
  All(<<KW_INPUT, KW_REAL, ID, Then(real_input_decl_1),
        Many(All(<<COMMA, KW_REAL, ID, Then(real_input_decl_1)>>)), SEMI>>)
func_item_decl ==
  OneOf(<<Rule("input_decl"),
          Rule("reg_decl"),
          Rule("integer_decl"),
          Rule("real_decl"),
          Rule("longint_decl"),
          Rule("real_input_decl")>>)
function_decl ==
  All(<<KW_FUNCTION, Opt(All(<<KW_AUTOMATIC, Then(function_decl_do[1])>>)), Rule("range_opt"),
        ID, Then(function_decl_do[2]), func_port_opt, Many(func_item_decl), Rule("statement"),
        KW_ENDFUNCTION, Then(function_decl_do[3])>>)
task_item_decl ==
  OneOf(<<Rule("input_decl"),
          Rule("output_decl"),
          Rule("inout_decl"),
          Rule("reg_decl"),
          Rule("integer_decl"),
          Rule("real_decl"),
          Rule("longint_decl"),
          Rule("real_input_decl")>>)
task_decl ==
  All(<<KW_TASK, Opt(All(<<KW_AUTOMATIC, Then(task_decl_do[1])>>)), ID, Then(task_decl_do[2]), SEMI,
        Then(task_decl_do[3]), Many(task_item_decl), Rule("seq_block"), KW_ENDTASK,
        Then(task_decl_do[4])>>)
import_stmt ==
  OneOf(<<All(<<KW_IMPORT, ID, Then(import_stmt_do[1]), DBL_COLON, ID, SEMI,
                Then(import_stmt_do[2])>>),
          All(<<KW_IMPORT, ID, Then(import_stmt_do[3]), DBL_COLON, STAR, SEMI,
                Then(import_stmt_do[4])>>)>>)
module_body ==
  Many(All(<<Opt(Rule("attr_list")),
             OneOf(<<Rule("net_decl"),
                     Rule("reg_decl"),
                     Rule("logic_decl"),
                     Rule("integer_decl"),
                     Rule("real_decl"),
                     Rule("longint_decl"),
                     Rule("input_decl"),
                     Rule("output_decl"),
                     Rule("inout_decl"),
                     assign_stmt,
                     always_stmt,
                     always_comb_stmt,
                     always_ff_stmt,
                     always_latch_stmt,
                     initial_stmt,
                     module_inst,
                     Rule("param_decl"),
                     genvar_decl,
                     event_decl,
                     defparam_stmt,
                     function_decl,
                     task_decl,
                     import_stmt>>)>>))
module ==
  All(<<KW_MODULE, ID, Then(module_do[1]), Opt(All(<<HASH, LPAREN, mod_param_decl, RPAREN>>)),
        Opt(All(<<LPAREN, Rule("port_list"), RPAREN>>)), SEMI, module_body, KW_ENDMODULE,
        Then(module_do[2])>>)
modport_port ==
  All(<<OneOf(<<All(<<KW_INPUT, Then(modport_port_do[1])>>),
                All(<<KW_OUTPUT, Then(modport_port_do[2])>>),
                All(<<KW_INOUT, Then(modport_port_do[3])>>)>>), ID, Then(modport_port_do[4])>>)
modport_decl ==
  All(<<KW_MODPORT, ID, Then(modport_decl_1), LPAREN, Rule("modport_port"),
        Many(All(<<COMMA, Rule("modport_port")>>)), RPAREN, SEMI>>)
interface_body ==
  Many(All(<<Opt(Rule("attr_list")),
             OneOf(<<Rule("net_decl"),
                     Rule("reg_decl"),
                     Rule("logic_decl"),
                     Rule("integer_decl"),
                     Rule("real_decl"),
                     Rule("longint_decl"),
                     modport_decl>>)>>))
interface_decl ==
  All(<<KW_INTERFACE, ID, Then(interface_decl_do[1]),
        Opt(All(<<LPAREN, Rule("port_list"), RPAREN>>)), SEMI, interface_body,
        KW_ENDINTERFACE, Then(interface_decl_do[2])>>)
package_body == Many(Rule("param_decl"))
package_decl ==
  All(<<KW_PACKAGE, ID, Then(package_decl_1), SEMI, package_body, KW_ENDPACKAGE>>)
design_file ==
  All(<<OneOf(<<All(<<Rule("module"), Then(design_file_do[2])>>),
                All(<<Rule("interface_decl"), Then(design_file_do[3])>>),
                All(<<Rule("package_decl"), Then(design_file_do[4])>>)>>),
        Many(OneOf(<<All(<<Rule("module"), Then(design_file_do[2])>>),
                     All(<<Rule("interface_decl"), Then(design_file_do[3])>>),
                     All(<<Rule("package_decl"), Then(design_file_do[4])>>)>>)),
        Then(design_file_do[5])>>)

-----------------------------------------------------------------------------
\* The rules that are referred to by name.
Rules ==
  [expr_list |-> expr_list, unary_expr |-> unary_expr, mul_expr |-> mul_expr,
   add_expr |-> add_expr, shift_expr |-> shift_expr, rel_expr |-> rel_expr, eq_expr |-> eq_expr,
   bitand_expr |-> bitand_expr, bitxor_expr |-> bitxor_expr, bitor_expr |-> bitor_expr,
   logand_expr |-> logand_expr, cond_expr |-> cond_expr, expr |-> expr,
   delay_control |-> delay_control, range_opt |-> range_opt, array_dims_opt |-> array_dims_opt,
   reg_decl |-> reg_decl, integer_decl |-> integer_decl, real_decl |-> real_decl,
   longint_decl |-> longint_decl, seq_block |-> seq_block, case_item_list |-> case_item_list,
   blocking_assign |-> blocking_assign, statement |-> statement, net_decl |-> net_decl,
   sens_item |-> sens_item, sensitivity_stmt |-> sensitivity_stmt, conn_item |-> conn_item,
   const_expr |-> const_expr, param_item |-> param_item, port_item |-> port_item,
   port_list |-> port_list, attr_list |-> attr_list, logic_decl |-> logic_decl,
   input_decl |-> input_decl, output_decl |-> output_decl, inout_decl |-> inout_decl,
   param_decl |-> param_decl, real_input_decl |-> real_input_decl, module |-> module,
   modport_port |-> modport_port, interface_decl |-> interface_decl,
   package_decl |-> package_decl, design_file |-> design_file]
=============================================================================
