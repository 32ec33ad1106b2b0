---------------------------- MODULE BodyActions ----------------------------
(***************************************************************************)
(* The actions of the Verilog grammar inside process and routine bodies:   *)
(* statements and expressions.  See VerilogActions for the effects.        *)
(***************************************************************************)
EXTENDS VerilogActions

-----------------------------------------------------------------------------
(* Statements.                                                              *)

statement_do == <<Run("do_delay_finish", <<>>), Run("do_event_finish", <<>>)>>

delay_control_1 == Run("do_save_delay", <<>>)

event_control_do ==
  <<Set("edge_flag", 1), Set("edge_flag", -1), Run("do_event_enter", <<>>),
    Set("edge_flag", 0) \o Run("do_event_enter", <<>>)>>

wait_stmt_1 == Run("do_wait_finish", <<>>)

trigger_stmt_1 == Run("do_trigger_stmt", <<>>)

disable_stmt_1 == Run("do_disable_stmt", <<>>)

force_stmt_do == <<Save("saved"), Run("do_force_stmt", <<>>) \o Free("saved")>>

release_stmt_do == <<Save("saved"), Run("do_release_stmt", <<>>) \o Free("saved")>>

blocking_assign_do ==
  <<Save("assign_lhs") \o Set("multi_indices", <<>>), Run("push_index", <<>>),
    Run("push_index", <<>>), PopTo("lhs_lo") \o PopTo("lhs_hi"), PopTo("lhs_index"),
    Set("concat_names", <<>>), Run("store_concat_name", <<>>), Run("store_concat_name", <<>>),
    Run("do_blocking_assign_finish", <<>>)>>

nonblocking_assign_do ==
  <<Save("assign_lhs") \o Set("multi_indices", <<>>), Run("push_index", <<>>),
    Run("push_index", <<>>), PopTo("lhs_lo") \o PopTo("lhs_hi"), PopTo("lhs_index"),
    Set("concat_names", <<>>), Run("store_concat_name", <<>>), Run("store_concat_name", <<>>),
    Run("do_nonblocking_assign_finish", <<>>)>>

seq_block_do == <<Run("begin_named_block", <<>>) \o Save("name"), Run("end_named_block", <<>>)>>

if_stmt_do == <<Run("if_then_start", <<>>), Run("if_else_start", <<>>), Run("if_finish", <<>>)>>

case_stmt_do == <<Run("do_case_enter", <<>>), Run("do_case_finish", <<FALSE>>)>>

casez_stmt_do == <<Run("do_case_enter", <<>>), Run("do_case_finish", <<TRUE>>)>>

pattern_item_do == <<Run("do_case_item_enter", <<>>), Run("do_case_item_finish", <<>>)>>

default_item_do == <<Run("do_case_default_enter", <<>>), Run("do_case_default_finish", <<>>)>>

for_stmt_do ==
  <<Run("do_for_init_save", <<>>), Run("do_for_cond_save", <<>>), Run("do_for_step_save", <<>>),
    Run("do_for_body_enter", <<>>), Run("do_for_finish", <<>>)>>
for_stmt_6 == Run("decl_word", <<32>>) \o Save("assign_lhs")
for_stmt_7 == Run("do_for_decl_init_save", <<>>)

while_stmt_do ==
  <<Run("do_while_enter", <<>>), Run("do_while_body_enter", <<>>), Run("do_while_finish", <<>>)>>

repeat_stmt_do ==
  <<Run("do_repeat_enter", <<>>), Run("do_repeat_body_enter", <<>>), Run("do_repeat_finish", <<>>)>>

forever_stmt_do == <<Run("do_forever_enter", <<>>), Run("do_forever_finish", <<>>)>>

task_enable_do ==
  <<Mark("func_call_sp") \o Save("func_call_name"),
    Run("do_task_enable_stmt", <<>>) \o Free("func_call_name")>>

system_task_1_to_10 ==
  <<Save("saved"),
    Run("sys_task", <<"READMEMH", <<"saved", "assign_lhs">>>>) \o Free("saved")
      \o Free("assign_lhs"),
    Save("saved"), Run("sys_task", <<"WRITEMEMH", <<"saved", "text">>>>) \o Free("saved"),
    Save("saved") \o Mark("func_call_sp"), Run("do_sys_display", <<"DISPLAY">>) \o Free("saved"),
    Save("saved") \o Mark("func_call_sp"), Run("do_sys_display", <<"WRITE">>) \o Free("saved"),
    Save("saved") \o Mark("func_call_sp"), Run("do_sys_display", <<"MONITOR">>) \o Free("saved")>>
system_task_11_to_20 ==
  <<Run("do_sys_stop_finish_with_arg", <<"STOP">>), Run("sys_task", <<"STOP", <<>>>>),
    Run("do_sys_stop_finish_with_arg", <<"FINISH">>), Run("sys_task", <<"FINISH", <<>>>>),
    Save("saved") \o Mark("func_call_sp"), Run("do_sys_display", <<"FATAL">>) \o Free("saved"),
    Save("saved") \o Mark("func_call_sp"), Run("do_sys_display", <<"ERROR">>) \o Free("saved"),
    Save("saved") \o Mark("func_call_sp"), Run("do_sys_display", <<"WARNING">>) \o Free("saved")>>
system_task_21_to_30 ==
  <<Save("saved") \o Mark("func_call_sp"), Run("do_sys_display", <<"INFO">>) \o Free("saved"),
    Run("sys_task", <<"DUMPFILE", <<"text">>>>), Run("sys_task", <<"DUMPVARS", <<>>>>),
    Run("sys_task", <<"DUMPON", <<>>>>), Run("sys_task", <<"DUMPOFF", <<>>>>), Save("saved"),
    Run("sys_task", <<"VALUE_PLUSARGS", <<"text", "saved">>>>) \o Free("saved"),
    Run("sys_task", <<"TEST_PLUSARGS", <<"text">>>>), Mark("func_call_sp")>>
system_task_31_to_40 ==
  <<Save("saved"), Run("do_sys_display", <<"FWRITE">>) \o Free("saved"), Mark("func_call_sp"),
    Save("saved"), Run("do_sys_display", <<"FDISPLAY">>) \o Free("saved"), Mark("func_call_sp"),
    Run("do_sys_display", <<"FCLOSE">>), Mark("func_call_sp"), Save("saved"),
    Run("do_sys_display", <<"TIMEFORMAT">>) \o Free("saved")>>
system_task_41_to_44 ==
  <<Run("sys_task", <<"PRINTTIMESCALE", <<"text">>>>),
    Run("sys_task", <<"PRINTTIMESCALE", <<>>>>), Save("saved"),
    Run("sys_task", <<"SDF_ANNOTATE", <<"saved">>>>) \o Free("saved")>>
system_task_do == system_task_1_to_10 \o system_task_11_to_20 \o system_task_21_to_30
  \o system_task_31_to_40 \o system_task_41_to_44

-----------------------------------------------------------------------------
(* Expressions.                                                             *)

primary_expr_1_to_10 ==
  <<Run("do_sys_func_expr1", <<"SIGNED">>), Run("do_sys_func_expr1", <<"UNSIGNED">>),
    Run("do_sys_func_expr1", <<"CLOG2">>), Run("do_sys_func_expr0", <<"TIME">>),
    Run("do_sys_func_expr0", <<"TIME">>), Run("do_sys_func_expr0", <<"REALTIME">>),
    Run("do_sys_func_expr0", <<"REALTIME">>), Run("do_sys_func_expr1", <<"RANDOM">>),
    Run("do_sys_func_expr0", <<"RANDOM">>), Run("do_sys_func_expr0", <<"RANDOM">>)>>
primary_expr_11_to_20 ==
  <<Run("do_sys_func_fopen_stub", <<>>), Save("array_id"),
    Run("do_indexed_part_select", <<"ADD">>) \o Free("array_id"), Save("array_id"),
    Run("do_indexed_part_select", <<"SUB">>) \o Free("array_id"), Save("array_id"),
    Run("do_part_select", <<>>) \o Free("array_id"),
    Save("multi_id") \o Set("multi_indices", <<>>), Run("push_index", <<>>),
    Run("push_index", <<>>)>>
primary_expr_21_to_26 ==
  <<Run("do_multi_index_ref", <<>>) \o Free("multi_id"), Save("array_id"),
    Run("index_ref", <<>>) \o Free("array_id"), Mark("func_call_sp") \o Save("func_call_name"),
    Run("do_func_call_expr", <<>>) \o Free("func_call_name"), Run("make_ref_implicit", <<>>)>>
primary_expr_do == primary_expr_1_to_10 \o primary_expr_11_to_20 \o primary_expr_21_to_26
primary_expr_27 == Run("parse_number_literal", <<>>)
primary_expr_28 == Save("array_id") \o Set("multi_indices", <<>>)
primary_expr_29 == Run("do_index_part_select", <<>>) \o Free("array_id")
primary_expr_30 == Run("do_sys_func_expr1", <<"BITSTOREAL">>)
primary_expr_31 == Run("do_sys_func_expr1", <<"REALTOBITS">>)
primary_expr_32 == Run("do_sys_func_expr1", <<"SQRT">>)
primary_expr_33 == Run("do_sys_func_expr1", <<"FLOOR">>)
primary_expr_34 == Run("do_sys_func_expr1", <<"CEIL">>)
primary_expr_35 == Run("do_sys_func_expr1", <<"RTOI">>)
primary_expr_36 == Run("do_sys_func_expr1", <<"ITOR">>)
primary_expr_37 == Run("expr_pop", <<>>) \o Free("assign_lhs")

hier_save == Save("assign_lhs")

hier_append == Run("hier_append_lhs", <<>>)

hier_push == Run("hier_ref", <<>>) \o Free("assign_lhs")

concat_expr_do ==
  <<Atoi("repl_count"), Mark("concat_sp"), Run("do_replicate", <<>>), Run("do_concat", <<>>),
    Mark("concat_sp"), Run("do_concat", <<>>)>>

unary_expr_1_to_10 ==
  <<Run("do_unop", <<"NEG">>), Run("do_unop", <<"NEG">>), Run("do_unop", <<"REDUCE_NAND">>),
    Run("do_unop", <<"REDUCE_NOR">>), Run("do_unop", <<"REDUCE_XNOR">>),
    Run("do_unop", <<"REDUCE_XNOR">>), Run("do_unop", <<"NOT">>), Run("do_unop", <<"NOT">>),
    Run("do_unop", <<"REDUCE_AND">>), Run("do_unop", <<"REDUCE_OR">>)>>
unary_expr_11_to_11 ==
  <<Run("do_unop", <<"REDUCE_XOR">>)>>
unary_expr_do == unary_expr_1_to_10 \o unary_expr_11_to_11

mul_expr_do ==
  <<Run("do_binop", <<"MUL">>), Run("do_binop", <<"DIV">>), Run("do_binop", <<"MOD">>)>>

add_expr_do == <<Run("do_binop", <<"ADD">>), Run("do_binop", <<"SUB">>)>>

shift_expr_do ==
  <<Run("do_binop", <<"SHL">>), Run("do_binop", <<"SRA">>), Run("do_binop", <<"SHR">>)>>

rel_expr_do ==
  <<Run("do_binop", <<"LT">>), Run("do_binop", <<"GT">>), Run("do_binop", <<"LE">>),
    Run("do_binop", <<"GE">>)>>

eq_expr_do == <<Run("do_binop", <<"EQ">>), Run("do_binop", <<"NEQ">>)>>

bitand_expr_1 == Run("do_binop", <<"AND">>)

bitxor_expr_1 == Run("do_binop", <<"XOR">>)

bitor_expr_1 == Run("do_binop", <<"OR">>)

logand_expr_1 == Run("do_binop", <<"AND">>)

logor_expr_1 == Run("do_binop", <<"OR">>)

cond_expr_1 == Run("do_ternary", <<>>)
=============================================================================
