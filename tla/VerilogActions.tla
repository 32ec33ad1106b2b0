--------------------------- MODULE VerilogActions ---------------------------
(***************************************************************************)
(* The actions of the Verilog grammar (generated/grammar.peg.c), by rule:  *)
(* mul_expr_do is the sequence of the actions of rule mul_expr, its third  *)
(* element the action yy_3_mul_expr; an action that stands alone bears its *)
(* number.  The actions of primitives, specify and generate blocks are     *)
(* left out; so are the three that no rule queues.                         *)
(*                                                                         *)
(* An action is a sequence of effects on the parser's globals; a field is  *)
(* a global without its prefix _parse_ or _.  That a unit is open, which   *)
(* most actions test, holds whenever one of them runs.                     *)
(***************************************************************************)
EXTENDS Integers, Sequences

\* A global set to a constant, to the matched text, to nothing, to an expression
\* taken from the stack, to the height of the stack, to the number matched; and
\* a function of the parser called with what tells its calls apart.
Set(f, v) == <<[op |-> "set", field |-> f, val |-> v]>>
Save(f)   == <<[op |-> "save", field |-> f]>>
Free(f)   == <<[op |-> "free", field |-> f]>>
PopTo(f)  == <<[op |-> "pop", field |-> f]>>
Mark(f)   == <<[op |-> "mark", field |-> f]>>
Atoi(f)   == <<[op |-> "atoi", field |-> f]>>
Run(f, a) == <<[op |-> "run", name |-> f, args |-> a]>>

-----------------------------------------------------------------------------
(* Whole files, modules, interfaces, packages.                              *)

design_file_do ==
  <<Run("save_unit", <<>>), Run("save_unit", <<>>), Run("save_unit", <<>>),
    Run("save_unit", <<>>), Set("ok", TRUE) \o Run("all_consumed", <<>>)>>

module_do == <<Run("uir_create_design_unit", <<"module">>), Run("create_ports_from_named", <<>>)>>

interface_decl_do ==
  <<Run("uir_create_design_unit", <<"interface">>), Run("create_ports_from_named", <<>>)>>

modport_decl_1 == Run("add_modport", <<>>)

modport_port_do ==
  <<Set("modport_dir", "in"), Set("modport_dir", "out"), Set("modport_dir", "inout"),
    Run("add_modport_port", <<>>)>>

package_decl_1 == Run("uir_create_design_unit", <<"package">>)

import_stmt_do ==
  <<Save("saved"), Run("do_import", <<"one">>) \o Free("saved"), Save("saved"),
    Run("do_import", <<"all">>) \o Free("saved")>>

-----------------------------------------------------------------------------
(* Ports and declarations.                                                  *)

port_item_do ==
  <<Set("port_sig_type", "wire") \o Set("decl_signed", FALSE), Set("port_sig_type", "reg"),
    Set("port_sig_type", "logic"), Set("decl_signed", TRUE)>>
port_item_6 == Set("port_sig_type", "wire") \o Set("decl_signed", FALSE)
port_item_7 == Set("port_sig_type", "reg")
port_item_8 == Set("port_sig_type", "logic")
port_item_9 == Set("decl_signed", TRUE)
port_item_11 == Set("port_sig_type", "wire") \o Set("decl_signed", FALSE)
port_item_12 == Set("port_sig_type", "reg")
port_item_13 == Set("port_sig_type", "logic")
port_item_14 == Set("decl_signed", TRUE)
port_item_16 == Run("add_bare_port_name", <<>>) \o Set("range_msb", 0) \o Set("range_lsb", 0)
port_item_17 == Save("saved") \o Set("array_size", 0) \o Set("array_dims", <<>>)
port_item_18 ==
  Run("add_port_signed", <<"in">>) \o Set("range_msb", 0) \o Set("range_lsb", 0) \o Free("saved")
port_item_19 == Save("saved") \o Set("array_size", 0) \o Set("array_dims", <<>>)
port_item_20 ==
  Run("add_port_signed", <<"out">>) \o Set("range_msb", 0) \o Set("range_lsb", 0) \o Free("saved")
port_item_21 == Save("saved") \o Set("array_size", 0) \o Set("array_dims", <<>>)
port_item_22 ==
  Run("add_port_signed", <<"inout">>) \o Set("range_msb", 0) \o Set("range_lsb", 0) \o Free("saved")
port_item_23 == Set("port_sig_type", "real")

input_decl_do ==
  <<Set("decl_signed", FALSE), Set("decl_signed", TRUE),
    Save("saved") \o Set("array_size", 0) \o Set("array_dims", <<>>),
    Run("decl_input", <<"range_width">>) \o Free("saved"),
    Save("saved") \o Set("array_size", 0) \o Set("array_dims", <<>>),
    Run("decl_input", <<"saved_range_width">>) \o Free("saved")>>

output_decl_do ==
  <<Set("decl_signed", FALSE) \o Set("port_sig_type", "wire"), Set("port_sig_type", "reg"),
    Set("decl_signed", TRUE), Save("saved") \o Set("array_size", 0) \o Set("array_dims", <<>>),
    Run("decl_output", <<"range_width">>) \o Free("saved"),
    Save("saved") \o Set("array_size", 0) \o Set("array_dims", <<>>),
    Run("decl_output", <<"saved_range_width">>) \o Free("saved")>>

inout_decl_do ==
  <<Set("decl_signed", FALSE), Set("decl_signed", TRUE),
    Save("saved") \o Set("array_size", 0) \o Set("array_dims", <<>>),
    Run("decl_inout", <<"range_width">>) \o Free("saved"),
    Save("saved") \o Set("array_size", 0) \o Set("array_dims", <<>>),
    Run("decl_inout", <<"saved_range_width">>) \o Free("saved")>>

real_input_decl_1 == Run("decl_real_port", <<>>)

net_type_1_to_10 ==
  <<Set("net_type", "wire"), Set("net_type", "tri"), Set("net_type", "wand"),
    Set("net_type", "wor"), Set("net_type", "tri0"), Set("net_type", "tri1"),
    Set("net_type", "triand"), Set("net_type", "trior"), Set("net_type", "trireg"),
    Set("net_type", "supply0")>>
net_type_11_to_12 ==
  <<Set("net_type", "supply1"), Set("net_type", "uwire")>>
net_type_do == net_type_1_to_10 \o net_type_11_to_12

net_decl_do ==
  <<Set("decl_signed", FALSE), Set("decl_signed", TRUE),
    Save("saved") \o Set("array_size", 0) \o Set("array_dims", <<>>),
    Run("do_decl_init_assign", <<>>),
    Run("add_signal_signed", <<"range_width">>) \o Free("saved"),
    Save("saved") \o Set("array_size", 0) \o Set("array_dims", <<>>),
    Run("do_decl_init_assign", <<>>),
    Run("add_signal_signed", <<"saved_range_width">>) \o Free("saved")>>

reg_decl_do ==
  <<Set("decl_signed", FALSE), Set("decl_signed", TRUE),
    Save("saved") \o Set("array_size", 0) \o Set("array_dims", <<>>),
    Run("do_decl_init_assign", <<>>), Run("decl_reg", <<"range_width">>) \o Free("saved"),
    Save("saved") \o Set("array_size", 0) \o Set("array_dims", <<>>),
    Run("do_decl_init_assign", <<>>), Run("decl_reg", <<"saved_range_width">>) \o Free("saved")>>

logic_decl_do ==
  <<Set("decl_signed", FALSE), Set("decl_signed", TRUE),
    Save("saved") \o Set("array_size", 0) \o Set("array_dims", <<>>),
    Run("do_decl_init_assign", <<>>), Run("decl_logic", <<"range_width">>) \o Free("saved"),
    Save("saved") \o Set("array_size", 0) \o Set("array_dims", <<>>),
    Run("do_decl_init_assign", <<>>), Run("decl_logic", <<"saved_range_width">>) \o Free("saved")>>

integer_decl_do ==
  <<Save("saved") \o Run("decl_word", <<32>>), Save("saved") \o Run("decl_word", <<32>>)>>
integer_decl_3 == Run("do_decl_init_assign", <<>>)
integer_decl_4 == Free("saved")

real_decl_1 == Run("decl_real", <<>>)

longint_decl_1 == Run("decl_word", <<64>>)

event_decl_do == <<Run("decl_event", <<>>), Run("decl_event", <<>>)>>

genvar_decl_do == <<Run("add_genvar_name", <<>>), Run("add_genvar_name", <<>>)>>

param_item_do == <<Run("save_param_name", <<>>), Run("save_param_value", <<>>)>>

defparam_stmt_do ==
  <<Run("save_defparam_start", <<>>), Run("save_defparam_extend", <<>>),
    Run("save_defparam_value", <<>>), Run("save_defparam_start", <<>>),
    Run("save_defparam_extend", <<>>), Run("save_defparam_value", <<>>)>>

attr_list_do ==
  <<Run("save_attr_name", <<>>), Run("save_attr_val", <<>>), Run("save_attr_name", <<>>),
    Run("save_attr_val", <<>>), Run("finish_attr_list", <<>>)>>

range_do == <<Atoi("range_msb"), Atoi("range_lsb"), Run("saved_range", <<>>)>>

range_opt_1 == Set("saved_range_width", 1) \o Set("range_msb", 0) \o Set("range_lsb", 0)

array_range_do == <<Atoi("array_msb"), Atoi("array_lsb"), Run("array_range", <<>>)>>

-----------------------------------------------------------------------------
(* Functions, tasks, instances.                                             *)

func_port_opt_do ==
  <<Run("do_func_port_enter", <<>>), Run("do_func_port_leave", <<>>),
    Run("func_port_cleanup", <<>>), Run("do_func_port_simple", <<>>)>>

function_decl_do == <<Set("decl_automatic", TRUE), Save("saved"), Run("finish_function", <<>>)>>

task_decl_do ==
  <<Set("decl_automatic", TRUE), Save("saved"),
    Run("start_task", <<>>) \o Set("decl_automatic", FALSE) \o Free("saved"),
    Run("finish_task", <<>>)>>

module_inst_do == <<Save("saved"), Run("uir_add_instance", <<>>) \o Free("saved")>>

conn_item_do ==
  <<Save("saved"), Run("uir_add_connection", <<"open">>) \o Free("saved"), Save("saved"),
    Save("saved2"), Save("saved3"),
    Run("do_conn_modport", <<>>) \o Free("saved") \o Free("saved2") \o Free("saved3"),
    Free("saved2") \o Free("saved3") \o Save("saved"),
    Run("uir_add_connection", <<"expr">>) \o Free("saved"), Run("expr_pop", <<>>)>>

-----------------------------------------------------------------------------
(* Processes and continuous assigns.                                        *)

assign_stmt_do ==
  <<Save("assign_lhs"), PopTo("lhs_lo") \o PopTo("lhs_hi"), PopTo("lhs_index"),
    Set("concat_names", <<>>), Run("store_concat_name", <<>>), Run("store_concat_name", <<>>),
    Run("do_assign_stmt_finish", <<>>)>>

always_stmt_do == <<Run("start_always_process", <<>>), Run("finish_process", <<>>)>>

always_comb_stmt_do == <<Run("start_always_comb_process", <<>>), Run("finish_process", <<>>)>>

always_ff_stmt_do == <<Run("start_always_ff_process", <<>>), Run("finish_process", <<>>)>>

always_latch_stmt_do == <<Run("start_always_latch_process", <<>>), Run("finish_process", <<>>)>>

initial_stmt_do == <<Run("start_initial_process", <<>>), Run("finish_process", <<>>)>>

sens_item_do == <<Set("edge_flag", 1), Set("edge_flag", -1), Run("record_sensitivity", <<>>)>>

sensitivity_stmt_1 == Set("auto_sens", TRUE)

=============================================================================
