\* Every function that keeps the rules of ownership, in calls nested five deep; a
\* safety buffer of five, so that it fills.  The program stops where it goes wrong.
CONSTANTS
  Functions = {
    "scm_begin", "scm_quote", "scm_lambda", "scm_if",
    "scm_cond", "scm_and", "scm_or", "scm_when", "scm_unless", "scm_let",
    "scm_let_s", "scm_delay", "scm_eager", "scm_force", "scm_define",
    "predicate", "compare_many", "scm_cons", "scm_car", "scm_set_car_b",
    "array_ref", "scm_list", "scm_apply", "scm_eval",
    "scm_with_exception_handler", "scm_raise", "scm_error",
    "constructor", "compare", "scm_not", "inner_char_predicate",
    "scm_char_a_integer", "scm_make_list", "scm_list_tail",
    "scm_symbol_a_string", "scm_string_a_symbol", "scm_make_string",
    "array_length", "transform_string", "scm_substring",
    "scm_string_a_list", "scm_list_a_string", "scm_make_vector",
    "scm_list_a_vector", "scm_vector_a_string", "scm_string_a_vector",
    "scm_call_with_port", "call_with_file", "open_file",
    "close_port_of_type", "scm_read", "use_port", "scm_read_bytevector",
    "scm_read_bytevector_b", "scm_write", "scm_delete_file", "scm_lazy",
    "scm_quasiquote"}
  Capacity = 5
  MaxCalls = 5
SPECIFICATION Spec
INVARIANTS
  TypeOK
  NoFault
  NothingLost
  ErrorsGoToInnermost
  PendingError
  HandlerOwned
PROPERTIES
  LeavesAsFound
CHECK_DEADLOCK FALSE
