---------------------------- MODULE LibraryObjects ----------------------------
(***************************************************************************)
(* The library functions on numbers, lists, strings, vectors and ports     *)
(* (sections 6.1 to 6.13 of quuz-lib.c), written like those of Library.    *)
(* Some of them break the rules of ownership.  They are written down like  *)
(* the others, and adding one to a run shows what goes wrong.              *)
(***************************************************************************)
EXTENDS Library

\* qz_get_args with the required arguments xs and then the optional ones ys;
\* the first that is missing ends the list
GetArgsOpt(xs, ys) ==
  LET OptArg(j, after) ==
        Alt(<<Eval(ys[j]), Push(ys[j]), Check>> \o after,
            <<Check, Pop(Len(xs) + j - 1)>>)
  IN FlattenSeq([i \in DOMAIN xs |-> <<Check, Eval(xs[i]), Push(xs[i]), Check>>])
       \o FoldRight(OptArg, [j \in DOMAIN ys |-> j], <<Pop(Len(xs) + Len(ys))>>)

\* an error about x, raised with x in the safety buffer
Reject(x) == <<Push(x), Use(x), Error>>

\* functions that only make an object, or borrow one of the state
constructor == <<Take("result"), Return("result")>>

(***************************************************************************)
(* Equivalence, numbers, booleans, characters.                             *)
(***************************************************************************)
compare ==
  GetArgs(<<"obj1", "obj2">>) \o <<Unref("obj1"), Unref("obj2"), ReturnValue>>

scm_not == GetArgs(<<"value">>) \o <<Unref("value"), ReturnValue>>

inner_char_predicate == <<Check, Eval("value"), Unref("value"), ReturnValue>>

\* functions from a character or a number to another
scm_char_a_integer == GetArgs(<<"value">>) \o <<Immediate("value"), ReturnValue>>

\* an operand that is no number is released, and then put in the error
Operand == <<Eval("value")>> \o Maybe(<<Unref("value"), Use("value"), Error>>)
             \o <<Immediate("value")>>

scm_num_add == Loop(Operand) \o <<ReturnValue>>

scm_num_sub == <<Check>> \o Operand \o Loop(Operand) \o <<ReturnValue>>

(***************************************************************************)
(* Lists.                                                                  *)
(***************************************************************************)
scm_make_list ==
  GetArgsOpt(<<"k">>, <<"fill">>)
    \o <<Immediate("k")>> \o Maybe(<<Take("result")>>)
    \o <<Unref("fill"), Return("result")>>

scm_list_tail ==
  GetArgs(<<"list", "k">>) \o <<Immediate("k")>> \o Maybe(Reject("list"))
    \o <<Take("elem"), Unref("list"), Return("elem")>>

\* the element belongs to the tail, which is not released
scm_list_ref ==
  <<Call("scm_list_tail", "elem")>> \o Borrow("first") \o <<Return("first")>>

\* the tail is not released
scm_list_set_b ==
  <<Call("scm_list_tail", "elem"), Push("elem"), Check, Check, Eval("obj"),
    Pop(1), Give("obj"), ReturnValue>>

\* the list is released before it is put in the error
scm_length ==
  GetArgs(<<"obj">>) \o <<Unref("obj")>> \o Maybe(<<Use("obj"), Error>>)
    \o <<ReturnValue>>

\* the elements are put in the new list without a reference
scm_reverse ==
  <<Check, Eval("list")>> \o Loop(Borrow("first") \o <<Give("first")>>)
    \o Maybe(<<Take("result")>>)
    \o Maybe(<<Unref("result")>> \o Reject("list"))
    \o <<Unref("list"), Return("result")>>

\* the new list is known by its last pair only
scm_list_copy ==
  <<Check, Eval("list"), Push("list")>>
    \o Maybe(<<Take("result"), Check>>
               \o Loop(<<Take("inner_result"), Give("inner_result")>>
                         \o Borrow("result") \o <<Check>>))
    \o <<Check, Pop(1), Unref("list"), Return("result")>>

\* what member found, and its first element
inner_assoc ==
  <<Call("inner_member", "obj")>> \o Maybe(<<Immediate("obj"), ReturnValue>>)
    \o <<Take("result"), Unref("obj"), Return("result")>>

(***************************************************************************)
(* Symbols and strings.                                                    *)
(***************************************************************************)
scm_symbol_a_string ==
  GetArgs(<<"sym">>) \o <<Immediate("sym"), Take("str"), Return("str")>>

\* qz_make_sym releases the name or keeps it in its tables
scm_string_a_symbol == GetArgs(<<"str">>) \o <<Give("str"), ReturnValue>>

scm_make_string ==
  GetArgsOpt(<<"k">>, <<"fill">>)
    \o <<Immediate("k"), Immediate("fill"), Check, Take("cell"), Return("cell")>>

array_length == GetArgs(<<"obj">>) \o <<Unref("obj"), ReturnValue>>

transform_string ==
  GetArgs(<<"str">>) \o <<Take("out"), Unref("str"), Return("out")>>

scm_substring ==
  GetArgs(<<"str", "start", "end">>)
    \o <<Immediate("start"), Immediate("end")>> \o Maybe(Reject("str"))
    \o <<Take("out"), Unref("str"), Return("out")>>

scm_string_a_list ==
  GetArgs(<<"str">>) \o Maybe(<<Take("result")>>)
    \o <<Unref("str"), Return("result")>>

scm_list_a_string ==
  GetArgs(<<"list">>) \o Maybe(Reject("list")) \o <<Take("cell")>>
    \o Maybe(<<Push("list"), Unref("cell"), Error>>)
    \o <<Unref("list"), Return("cell")>>

(***************************************************************************)
(* Vectors.                                                                *)
(***************************************************************************)
scm_make_vector ==
  GetArgsOpt(<<"k">>, <<"fill">>) \o <<Immediate("k")>>
    \o Maybe(<<Unref("fill"), Error>>)
    \o <<Take("cell"), Unref("fill"), Return("cell")>>

scm_list_a_vector ==
  GetArgs(<<"list">>) \o Maybe(Reject("list"))
    \o <<Take("cell"), Unref("list"), Return("cell")>>

scm_vector_a_string ==
  GetArgs(<<"vec">>) \o <<Take("out")>>
    \o Maybe(<<Push("vec"), Unref("out"), Error>>)
    \o <<Unref("vec"), Return("out")>>

scm_string_a_vector ==
  GetArgs(<<"str">>) \o <<Take("out"), Unref("str"), Return("out")>>

\* an empty vector is not released
scm_vector_a_list ==
  GetArgs(<<"vec">>) \o Maybe(<<ReturnValue>>)
    \o <<Take("result"), Unref("vec"), Return("result")>>

\* the new element is not protected when the index is wrong
array_set ==
  GetArgs(<<"arr", "k", "obj">>)
    \o <<Immediate("k"), Push("arr"), Check, Give("obj"), ReturnValue>>

\* fill is never used and never released
scm_vector_copy ==
  GetArgsOpt(<<"vec">>, <<"start", "end", "fill">>)
    \o <<Immediate("start"), Immediate("end")>>
    \o Maybe(<<Unref("vec"), Error>>)
    \o <<Take("out"), Unref("vec"), Return("out")>>

(***************************************************************************)
(* case and error objects.                                                 *)
(***************************************************************************)

\* the key is not protected while a malformed clause is rejected
scm_case ==
  <<Check, Eval("result")>> \o Loop(<<Check>>)
    \o Maybe(<<Unref("result"), ReturnValue>>)
    \o Alt(<<Push("result"), Check, Pop(1), Make("fun_call", {"result"}),
             Push("fun_call"), Eval("result"), Pop(1), Unref("fun_call")>>,
           Body("result"))
    \o <<Return("result")>>

\* the error object is not released
scm_error_object_message ==
  GetArgs(<<"obj">>) \o <<Take("message"), Return("message")>>

(***************************************************************************)
(* Ports.  A port or a call that is left in the safety buffer is released  *)
(* by the cleanup of qz_eval.                                              *)
(***************************************************************************)
call_with_port ==
  <<Make("fun_call", {"proc", "port"}), Push("fun_call"), Eval("result"),
    Return("result")>>

scm_call_with_port == GetArgs(<<"port", "proc">>) \o call_with_port

call_with_file ==
  GetArgs(<<"str", "proc">>)
    \o <<Push("str"), Push("proc"), Check, Take("port"), Pop(2), Unref("str")>>
    \o call_with_port

\* The slot of the state gets the new port and, after the call, the old one back.
\* The slot's references change hands unseen: what a with_file that the call has
\* made and an error has left found in the slot, the cleanup has released, and
\* its own port is still there.  So after the call either the slot holds this
\* function's port, and its reference comes back; or that was released, and the
\* one in the slot is overwritten.
with_file ==
  <<Check, Eval("str"), Push("str"), Check, Check, Take("thunk"), Push("thunk"),
    Pop(2), Make("fun_call", {"thunk"}), Push("fun_call"),
    Push("str"), Check, Take("port"), Pop(1), Unref("str"),
    Take("old_port"), Give("port"), Push("old_port"), Eval("result"), Pop(1)>>
    \o Alt(<<Take("port")>>, <<Take("inner_port")>>)
    \o <<Give("old_port"), Unref("port"), Return("result")>>

open_file ==
  GetArgs(<<"str">>) \o <<Push("str"), Check, Take("port"), Return("port")>>

close_port_of_type ==
  GetArgsOpt(<<>>, <<"port">>) \o <<Push("port"), Check, ReturnValue>>

\* the port given, or the default one
get_open_port ==
  Alt(<<Eval("port"), Push("port"), Check, Pop(1)>>, <<Check, Take("port")>>)
    \o <<Push("port"), Check>>

scm_read == get_open_port \o <<Check, Take("result"), Return("result")>>

\* read-char, read-line, newline and the like
use_port ==
  get_open_port \o <<Check>> \o Maybe(<<Take("result")>>) \o <<Return("result")>>

scm_read_bytevector ==
  GetArgs(<<"length">>) \o <<Immediate("length")>> \o get_open_port
    \o <<Check, Take("result")>>
    \o Maybe(<<Unref("result")>> \o Alt(<<Error>>, <<ReturnValue>>))
    \o <<Return("result")>>

scm_read_bytevector_b ==
  GetArgs(<<"bvec", "start", "end">>)
    \o <<Immediate("start"), Immediate("end"), Push("bvec")>>
    \o get_open_port \o <<Check, ReturnValue>>

\* write, display, write-bytevector
scm_write ==
  GetArgs(<<"obj">>) \o <<Push("obj")>> \o get_open_port
    \o <<Check, ReturnValue>>

scm_delete_file ==
  GetArgs(<<"filename">>) \o Maybe(Reject("filename"))
    \o <<Unref("filename"), ReturnValue>>
=============================================================================
