------------------------------- MODULE MCRobot -------------------------------
(***************************************************************************)
(* For the instances of RtdeSession: a robot with a vector, an integer that *)
(* is read whole and by its bits, an input integer whose bits are written, *)
(* an input number, and two variables that the controller refuses.         *)
(***************************************************************************)

Tag(base, index, brackets) == [base |-> base, index |-> index, brackets |-> brackets]

Outputs == {Tag("actual_q", 1, TRUE), Tag("status", 9, TRUE), Tag("status", 0, FALSE)}
Inputs == {Tag("input_bits", 0, TRUE), Tag("input_bits", 9, TRUE), Tag("input_reg", 0, FALSE)}
OutOfRange == Tag("actual_q", 3, TRUE)
Unknown == Tag("nothing", 0, FALSE)
Taken == Tag("input_taken", 0, FALSE)

MCTagNames == Outputs \cup Inputs \cup {OutOfRange, Unknown, Taken}

(* Nothing, everything that is good, less of it, and what fails at each     *)
(* reply.                                                                  *)
MCRegistrations == {{}, Outputs \cup Inputs, Outputs, {Tag("status", 9, TRUE)} \cup Inputs,
                    Inputs, Outputs \cup {OutOfRange}, Inputs \cup {Unknown},
                    Outputs \cup {Taken}}

MCBaseOrder == <<"actual_q", "input_bits", "input_reg", "input_taken", "nothing", "status">>
MCInputBases == {"input_bits", "input_reg", "input_taken"}
MCTypes == [actual_q |-> "VECTOR3D", input_bits |-> "UINT32", input_reg |-> "INT32",
            input_taken |-> "IN_USE", nothing |-> "NOT_FOUND", status |-> "UINT32"]
=============================================================================
