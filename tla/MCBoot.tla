-------------------------------- MODULE MCBoot --------------------------------
(* The registration of main.rs, as Kernel's constants have it.               *)
EXTENDS Boot

TasksAll == [h \in Hart |-> {Registrations[n][2] :
                n \in {m \in DOMAIN Registrations : Registrations[m][1] = h}}]

Granted(relation) ==
    [h \in Hart |-> [i \in Slot |-> {r[2] : r \in {q \in relation : q[1] = i /\ HartOf(i) = h}}]]

MutexCaps == Granted({<<A, 0>>, <<C, 0>>})
Sends == Granted({<<A, 0>>, <<A, 2>>, <<HSM, 3>>})
Receives == Granted({<<A, 3>>, <<B, 0>>, <<HSM, 2>>})

AllRestartable == {<<1, C>>, <<0, HSM>>}

=============================================================================
