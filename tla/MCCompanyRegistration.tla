------------------------ MODULE MCCompanyRegistration ------------------------
(***************************************************************************)
(* Two requests at a time. Both may register the same company, with a new   *)
(* person or with one the other may just be adding, or read what the other  *)
(* registered; some have no good token, path, method or body.               *)
(***************************************************************************)
EXTENDS CompanyRegistration

CONSTANTS r1, r2, ann, bob

Body(service, arg) ==
  [kind |-> "inputDod", domainType |-> "request", service |-> service, valid |-> TRUE,
   arg |-> arg]

Post(user, path, body) ==
  [client |-> "http", method |-> "POST", path |-> path, body |-> body,
   token |-> CreateToken(user, "access", 0, "serverSecret")]

Register(user, newPerson) ==
  Post(user, "/api/company-module/",
       Body("registerCompany", [bin |-> "b1", iin |-> "i1", newPerson |-> newPerson]))

GetFull(user, id) ==
  Post(user, "/api/frontend-proxy-module/", Body("getFullCompany", [id |-> id]))

Refused ==
  LET good == Register(ann, TRUE)
  IN { [good EXCEPT !.token = NoToken],
       [good EXCEPT !.token = CreateToken(ann, "access", 0, "otherSecret")],
       [good EXCEPT !.token = CreateToken(None, "refresh", 0, "serverSecret")],
       [good EXCEPT !.token = CreateToken(ann, "id", 0, "serverSecret")],
       [good EXCEPT !.client = "jwtApi",
                    !.token = CreateToken(ann, "refresh", 0, "serverSecret")],
       [good EXCEPT !.method = "GET"],
       [good EXCEPT !.path = "/api/"],
       [good EXCEPT !.path = "/api/subject-module/", !.body.domainType = "event"],
       [good EXCEPT !.body.kind = "notJson"],
       [good EXCEPT !.body.valid = FALSE] }

MCInputs ==
  { Register(ann, TRUE), Register(bob, FALSE), GetFull(bob, r1),
    [Register(ann, TRUE) EXCEPT !.path = "/about/", !.method = "GET"],
    Post(bob, "/api/subject-module/", Body("addPerson", [iin |-> "i1"])) }
  \union Refused
===============================================================================
