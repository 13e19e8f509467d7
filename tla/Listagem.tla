------------------------------ MODULE Listagem ------------------------------
(***************************************************************************)
(* Paging in the catalogue (src/catalogo): what page and page_size of a    *)
(* query become, the rows a page shows and whether it says there is more.  *)
(*                                                                         *)
(* A listing is given by how many rows it has, numbered in the order of    *)
(* the query, which ends in the id and so is total.  Count and page are    *)
(* two queries: nothing here is about rows written between them.           *)
(***************************************************************************)
EXTENDS Integers

CONSTANT MaiorInt   \* the largest int

TamanhoPaginaPadrao == 20
TamanhoPaginaMaximo == 100

(* A result of int arithmetic, wrapped round. *)
Enrolar(x) ==
    LET m == 2 * (MaiorInt + 1) IN ((x + MaiorInt + 1) % m) - (MaiorInt + 1)

(* inteiroDaQuery: what it may give; 0 stands for a parameter left out. *)
ParametrosLidos == 0..MaiorInt

Ou(n, padrao) == IF n = 0 THEN padrao ELSE n

(* NovoPageRequest: zero is the default, of the page, of its size and of   *)
(* both limits.                                                            *)
Padrao(padrao) == IF padrao <= 0 THEN TamanhoPaginaPadrao ELSE padrao
Maximo(maximo) == IF maximo <= 0 THEN TamanhoPaginaMaximo ELSE maximo

NovoPageRequest(numero, tamanho, padrao) ==
    [numero |-> Ou(numero, 1), tamanho |-> Ou(tamanho, Padrao(padrao))]
PageRequestValido(req, maximo) ==
    req.numero >= 1 /\ req.tamanho >= 1 /\ req.tamanho <= Maximo(maximo)

(* PageRequest.Offset *)
Offset(req) == Enrolar((req.numero - 1) * req.tamanho)

(* consultarPaginado: the rows LIMIT and OFFSET leave; the query has no    *)
(* OFFSET unless it is positive, so a product that wrapped round to a      *)
(* negative one shows the first rows.                                      *)
NaPagina(req, i) ==
    LET antes == IF Offset(req) > 0 THEN Offset(req) ELSE 0 IN
    antes < i /\ i <= antes + req.tamanho

(* NovaPage: whether the page says that another one follows. *)
TemProxima(req, total) == Enrolar(req.numero * req.tamanho) < total
=============================================================================
