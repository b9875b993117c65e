--------------------------- MODULE MCResourceFolder ---------------------------
(* ResourceFolder instantiated for TLC: the enabled and the disabled file of  *)
(* one mod, whose metadata has another name than the mod gives itself.        *)
EXTENDS ResourceFolder

CONSTANTS jei
ModsMC == {jei}
SlugsMC == {}
=============================================================================
